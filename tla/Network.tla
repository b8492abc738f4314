------------------------------ MODULE Network -------------------------------
(***************************************************************************)
(* The library as its applications see it: all processes with their        *)
(* branching channels, the requests and data between them, and the service *)
(* threads that answer. Each of the programs of Applications runs on it.   *)
(*                                                                         *)
(* What MC121Queue, FarmQueue and NMC12MQueue are shown to implement is    *)
(* taken here as their meaning: a queue of units from which the service    *)
(* thread takes, and a put that blocks until there is room.                *)
(***************************************************************************)
EXTENDS Applications, Reductions, TLC

CONSTANTS Apps,     \* the applications to run
          MaxProcs, \* the processes of the largest one
          Killed    \* what is left of a link that was destroyed

VARIABLES app,      \* the application that runs
          program,  \* per process, what it calls, as far as h determines it
          k,        \* per process, the library calls that have returned
          h,        \* per process, the results of its gets
          part,     \* how far the call in progress has come
          sinks,    \* per process and channel, the sinks it has created
          sources,  \* per process and channel, the sources it has
          links,    \* links[p][q], the links of p for process q, by tag
          gtags,    \* gtags[p][q], the next tag for a source of p fed by q
          requests, \* requests[p][q], the request connection from p to q
          data      \* data[p][q], the data connection from p to q

vars == <<app, program, k, h, part, sinks, sources, links, gtags, requests, data>>

Procs == 0..(NumProcs(app) - 1)
(* The call a process is in or about to make; none when its program ends. *)
Calls(p) == IF k[p] < Len(program[p]) THEN {program[p][k[p] + 1]} ELSE {}

Empty  == [x \in {} |-> x]
Init == /\ app \in Apps
        /\ program = [p \in Procs |-> Program(app, p, << >>)]
        /\ k = [p \in Procs |-> 0]
        /\ h = [p \in Procs |-> << >>]
        /\ part = [p \in Procs |-> 0]
        /\ sinks = [p \in Procs |-> Empty]
        /\ sources = [p \in Procs |-> Empty]
        /\ links = [p \in Procs |-> [q \in Procs |-> << >>]]
        /\ gtags = [p \in Procs |-> [q \in Procs |-> 0]]
        /\ requests = [p \in Procs |-> [q \in Procs |-> << >>]]
        /\ data = [p \in Procs |-> [q \in Procs |-> << >>]]

(* The process goes on after the call it is in. *)
Return(p) == /\ k' = [k EXCEPT ![p] = @ + 1]
             /\ part' = [part EXCEPT ![p] = 0]
(* A get returns with these units: what the process calls next may change. *)
Receive(p, units) == \E got \in {Append(h[p], units)} :
                         /\ Return(p)
                         /\ h' = [h EXCEPT ![p] = got]
                         /\ program' = [program EXCEPT ![p] = Program(app, p, got)]

---------------------------------------------------------------------------
(* The roles and what they keep the units in. *)

Copying == {"pipe", "replicate", "spread"}              \* MC121, MC12M
InPlace == {"pipen", "replicaten", "farmn"}             \* NMC12M, FARMN
Anyone  == "anyone"
QueueOf(role, q) == IF role = "farmn" THEN Anyone ELSE q

(* The producers and consumers of a channel that is in use by p. *)
NewSink(call) == [role   |-> call.role,
                  peers  |-> call.peers,
                  du     |-> call.du,
                  queue  |-> [x \in {QueueOf(call.role, q) : q \in Range(call.peers)} |-> << >>]]

(* bc_sink_create: a tag and a link for each consumer. *)
SinkCreate(p, call) ==
    /\ call.op = "sink"
    /\ Return(p)
    /\ sinks' = [sinks EXCEPT ![p] = (call.c :> NewSink(call)) @@ @]
    /\ links' = [links EXCEPT ![p] = [q \in Procs |->
                    IF q \in Range(call.peers) THEN Append(@[q], call.c) ELSE @[q]]]
    /\ UNCHANGED <<app, program, h, sources, gtags, requests, data>>

(* __bc_gtag: tags are counted apart for what comes from q and what goes   *)
(* there; before it, counted together                                      *)
NextTagOfBoth(p, q) == gtags[p][q] + Len(links[p][q])
NextTag(p, q) == gtags[p][q]

(* bc_src_create: a tag for each producer. *)
SourceCreate(p, call) ==
    /\ call.op = "source"
    /\ Return(p)
    /\ sources' = [sources EXCEPT ![p] =
                     (call.c :> [role  |-> call.role,
                                    peers |-> call.peers,
                                    tags  |-> [q \in Range(call.peers) |-> NextTag(p, q)]]) @@ @]
    /\ gtags' = [gtags EXCEPT ![p] = [q \in Procs |->
                    IF q \in Range(call.peers) THEN @[q] + 1 ELSE @[q]]]
    /\ UNCHANGED <<app, program, h, sinks, links, requests, data>>

---------------------------------------------------------------------------
(* bc_put and bc_commit. *)

(* One pass of the loop over the rings of MC12M, or the only one of MC121: *)
(* it blocks until the ring of this consumer has room for all the units.   *)
(* A spread has units of their own for each; before it, the same for all.  *)
SliceFirst(call, sink, i) ==
    IF sink.role = "spread" THEN SubSeq(call.units, 1, Len(call.units) \div Len(sink.peers))
    ELSE call.units
Slice(call, sink, i) ==
    IF sink.role = "spread"
    THEN LET du == Len(call.units) \div Len(sink.peers)
         IN  SubSeq(call.units, (i - 1) * du + 1, i * du)
    ELSE call.units
(* Before it, room for one unit taken for room for all. *)
FitsOne(queue, n, du) == Len(queue) < du
Fits(queue, n, du) == Len(queue) + n <= du
PutCopy(p, call) ==
    /\ call.op = "put"
    /\ LET sink  == sinks[p][call.c]
           i     == part[p] + 1
           units == Slice(call, sink, i)
       IN  /\ sink.role \in Copying
           /\ IF i = Len(sink.peers) THEN Return(p)
              ELSE part' = [part EXCEPT ![p] = i] /\ UNCHANGED k
           /\ Fits(sink.queue[sink.peers[i]], Len(units), sink.du)
           /\ sinks' = [sinks EXCEPT ![p][call.c].queue[sink.peers[i]] = @ \o units]
    /\ UNCHANGED <<app, program, h, sources, links, gtags, requests, data>>

(* The rings written in place keep one unit for the application; before    *)
(* it, two. The code sets the unit's counter before it waits for the next  *)
(* slot, but no consumer may take a unit while the producer's index is on  *)
(* it (queue.c:623, 818), and the index moves only when the call returns   *)
(* (589, 786): to all others the unit is there when PutInPlace is done.    *)
UnitFreeOfTwo(queue, du) == Len(queue) < du - 2
UnitFree(queue, du) == Len(queue) < du - 1
PutInPlace(p, call) ==
    /\ call.op = "put"
    /\ Return(p)
    /\ LET sink == sinks[p][call.c]
       IN  /\ sink.role \in InPlace
           /\ \A x \in DOMAIN sink.queue : UnitFree(sink.queue[x], sink.du)
           /\ sinks' = [sinks EXCEPT ![p][call.c].queue =
                          [x \in DOMAIN @ |-> @[x] \o call.units]]
    /\ UNCHANGED <<app, program, h, sources, links, gtags, requests, data>>

---------------------------------------------------------------------------
(* bc_get. *)

(* A source of a pipe asks the first of its list only. *)
Asked(src) == IF src.role = "pipe" \/ src.role = "pipen" THEN {src.peers[1]} ELSE Range(src.peers)
Answers(p, src, n) == [i \in 1..Cardinality(Asked(src)) |-> SubSeq(data[src.peers[i]][p], 1, n)]
Request(code, src, q, n) == [code |-> code, tag |-> src.tags[q], n |-> n]

GetRequest(p, call) ==
    /\ call.op = "get"
    /\ part[p] = 0
    /\ part' = [part EXCEPT ![p] = 1]
    /\ LET src == sources[p][call.c]
       IN  /\ src.role # "collect_any"
           /\ requests' = [requests EXCEPT ![p] = [q \in Procs |->
                 IF q \in Asked(src) THEN Append(@[q], Request("get", src, q, call.n)) ELSE @[q]]]
    /\ UNCHANGED <<app, program, k, h, sinks, sources, links, gtags, data>>

GetRead(p, call) ==
    /\ call.op = "get"
    /\ part[p] = 1
    /\ LET src == sources[p][call.c]
           n   == call.n
       IN  /\ src.role # "collect_any"
           /\ \A q \in Asked(src) : Len(data[q][p]) >= n
           /\ Receive(p, Combine(src.role, Answers(p, src, n), n))
           /\ data' = [q \in Procs |-> IF q \in Asked(src)
                          THEN [data[q] EXCEPT ![p] = SubSeq(@, n + 1, Len(@))] ELSE data[q]]
    /\ UNCHANGED <<app, sinks, sources, links, gtags, requests>>

(* collect_any polls one producer after the other until one has data. An   *)
(* even part is about to ask, an odd one waits for the answer.             *)
Polled(p, call) == sources[p][call.c].peers[part[p] \div 2 + 1]
Polling(p, call) == call.op = "get" /\ sources[p][call.c].role = "collect_any"
PollRequest(p, call) ==
    /\ Polling(p, call)
    /\ part[p] % 2 = 0
    /\ part' = [part EXCEPT ![p] = @ + 1]
    /\ requests' = [requests EXCEPT ![p][Polled(p, call)] =
                      Append(@, Request("cond_get", sources[p][call.c], Polled(p, call), call.n))]
    /\ UNCHANGED <<app, program, k, h, sinks, sources, links, gtags, data>>

PollSorry(p, call) ==
    /\ Polling(p, call)
    /\ part[p] % 2 = 1
    /\ data[Polled(p, call)][p] # << >>
    /\ Head(data[Polled(p, call)][p]) = 0
    /\ data' = [data EXCEPT ![Polled(p, call)][p] = Tail(@)]
    /\ part' = [part EXCEPT ![p] = (@ + 1) % (2 * Len(sources[p][call.c].peers))]
    /\ UNCHANGED <<app, program, k, h, sinks, sources, links, gtags, requests>>

PollRead(p, call) ==
    /\ Polling(p, call)
    /\ part[p] % 2 = 1
    /\ LET q == Polled(p, call)
           n == call.n
       IN  /\ Len(data[q][p]) > n
           /\ Head(data[q][p]) = 1
           /\ Receive(p, SubSeq(data[q][p], 2, n + 1))
           /\ data' = [data EXCEPT ![q][p] = SubSeq(@, n + 2, Len(@))]
    /\ UNCHANGED <<app, sinks, sources, links, gtags, requests>>

---------------------------------------------------------------------------
(* bc_chan_destroy: the end of a consumer asks each producer to kill its   *)
(* link; a producer only lets go of its handle.                            *)
ChanDestroy(p, call) ==
    /\ call.op = "destroy"
    /\ Return(p)
    /\ requests' =
         IF call.sink \/ call.c \notin DOMAIN sources[p] THEN requests
         ELSE LET src == sources[p][call.c]
              IN  [requests EXCEPT ![p] = [q \in Procs |->
                     IF q \in Range(src.peers) THEN Append(@[q], Request("kill", src, q, 0)) ELSE @[q]]]
    /\ UNCHANGED <<app, program, h, sinks, sources, links, gtags, data>>

---------------------------------------------------------------------------
(* The service thread of p for q, and the request at its end.              *)

Pending(p, q)  == requests[q][p] # << >>
Asking(p, q)   == Head(requests[q][p])
HasLink(p, q)  == Asking(p, q).tag < Len(links[p][q])
Linked(p, q)   == links[p][q][Asking(p, q).tag + 1]
Served(p, q)   == requests' = [requests EXCEPT ![q][p] = Tail(@)]

(* How many units the channel answers with: all that were asked for out of *)
(* a ring of bytes, one out of a ring of units.                            *)
Amount(sink, n) == IF sink.role \in Copying THEN n ELSE 1
Available(sink, q) == Len(sink.queue[QueueOf(sink.role, q)])

ServeData(p, q) ==
    /\ Served(p, q)
    /\ Asking(p, q).code \in {"get", "cond_get"}
    /\ HasLink(p, q)
    /\ Linked(p, q) # Killed
    /\ LET c    == Linked(p, q)
           sink == sinks[p][c]
           x    == QueueOf(sink.role, q)
           n    == Amount(sink, Asking(p, q).n)
           preamble == IF Asking(p, q).code = "cond_get" THEN <<1>> ELSE << >>
       IN  /\ Available(sink, q) >= n
           /\ data' = [data EXCEPT ![p][q] = @ \o preamble \o SubSeq(sink.queue[x], 1, n)]
           /\ sinks' = [sinks EXCEPT ![p][c].queue[x] = SubSeq(@, n + 1, Len(@))]
    /\ UNCHANGED <<app, program, k, h, part, sources, links, gtags>>

ServeSorry(p, q) ==
    /\ Served(p, q)
    /\ Asking(p, q).code = "cond_get"
    /\ HasLink(p, q)
    /\ Linked(p, q) # Killed
    /\ LET sink == sinks[p][Linked(p, q)]
       IN  Available(sink, q) < Amount(sink, Asking(p, q).n)
    /\ data' = [data EXCEPT ![p][q] = Append(@, 0)]
    /\ UNCHANGED <<app, program, k, h, part, sinks, sources, links, gtags>>

ServeKill(p, q) ==
    /\ Served(p, q)
    /\ Asking(p, q).code = "kill"
    /\ HasLink(p, q)
    /\ links' = [links EXCEPT ![p][q][Asking(p, q).tag + 1] = Killed]
    /\ UNCHANGED <<app, program, k, h, part, sinks, sources, gtags, data>>

---------------------------------------------------------------------------
Compute(p)  == \E call \in Calls(p) :
    \/ SinkCreate(p, call) \/ SourceCreate(p, call) \/ PutCopy(p, call) \/ PutInPlace(p, call)
    \/ GetRequest(p, call) \/ GetRead(p, call)
    \/ PollRequest(p, call) \/ PollSorry(p, call) \/ PollRead(p, call)
    \/ ChanDestroy(p, call)
Serve(p, q) == Pending(p, q) /\ (ServeData(p, q) \/ ServeSorry(p, q) \/ ServeKill(p, q))

Next == \E p \in Procs : Compute(p) \/ \E q \in Procs : Serve(p, q)

Spec == /\ Init /\ [][Next]_vars
        /\ \A p \in 0..(MaxProcs - 1) :
              /\ WF_vars(p \in Procs /\ Compute(p))
              /\ WF_vars(p \in Procs /\ \E q \in Procs : Serve(p, q))

---------------------------------------------------------------------------
Ended == \A p \in Procs : Calls(p) = {}
Quiet == \A p, q \in Procs : requests[p][q] = << >>

(* A ring never holds more than the units it was created with, whatever    *)
(* the program puts and however slowly the consumers get.                  *)
Codes == {"get", "cond_get", "kill"}
TypeOK ==
    /\ app \in Apps /\ NumProcs(app) <= MaxProcs
    /\ \A p \in Procs :
          /\ k[p] \in 0..Len(program[p])
          /\ part[p] \in Nat
          /\ \A c \in DOMAIN sinks[p] : \A x \in DOMAIN sinks[p][c].queue :
                Len(sinks[p][c].queue[x]) <= sinks[p][c].du
          /\ \A q \in Procs :
                /\ Range(links[p][q]) \subseteq DOMAIN sinks[p] \cup {Killed}
                /\ gtags[p][q] \in Nat
                /\ \A i \in DOMAIN requests[p][q] :
                      LET request == requests[p][q][i]
                      IN  request.code \in Codes /\ request.tag < gtags[p][q]

(* Tags are drawn by counting, by both processes on their own ("Non-       *)
(* crossing edges", branch.c:118): in every program the source a process   *)
(* creates and the link its tag stands for are ends of the same channel.   *)
EndsMeet == \A p \in Procs : \A c \in DOMAIN sources[p] :
              LET src == sources[p][c]
              IN  \A q \in DOMAIN src.tags : src.tags[q] < Len(links[q][p]) =>
                      links[q][p][src.tags[q] + 1] \in {c, Killed}

(* The programs end their channels in order, though no process waits for   *)
(* another to do so: no put is made into a ring whose links are all gone   *)
(* (freed by the last KILL), no KILL finds the table without its link,     *)
(* which __bc_link_destroy does not survive, and when all is over nothing  *)
(* that was put has been left in a ring and no answer unread.              *)
Freed(p, c) == \A q \in Range(sinks[p][c].peers) : c \notin Range(links[p][q])
PutsReachRing  == \A p \in Procs : \A call \in Calls(p) : call.op = "put" => ~ Freed(p, call.c)
KillsMeetLinks == \A p, q \in Procs :
    Pending(p, q) /\ Asking(p, q).code = "kill" => HasLink(p, q)
NothingLeft    == Ended /\ Quiet =>
    /\ \A p, q \in Procs : data[p][q] = << >>
    /\ \A p \in Procs : \A c \in DOMAIN sinks[p] : \A x \in DOMAIN sinks[p][c].queue :
          sinks[p][c].queue[x] = << >>
OrderlyEnds == PutsReachRing /\ KillsMeetLinks /\ NothingLeft

(* In whatever order requests, data and the threads come, each program has *)
(* at its end received what its sequential counterpart computes: a sorted  *)
(* list, a transform, the solution of a system, all work once.             *)
AnswersRight == Ended => \A p \in Procs : ResultOk(app, p, h)

(* No program waits for ever, with the buffers it asks for: all processes  *)
(* come to their end and all requests, the KILLs too, are served.          *)
ProgramsEnd == <>[](Ended /\ Quiet)
=============================================================================
