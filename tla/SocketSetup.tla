----------------------------- MODULE SocketSetup -----------------------------
(***************************************************************************)
(* How the processes of an application are wired together when bc_init     *)
(* calls __bc_socket_network_create (libdsys/sockets.c): each pair shares  *)
(* a request and a data connection.  A process first listens, then accepts *)
(* two connections from every process of lower rank, closes its listeners, *)
(* and connects twice to every process of higher rank.                     *)
(*                                                                         *)
(* A connection is named <<client, server, type>>.  It enters the backlog  *)
(* of the listener when connect returns, which does not wait for accept;   *)
(* the client then sends its rank and the type, its id, from a variable    *)
(* that accept also uses.                                                  *)
(***************************************************************************)
EXTENDS Naturals, Sequences, FiniteSets

CONSTANT Size   \* bc_base_layer->mpi->size

ASSUME SizeAssumption == Size \in Nat \ {0}

Ranks == 0 .. Size - 1
Types == {"req", "data"}
NoFd  == <<>>

VARIABLES listening,  \* the listeners of a process: "no", "open" or "closed"
          backlog,    \* connections waiting to be accepted, per process and type
          sent,       \* the id that arrived on a connection
          id,         \* the static variable id of each process
          slist,      \* r_fd and d_fd, per process and index
          todo,       \* the calls of accept or connect the process still makes
          pc          \* what the process does

vars == <<listening, backlog, sent, id, slist, todo, pc>>

(* __bc_rank2idx: the socket list of a process skips the process itself *)
Idx(p, q) == IF q > p THEN q - 1 ELSE q
Indices   == 0 .. Size - 2

Fd(p, q, type) == slist[p][Idx(p, q)][type]

NoId == [rank |-> 0, type |-> "req"]

Init == /\ listening = [p \in Ranks |-> "no"]
        /\ backlog = [p \in Ranks |-> [y \in Types |-> << >>]]
        /\ sent = << >>
        /\ id = [p \in Ranks |-> NoId]
        /\ slist = [p \in Ranks |-> [i \in Indices |-> [y \in Types |-> NoFd]]]
        /\ todo = [p \in Ranks |-> << >>]
        /\ pc = [p \in Ranks |-> "start"]

(* For each of n processes in turn a request and a data connection *)
Calls(from, n) == [k \in 1 .. 2 * n |-> [rank |-> from + (k - 1) \div 2,
                                         type |-> IF k % 2 = 1 THEN "req" ELSE "data"]]

CreateListenersAcceptAll(p) ==
  /\ pc[p] = "start"
  /\ listening' = [listening EXCEPT ![p] = "open"]
  /\ todo' = [todo EXCEPT ![p] = Calls(0, Size - 1)]
  /\ pc' = [pc EXCEPT ![p] = "accept"]
  /\ UNCHANGED <<backlog, sent, id, slist>>
CreateListeners(p) ==
  /\ pc[p] = "start"
  /\ listening' = [listening EXCEPT ![p] = "open"]
  /\ todo' = [todo EXCEPT ![p] = Calls(0, p)]
  /\ pc' = [pc EXCEPT ![p] = "accept"]
  /\ UNCHANGED <<backlog, sent, id, slist>>

(* select, accept, and recv of the id: whoever is first in the backlog;    *)
(* before it, taking the connections to come in the order of the ranks     *)
AcceptInOrder(p) ==
  /\ pc[p] = "accept"
  /\ todo[p] # << >>
  /\ LET type == Head(todo[p]).type
     IN  /\ backlog[p][type] # << >>
         /\ LET conn == Head(backlog[p][type])
            IN  /\ conn \in DOMAIN sent
                /\ id' = [id EXCEPT ![p] = sent[conn]]
                /\ slist' = [slist EXCEPT ![p][Idx(p, Head(todo[p]).rank)][type] = conn]
         /\ backlog' = [backlog EXCEPT ![p][type] = Tail(@)]
  /\ todo' = [todo EXCEPT ![p] = Tail(@)]
  /\ UNCHANGED <<listening, sent, pc>>
Accept(p) ==
  /\ pc[p] = "accept"
  /\ todo[p] # << >>
  /\ LET type == Head(todo[p]).type
     IN  /\ backlog[p][type] # << >>
         /\ LET conn == Head(backlog[p][type])
            IN  /\ conn \in DOMAIN sent
                /\ id' = [id EXCEPT ![p] = sent[conn]]
                /\ slist' = [slist EXCEPT ![p][Idx(p, sent[conn].rank)][sent[conn].type] = conn]
         /\ backlog' = [backlog EXCEPT ![p][type] = Tail(@)]
  /\ todo' = [todo EXCEPT ![p] = Tail(@)]
  /\ UNCHANGED <<listening, sent, pc>>

(* close both listeners; id.rank = bc_rank; before it, for one process too *)
(* many                                                                    *)
StartConnectingPastEnd(p) ==
  /\ pc[p] = "accept"
  /\ todo[p] = << >>
  /\ listening' = [listening EXCEPT ![p] = "closed"]
  /\ id' = [id EXCEPT ![p].rank = p]
  /\ todo' = [todo EXCEPT ![p] = Calls(p + 1, Size - p)]
  /\ pc' = [pc EXCEPT ![p] = "connect"]
  /\ UNCHANGED <<backlog, sent, slist>>
StartConnecting(p) ==
  /\ pc[p] = "accept"
  /\ todo[p] = << >>
  /\ listening' = [listening EXCEPT ![p] = "closed"]
  /\ id' = [id EXCEPT ![p].rank = p]
  /\ todo' = [todo EXCEPT ![p] = Calls(p + 1, Size - 1 - p)]
  /\ pc' = [pc EXCEPT ![p] = "connect"]
  /\ UNCHANGED <<backlog, sent, slist>>

(* while (connect(...) < 0); it succeeds once the other side listens and   *)
(* its backlog, of Size - 1, has room                                      *)
Connect(p) ==
  /\ pc[p] = "connect"
  /\ todo[p] # << >>
  /\ LET call == Head(todo[p])
     IN  /\ listening[call.rank] = "open"
         /\ Len(backlog[call.rank][call.type]) < Size - 1
         /\ id' = [id EXCEPT ![p].type = call.type]
         /\ backlog' = [backlog EXCEPT ![call.rank][call.type] =
                          Append(@, <<p, call.rank, call.type>>)]
  /\ pc' = [pc EXCEPT ![p] = "send_id"]
  /\ UNCHANGED <<listening, sent, slist, todo>>

SendId(p) ==
  /\ pc[p] = "send_id"
  /\ LET call == Head(todo[p])
         conn == <<p, call.rank, call.type>>
     IN  /\ sent' = [c \in DOMAIN sent \cup {conn} |-> IF c = conn THEN id[p] ELSE sent[c]]
         /\ slist' = [slist EXCEPT ![p][Idx(p, call.rank)][call.type] = conn]
  /\ todo' = [todo EXCEPT ![p] = Tail(@)]
  /\ pc' = [pc EXCEPT ![p] = "connect"]
  /\ UNCHANGED <<listening, backlog, id>>

Connected(p) ==
  /\ pc[p] = "connect"
  /\ todo[p] = << >>
  /\ pc' = [pc EXCEPT ![p] = "done"]
  /\ UNCHANGED <<listening, backlog, sent, id, slist, todo>>

Step(p) == \/ CreateListeners(p) \/ Accept(p) \/ StartConnecting(p)
           \/ Connect(p) \/ SendId(p) \/ Connected(p)

Next == \E p \in Ranks : Step(p)

Spec == Init /\ [][Next]_vars

(* Every process keeps running; connect and select retry until they can *)
FairSpec == Spec /\ \A p \in Ranks : WF_vars(Step(p))

-----------------------------------------------------------------------------
Connections == {<<c, s, y>> : c \in Ranks, s \in Ranks, y \in Types}
Ids         == [rank : Ranks, type : Types]

(* Every variable stays in range *)
TypeOK == /\ listening \in [Ranks -> {"no", "open", "closed"}]
          /\ \A p \in Ranks, y \in Types : backlog[p][y] \in Seq(Connections)
          /\ DOMAIN sent \subseteq Connections
          /\ \A c \in DOMAIN sent : sent[c] \in Ids
          /\ id \in [Ranks -> Ids]
          /\ slist \in [Ranks -> [Indices -> [Types -> Connections \cup {NoFd}]]]
          /\ \A p \in Ranks : todo[p] \in Seq(Ids)
          /\ pc \in [Ranks -> {"start", "accept", "connect", "send_id", "done"}]

(* The descriptor a process keeps for another one and a type is one end of *)
(* a connection between these two, of that type: no two processes are      *)
(* crossed, however their connections overtake each other in the backlogs. *)
WiredRight ==
  \A p, q \in Ranks, y \in Types :
    p # q /\ Fd(p, q, y) # NoFd => Fd(p, q, y) \in {<<p, q, y>>, <<q, p, y>>}

(* When bc_init has returned everywhere, the two ends of every connection  *)
(* are held, each under the other's index.                                 *)
WiredFully ==
  (\A p \in Ranks : pc[p] = "done") =>
     \A p, q \in Ranks, y \in Types : p # q => Fd(p, q, y) = Fd(q, p, y) /\ Fd(p, q, y) # NoFd

(* Both together: bc_init leaves every process with the right connections  *)
(* to all others.                                                          *)
Wired == WiredRight /\ WiredFully

(* All processes come out of __bc_socket_network_create: the chain of      *)
(* processes waiting for lower ranks ends at rank 0.                       *)
SetupEnds == <>(\A p \in Ranks : pc[p] = "done")
=============================================================================
