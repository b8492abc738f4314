------------------------------ MODULE FarmQueue ------------------------------
(***************************************************************************)
(* The fan-out ring of libdsys/queue.c, struct bc_farmn_q_s: the buffer of *)
(* a farm, written in place by the producer and shared by the service      *)
(* threads of all consumers.  The application works on the unit that       *)
(* pptr.var points to (bc_var) and commits it with                         *)
(* __bc_internal_farmn_q_put; the service thread of a consumer hands the   *)
(* oldest committed unit over with __bc_internal_farmn_q_send.             *)
(*                                                                         *)
(* Put and send hold the queue's mutex except inside bc_cond_wait, so the  *)
(* code between two releases of the mutex is one step.  A woken thread     *)
(* first takes the mutex again: "wait" becomes "recheck" for the producer  *)
(* and "lock" for a service thread, whose loop starts over.  The           *)
(* application writes its unit without the mutex.                          *)
(*                                                                         *)
(* A variable pointer is the index of the unit it points to.               *)
(***************************************************************************)
EXTENDS Naturals, Sequences

CONSTANTS Du,         \* q->du, buffer units of the channel
          Consumers,
          Value,      \* contents of a data unit
          GetUnits    \* numbers of units a consumer asks for in one bc_get

ASSUME DuAssumption == Du \in Nat \ {0}
ASSUME UnitsAssumption == GetUnits \subseteq Nat \ {0}
ASSUME ValueAssumption == Value # {}

VARIABLES slot,      \* the data units of the buffer
          rc,        \* reference counter of each unit
          p_rcidx,   \* pptr.rcidx
          p_var,     \* pptr.var
          c_rcidx,   \* cptr.rcidx, shared by the service threads
          c_var,     \* cptr.var
          ppc,       \* the computation thread in bc_commit
          spc,       \* the service thread of each consumer
          req,       \* the last request of each consumer
          reply      \* what was written to d_fd since that request

ring == <<slot, rc, p_rcidx, p_var, c_rcidx, c_var>>
vars == <<slot, rc, p_rcidx, p_var, c_rcidx, c_var, ppc, spc, req, reply>>

Slots == 0 .. Du - 1

(* (i + 1) % du *)
Succ(i) == IF i + 1 = Du THEN 0 ELSE i + 1

(* var += size, and back to start when it reaches end *)
AdvancePastEnd(v) == v + 1
Advance(v) == IF v + 1 = Du THEN 0 ELSE v + 1

NoReply == [preamble |-> "none", data |-> << >>]
Sorry   == [preamble |-> "sorry", data |-> << >>]
NoGet   == [units |-> 0, cond |-> FALSE]

(* The block and rc[0] are as malloc left them: the loop that clears rc    *)
(* stops before index 0.                                                   *)
Init == /\ slot \in [Slots -> Value]
        /\ rc \in [Slots -> 0 .. 1]
        /\ \A i \in Slots \ {0} : rc[i] = 0
        /\ p_rcidx = 0 /\ p_var = 0
        /\ c_rcidx = 0 /\ c_var = 0
        /\ ppc = "idle"
        /\ spc = [c \in Consumers |-> "idle"]
        /\ req = [c \in Consumers |-> NoGet]
        /\ reply = [c \in Consumers |-> NoReply]

(* bc_cond_broadcast: every waiting service thread, and the producer if it *)
(* is not the caller                                                       *)
WokenServices == [c \in Consumers |-> IF spc[c] = "wait" THEN "lock" ELSE spc[c]]
ProducerAsleep == ppc
WokenProducer == IF ppc = "wait" THEN "recheck" ELSE ppc

(***************************************************************************)
(* The producer.                                                           *)
(***************************************************************************)
(* bc_var(bc, type) = v: no lock is taken *)
Write == /\ ppc = "idle"
         /\ \E v \in Value : slot' = [slot EXCEPT ![p_var] = v]
         /\ UNCHANGED <<rc, p_rcidx, p_var, c_rcidx, c_var, ppc, spc, req, reply>>

CallPut == /\ ppc = "idle"
           /\ ppc' = "lock"
           /\ UNCHANGED <<ring, spc, req, reply>>

(* The loop of put, entered with reference counters counters; before it,   *)
(* without the check, and with a broadcast only before a wait              *)
PutLoopUnchecked(counters) ==
  p_rcidx' = Succ(p_rcidx) /\ ppc' = "idle" /\ spc' = WokenServices
PutLoopSilent(counters) ==
  IF counters[Succ(p_rcidx)] = 0
    THEN p_rcidx' = Succ(p_rcidx) /\ ppc' = "idle" /\ spc' = spc
    ELSE p_rcidx' = p_rcidx /\ ppc' = "wait" /\ spc' = WokenServices
PutLoop(counters) ==
  /\ IF counters[Succ(p_rcidx)] = 0
       THEN p_rcidx' = Succ(p_rcidx) /\ ppc' = "idle"
       ELSE p_rcidx' = p_rcidx /\ ppc' = "wait"
  /\ spc' = WokenServices

PutEnter == /\ ppc = "lock"
            /\ p_var' = Advance(p_var)
            /\ rc' = [rc EXCEPT ![p_rcidx] = 1]
            /\ PutLoop(rc')
            /\ UNCHANGED <<slot, c_rcidx, c_var, req, reply>>

PutRecheck == /\ ppc = "recheck"
              /\ PutLoop(rc)
              /\ UNCHANGED <<slot, rc, p_var, c_rcidx, c_var, req, reply>>

(***************************************************************************)
(* A consumer and its service thread.  The consumer sends a request only   *)
(* when its last bc_get has returned: it has read the units it asked for,  *)
(* or the refusal of a conditional get.                                    *)
(***************************************************************************)
Answered(c) == reply[c] = Sorry \/ Len(reply[c].data) = req[c].units

Request(c) == /\ spc[c] = "idle"
              /\ Answered(c)
              /\ \E n \in GetUnits, b \in BOOLEAN :
                   req' = [req EXCEPT ![c] = [units |-> n, cond |-> b]]
              /\ reply' = [reply EXCEPT ![c] = NoReply]
              /\ spc' = [spc EXCEPT ![c] = "lock"]
              /\ UNCHANGED <<ring, ppc>>

Ready == rc[c_rcidx] # 0 /\ p_rcidx # c_rcidx

(* One unit is sent, whatever the request asks for; before it, with the     *)
(* pointer left alone by a conditional get                                  *)
SendUnitCondStays(c) ==
               /\ spc[c] = "lock"
               /\ Ready
               /\ reply' = [reply EXCEPT ![c] =
                              [preamble |-> IF req[c].cond THEN "preamble" ELSE "none",
                               data     |-> <<slot[c_var]>>]]
               /\ c_var' = IF req[c].cond THEN c_var ELSE Advance(c_var)
               /\ rc' = [rc EXCEPT ![c_rcidx] = @ - 1]
               /\ c_rcidx' = Succ(c_rcidx)
               /\ ppc' = WokenProducer
               /\ spc' = [WokenServices EXCEPT ![c] = "idle"]
               /\ UNCHANGED <<slot, p_rcidx, p_var, req>>
SendUnit(c) == /\ spc[c] = "lock"
               /\ Ready
               /\ reply' = [reply EXCEPT ![c] =
                              [preamble |-> IF req[c].cond THEN "preamble" ELSE "none",
                               data     |-> <<slot[c_var]>>]]
               /\ c_var' = Advance(c_var)
               /\ rc' = [rc EXCEPT ![c_rcidx] = @ - 1]
               /\ c_rcidx' = Succ(c_rcidx)
               /\ ppc' = WokenProducer
               /\ spc' = [WokenServices EXCEPT ![c] = "idle"]
               /\ UNCHANGED <<slot, p_rcidx, p_var, req>>

SendSorry(c) == /\ spc[c] = "lock"
                /\ ~ Ready
                /\ req[c].cond
                /\ reply' = [reply EXCEPT ![c] = Sorry]
                /\ spc' = [spc EXCEPT ![c] = "idle"]
                /\ UNCHANGED <<ring, ppc, req>>

SendWait(c) == /\ spc[c] = "lock"
               /\ ~ Ready
               /\ ~ req[c].cond
               /\ spc' = [spc EXCEPT ![c] = "wait"]
               /\ UNCHANGED <<ring, ppc, req, reply>>

Send(c) == SendUnit(c) \/ SendSorry(c) \/ SendWait(c)

(* pthread_cond_wait may return without a signal *)
SpuriousWakeup ==
  \/ /\ ppc = "wait"
     /\ ppc' = "recheck"
     /\ UNCHANGED <<ring, spc, req, reply>>
  \/ /\ \E c \in Consumers : spc[c] = "wait" /\ spc' = [spc EXCEPT ![c] = "lock"]
     /\ UNCHANGED <<ring, ppc, req, reply>>

Put == PutEnter \/ PutRecheck

Next == \/ Write \/ CallPut \/ Put \/ SpuriousWakeup
        \/ \E c \in Consumers : Request(c) \/ Send(c)

Spec == Init /\ [][Next]_vars

(* A thread that can take the mutex takes it in the end *)
FairSpec == Spec /\ WF_vars(Put) /\ \A c \in Consumers : WF_vars(Send(c))

-----------------------------------------------------------------------------
Committing == ppc \in {"wait", "recheck"}

(* s lies in the part of the ring from i up to, not including, j *)
Between(i, s, j) == IF i <= j THEN i <= s /\ s < j ELSE i <= s \/ s < j

(* The slots of committed units that no consumer has taken *)
Waiting == {s \in Slots : Between(c_rcidx, s, p_rcidx)}

Count == IF c_rcidx <= p_rcidx THEN p_rcidx - c_rcidx ELSE Du + p_rcidx - c_rcidx
Queue == [i \in 1 .. Count |->
            slot[IF c_rcidx + i - 1 < Du THEN c_rcidx + i - 1 ELSE c_rcidx + i - 1 - Du]]

Answers == [preamble : {"none", "preamble"}, data : [1 .. 1 -> Value]]

(* Every variable stays in range *)
TypeOK == /\ slot \in [Slots -> Value]
          /\ rc \in [Slots -> 0 .. 1]
          /\ {p_rcidx, p_var, c_rcidx, c_var} \subseteq Slots
          /\ ppc \in {"idle", "lock", "wait", "recheck"}
          /\ spc \in [Consumers -> {"idle", "lock", "wait"}]
          /\ req \in [Consumers -> [units : GetUnits \cup {0}, cond : BOOLEAN]]
          /\ reply \in [Consumers -> {NoReply, Sorry} \cup Answers]

(* A reference counter is 1 exactly for the units committed and not taken; *)
(* the garbage in rc[0] never shows (queue.c:705).                         *)
RcCountsUnits ==
  \A s \in Slots : (s # p_rcidx \/ Committing) =>
                     rc[s] = IF s \in Waiting \cup {p_rcidx} /\ (s = p_rcidx => Committing)
                               THEN 1 ELSE 0

(* The unit that bc_commit gives the application to write, which it does   *)
(* without a lock, is none that was committed before and that a service    *)
(* thread has still to send: the counters, which put looks at, keep the    *)
(* cursors from passing each other (comment at queue.c:752-759).           *)
NoWriteUnderRead ==
  [][ppc # "idle" /\ ppc' = "idle" => p_var' \notin Waiting]_vars

(* No thread sleeps on cond while what it waits for is there: one          *)
(* condition variable serves both directions and all consumers.            *)
NoLostWakeup ==
  /\ ppc = "wait" => rc[Succ(p_rcidx)] # 0
  /\ \A c \in Consumers : spc[c] = "wait" => ~ Ready /\ ~ req[c].cond

(* Both together: what is in the ring and who waits for it agree.          *)
RingInv == RcCountsUnits /\ NoLostWakeup

(* The ring implements the work queue: units in commit order, each to one  *)
(* consumer, and refusals only when there is none.                         *)
Work == INSTANCE WorkQueue WITH
          Capacity   <- Du - 1,
          queue      <- Queue,
          draft      <- slot[p_rcidx],
          committing <- ppc # "idle",
          asked      <- [c \in Consumers |->
                           IF spc[c] = "idle" THEN "none"
                           ELSE IF req[c].cond THEN "cond_get" ELSE "get"],
          reply      <- reply

WorkSpec == Work!Spec

(* As long as consumers keep asking, every commit returns.                 *)
PutReturns == []<>(\E c \in Consumers : spc[c] # "idle") =>
                (ppc # "idle" ~> ppc = "idle")

(* A committed unit does not stay while a consumer asks for one.           *)
UnitTaken == \A i \in Slots :
               (c_rcidx = i /\ Count > 0 /\ \E c \in Consumers : spc[c] # "idle")
                 ~> c_rcidx # i

(* Nobody waits for ever: commits return and units are taken.              *)
Progress == PutReturns /\ UnitTaken
=============================================================================
