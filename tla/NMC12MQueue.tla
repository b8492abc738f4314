----------------------------- MODULE NMC12MQueue -----------------------------
(***************************************************************************)
(* The replicating ring of libdsys/queue.c, struct bc_nmc12m_s, behind the *)
(* roles REPLICATEN and, with one consumer, PIPEN.  The producer writes a  *)
(* unit in place and commits it with __bc_internal_nmc12m_put, which sets  *)
(* the unit's reference counter to the number of consumers; each consumer  *)
(* has a cursor of its own (the vptr of its link), and a unit may be       *)
(* written again when its counter is back to 0.                            *)
(*                                                                         *)
(* Put and send hold the queue's mutex except inside bc_cond_wait, so the  *)
(* code between two releases of the mutex is one step.  Two accesses take  *)
(* no lock and are steps of their own: the application writes its unit,    *)
(* and __bc_p_replicaten reads the number of consumers, c->rc, before it   *)
(* calls put; __bc_d_replicaten lowers c->rc when a consumer leaves.       *)
(***************************************************************************)
EXTENDS Naturals, Sequences, FiniteSets

CONSTANTS Du,         \* q->du, buffer units of the channel
          Consumers,
          Leavers,    \* consumers that may destroy their end of the channel
          Value       \* contents of a data unit

ASSUME DuAssumption == Du \in Nat \ {0}
ASSUME ValueAssumption == Value # {}
ASSUME ConsumersAssumption == /\ IsFiniteSet(Consumers)
                              /\ Leavers \subseteq Consumers
                              /\ Leavers # Consumers

VARIABLES slot,      \* the data units of the buffer
          rc,        \* reference counter of each unit
          p_rcidx,   \* vptr.rcidx of the queue
          p_var,     \* vptr.var of the queue
          c_rcidx,   \* vptr.rcidx of each consumer's link
          c_var,     \* vptr.var of each consumer's link
          ppc,       \* the computation thread in bc_commit
          cnt,       \* its copy of channel->rc
          spc,       \* the service thread of each consumer
          cond,      \* the request it serves is a COND_GET
          reply,     \* what was written to d_fd since that request
          attached   \* the consumers whose link exists; channel->rc of them

prod    == <<p_rcidx, p_var, ppc, cnt>>
cursors == <<c_rcidx, c_var>>
vars    == <<slot, rc, p_rcidx, p_var, c_rcidx, c_var, ppc, cnt, spc, cond, reply, attached>>

Slots == 0 .. Du - 1

(* (i + 1) % du *)
Succ(i) == IF i + 1 = Du THEN 0 ELSE i + 1

(* var += size, and back to start when it reaches end *)
AdvancePastEnd(v) == v + 1
Advance(v) == IF v + 1 = Du THEN 0 ELSE v + 1

NoReply == [preamble |-> "none", data |-> << >>]
Sorry   == [preamble |-> "sorry", data |-> << >>]

(* channel->rc *)
channel_rc == Cardinality(attached)

(* The loop that clears rc stops before index 0: rc[0] is what malloc left *)
Init == /\ slot \in [Slots -> Value]
        /\ rc \in [Slots -> 0 .. Cardinality(Consumers)]
        /\ \A i \in Slots \ {0} : rc[i] = 0
        /\ p_rcidx = 0 /\ p_var = 0
        /\ c_rcidx = [c \in Consumers |-> 0]
        /\ c_var = [c \in Consumers |-> 0]
        /\ ppc = "idle"
        /\ cnt = 0
        /\ spc = [c \in Consumers |-> "idle"]
        /\ cond = [c \in Consumers |-> FALSE]
        /\ reply = [c \in Consumers |-> NoReply]
        /\ attached = Consumers

(* bc_cond_broadcast *)
WokenServices == [c \in Consumers |-> IF spc[c] = "wait" THEN "lock" ELSE spc[c]]
ProducerAsleep == ppc
WokenProducer == IF ppc = "wait" THEN "recheck" ELSE ppc

(***************************************************************************)
(* The producer.                                                           *)
(***************************************************************************)
(* bc_var(bc, type) = v: no lock is taken *)
Write == /\ ppc = "idle"
         /\ \E v \in Value : slot' = [slot EXCEPT ![p_var] = v]
         /\ UNCHANGED <<rc, prod, cursors, spc, cond, reply, attached>>

(* c->rc is read before the queue is locked *)
CallPut == /\ ppc = "idle"
           /\ ppc' = "lock"
           /\ cnt' = channel_rc
           /\ UNCHANGED <<slot, rc, p_rcidx, p_var, cursors, spc, cond, reply, attached>>

(* The loop of put, entered with reference counters counters; before it,   *)
(* without the check                                                       *)
PutLoopUnchecked(counters) ==
  p_rcidx' = Succ(p_rcidx) /\ ppc' = "idle" /\ spc' = WokenServices
PutLoop(counters) ==
  /\ IF counters[Succ(p_rcidx)] = 0
       THEN p_rcidx' = Succ(p_rcidx) /\ ppc' = "idle"
       ELSE p_rcidx' = p_rcidx /\ ppc' = "wait"
  /\ spc' = WokenServices

PutEnter == /\ ppc = "lock"
            /\ p_var' = Advance(p_var)
            /\ rc' = [rc EXCEPT ![p_rcidx] = cnt]
            /\ PutLoop(rc')
            /\ UNCHANGED <<slot, cnt, cursors, cond, reply, attached>>

PutRecheck == /\ ppc = "recheck"
              /\ PutLoop(rc)
              /\ UNCHANGED <<slot, rc, p_var, cnt, cursors, cond, reply, attached>>

(***************************************************************************)
(* A consumer and its service thread.                                      *)
(***************************************************************************)
Request(c) == /\ spc[c] = "idle"
              /\ c \in attached
              /\ \E b \in BOOLEAN : cond' = [cond EXCEPT ![c] = b]
              /\ reply' = [reply EXCEPT ![c] = NoReply]
              /\ spc' = [spc EXCEPT ![c] = "lock"]
              /\ UNCHANGED <<slot, rc, prod, cursors, attached>>

Ready(c) == rc[c_rcidx[c]] # 0 /\ p_rcidx # c_rcidx[c]

SendUnitCondStays(c) ==
               /\ spc[c] = "lock"
               /\ Ready(c)
               /\ reply' = [reply EXCEPT ![c] =
                              [preamble |-> IF cond[c] THEN "preamble" ELSE "none",
                               data     |-> <<slot[c_var[c]]>>]]
               /\ c_var' = [c_var EXCEPT ![c] = IF cond[c] THEN @ ELSE Advance(@)]
               /\ rc' = [rc EXCEPT ![c_rcidx[c]] = @ - 1]
               /\ c_rcidx' = [c_rcidx EXCEPT ![c] = Succ(@)]
               /\ ppc' = WokenProducer
               /\ spc' = [WokenServices EXCEPT ![c] = "idle"]
               /\ UNCHANGED <<slot, p_rcidx, p_var, cnt, cond, attached>>
SendUnit(c) == /\ spc[c] = "lock"
               /\ Ready(c)
               /\ reply' = [reply EXCEPT ![c] =
                              [preamble |-> IF cond[c] THEN "preamble" ELSE "none",
                               data     |-> <<slot[c_var[c]]>>]]
               /\ c_var' = [c_var EXCEPT ![c] = Advance(@)]
               /\ rc' = [rc EXCEPT ![c_rcidx[c]] = @ - 1]
               /\ c_rcidx' = [c_rcidx EXCEPT ![c] = Succ(@)]
               /\ ppc' = WokenProducer
               /\ spc' = [WokenServices EXCEPT ![c] = "idle"]
               /\ UNCHANGED <<slot, p_rcidx, p_var, cnt, cond, attached>>

SendSorry(c) == /\ spc[c] = "lock"
                /\ ~ Ready(c)
                /\ cond[c]
                /\ reply' = [reply EXCEPT ![c] = Sorry]
                /\ spc' = [spc EXCEPT ![c] = "idle"]
                /\ UNCHANGED <<slot, rc, prod, cursors, cond, attached>>

SendWait(c) == /\ spc[c] = "lock"
               /\ ~ Ready(c)
               /\ ~ cond[c]
               /\ spc' = [spc EXCEPT ![c] = "wait"]
               /\ UNCHANGED <<slot, rc, prod, cursors, cond, reply, attached>>

Send(c) == SendUnit(c) \/ SendSorry(c) \/ SendWait(c)

(* The consumer destroyed its end: the service thread unlinks the link and *)
(* lowers channel->rc.  The counters of the ring are left alone; before    *)
(* it, with all of them lowered.                                           *)
LeaveLowersAll(c) == /\ c \in attached \cap Leavers
                     /\ spc[c] = "idle"
                     /\ attached' = attached \ {c}
                     /\ rc' = [s \in Slots |-> IF rc[s] = 0 THEN 0 ELSE rc[s] - 1]
                     /\ UNCHANGED <<slot, prod, cursors, spc, cond, reply>>
Leave(c) == /\ c \in attached \cap Leavers
            /\ spc[c] = "idle"
            /\ attached' = attached \ {c}
            /\ UNCHANGED <<slot, rc, prod, cursors, spc, cond, reply>>

(* pthread_cond_wait may return without a signal *)
SpuriousWakeup ==
  \/ /\ ppc = "wait"
     /\ ppc' = "recheck"
     /\ UNCHANGED <<slot, rc, p_rcidx, p_var, cnt, cursors, spc, cond, reply, attached>>
  \/ /\ \E c \in Consumers : spc[c] = "wait" /\ spc' = [spc EXCEPT ![c] = "lock"]
     /\ UNCHANGED <<slot, rc, prod, cursors, cond, reply, attached>>

Put == PutEnter \/ PutRecheck

Next == \/ Write \/ CallPut \/ Put \/ SpuriousWakeup
        \/ \E c \in Consumers : Request(c) \/ Send(c) \/ Leave(c)

Spec == Init /\ [][Next]_vars

(* A thread that can take the mutex takes it in the end *)
FairSpec == Spec /\ WF_vars(Put) /\ \A c \in Consumers : WF_vars(Send(c))

-----------------------------------------------------------------------------
Committing == ppc \in {"wait", "recheck"}

(* s lies in the part of the ring from i up to, not including, j *)
Between(i, s, j) == IF i <= j THEN i <= s /\ s < j ELSE i <= s \/ s < j

(* The consumers that have still to read s; all of them, for the unit the  *)
(* producer has committed but not left                                     *)
Unread(s) == IF s = p_rcidx
               THEN IF Committing THEN Consumers ELSE {}
               ELSE {c \in Consumers : Between(c_rcidx[c], s, p_rcidx)}

Count(c) == IF c_rcidx[c] <= p_rcidx THEN p_rcidx - c_rcidx[c] ELSE Du + p_rcidx - c_rcidx[c]
Pending(c) ==
  [i \in 1 .. Count(c) |->
     slot[IF c_rcidx[c] + i - 1 < Du THEN c_rcidx[c] + i - 1 ELSE c_rcidx[c] + i - 1 - Du]]

Answers == [preamble : {"none", "preamble"}, data : [1 .. 1 -> Value]]

(* Every variable stays in range *)
TypeOK == /\ slot \in [Slots -> Value]
          /\ rc \in [Slots -> 0 .. Cardinality(Consumers)]
          /\ {p_rcidx, p_var} \subseteq Slots
          /\ c_rcidx \in [Consumers -> Slots]
          /\ c_var \in [Consumers -> Slots]
          /\ ppc \in {"idle", "lock", "wait", "recheck"}
          /\ cnt \in 0 .. Cardinality(Consumers)
          /\ spc \in [Consumers -> {"idle", "lock", "wait"}]
          /\ cond \in [Consumers -> BOOLEAN]
          /\ reply \in [Consumers -> {NoReply, Sorry} \cup Answers]
          /\ attached \subseteq Consumers

(* A reference counter is the number of consumers that have still to read  *)
(* the unit, whatever rc[0] held.  Departures, whose count is read without *)
(* a lock (replicate.c:111), may leave it too high, by consumers that left *)
(* with the unit unread, but never too low: no attached consumer can miss  *)
(* a unit because another one left.                                        *)
RcCountsReaders ==
  \A s \in Slots : s # p_rcidx \/ Committing =>
     rc[s] \in Cardinality(Unread(s) \cap attached) .. Cardinality(Unread(s))

(* The unit that bc_commit gives the application to write, which it does   *)
(* without a lock, is none that was committed before and that a consumer   *)
(* has still to read: the counters, which put looks at, keep its cursor    *)
(* from passing any of theirs (comment at queue.c:557-564).                *)
NoWriteUnderRead ==
  [][ppc # "idle" /\ ppc' = "idle" =>
       \A c \in attached : ~ Between(c_rcidx[c], p_var', p_rcidx)]_vars

(* No thread sleeps on cond while what it waits for is there.              *)
NoLostWakeup ==
  /\ ppc = "wait" => rc[Succ(p_rcidx)] # 0
  /\ \A c \in Consumers : spc[c] = "wait" => ~ Ready(c) /\ ~ cond[c]

(* Both together: what is in the ring and who waits for it agree.          *)
RingInv == RcCountsReaders /\ NoLostWakeup

(* A producer that sleeps in bc_commit is waiting for consumers that are   *)
(* still there and that can read on: rc holds "the effective number of     *)
(* consumers" (queue.c:559-560).  With one buffer unit it never is so.     *)
ReaderBlocks == Du > 1 =>
                  (ppc = "wait" => \E c \in attached : c_rcidx[c] = Succ(p_rcidx) /\ Ready(c))

(* The ring implements the multicast: every unit to every consumer that    *)
(* stays, once and in order.                                               *)
Cast == INSTANCE Multicast WITH
          Capacity   <- Du - 1,
          pending    <- [c \in Consumers |-> IF c \in attached THEN Pending(c) ELSE << >>],
          draft      <- slot[p_rcidx],
          committing <- ppc # "idle",
          asked      <- [c \in Consumers |->
                           IF spc[c] = "idle" THEN "none"
                           ELSE IF cond[c] THEN "cond_get" ELSE "get"]

CastSpec == Cast!Spec

(* As long as every consumer keeps asking, every commit returns.           *)
PutReturns == (\A c \in Consumers : []<>(spc[c] # "idle")) =>
                (ppc # "idle" ~> ppc = "idle")

(* A consumer that asks for a unit that is there gets it, however fast the *)
(* others and the producer are.                                            *)
GetAnswered == \A c \in Consumers :
                 (spc[c] # "idle" /\ Count(c) > 0) ~> spc[c] = "idle"

(* Nobody waits for ever: commits return and gets are answered.            *)
Progress == PutReturns /\ GetAnswered
=============================================================================
