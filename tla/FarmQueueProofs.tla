-------------------------- MODULE FarmQueueProofs --------------------------
(***************************************************************************)
(* Proofs about the fan-out ring of libdsys/queue.c, for every number of   *)
(* buffer units, every set of consumers and every set of unit contents.    *)
(*                                                                         *)
(* The inductive invariant adds to the type and to the ring invariant that *)
(* the variable pointers follow the cursors: the producer's is one unit    *)
(* ahead exactly while it waits inside bc_commit.                          *)
(***************************************************************************)
EXTENDS FarmQueue, SequenceTheorems, TLAPS

USE DuAssumption, UnitsAssumption, ValueAssumption

(* Variable pointers and cursors move together *)
Pointers == /\ c_var = c_rcidx
            /\ p_var = IF Committing THEN Succ(p_rcidx) ELSE p_rcidx

Inv == TypeOK /\ RingInv /\ Pointers

-----------------------------------------------------------------------------
(* The successor of a slot is a slot                                       *)
LEMMA SuccType ==
  ASSUME NEW i \in Slots
  PROVE  Succ(i) \in Slots
  BY DEF Slots, Succ

(* Advancing a variable pointer goes to the next slot                      *)
LEMMA AdvanceIsSucc == \A i \in Slots : Advance(i) = Succ(i)
  BY DEF Advance, Succ

(* When the producer's cursor moves on, its slot joins the part of the     *)
(* ring that waits for a consumer                                          *)
LEMMA BetweenPut ==
  ASSUME NEW c \in Slots, NEW p \in Slots, Succ(p) # c
  PROVE  \A s \in Slots : Between(c, s, Succ(p)) <=> (Between(c, s, p) \/ s = p)
  BY DEF Slots, Succ, Between

(* When the consumers' cursor moves on, its slot leaves that part          *)
LEMMA BetweenSend ==
  ASSUME NEW c \in Slots, NEW p \in Slots, p # c
  PROVE  /\ Between(c, c, p)
         /\ \A s \in Slots : Between(Succ(c), s, p) <=> (Between(c, s, p) /\ s # c)
  BY DEF Slots, Succ, Between

(* The producer's slot never waits                                         *)
LEMMA BetweenSelf ==
  ASSUME NEW c \in Slots, NEW p \in Slots
  PROVE  ~ Between(c, p, p)
  BY DEF Slots, Between

(* A put that finds the next counter at zero does not catch up with the    *)
(* consumers: the next slot is not theirs, and no unit waits there         *)
LEMMA NextSlotFree ==
  ASSUME NEW c \in Slots, NEW p \in Slots, NEW counters \in [Slots -> 0 .. 1],
         \A s \in Slots : counters[s] = IF Between(c, s, p) \/ s = p THEN 1 ELSE 0,
         counters[Succ(p)] = 0
  PROVE  Succ(p) # c /\ Succ(p) # p /\ ~ Between(c, Succ(p), p)
<1>1. Succ(p) \in Slots
  BY SuccType
<1>2. ~ Between(c, Succ(p), p) /\ Succ(p) # p
  BY <1>1
<1>3. Succ(p) # c
  <2>1. CASE c = p
    BY <2>1, <1>2
  <2>2. CASE c # p
    BY <2>2, <1>2, BetweenSend
  <2>3. QED
    BY <2>1, <2>2
<1>4. QED
  BY <1>2, <1>3

-----------------------------------------------------------------------------
(* An empty ring, with garbage in rc[0], satisfies the invariant           *)
LEMMA InitInv == Init => Inv
<1> SUFFICES ASSUME Init
             PROVE  Inv
  OBVIOUS
<1>1. 0 \in Slots
  BY DEF Slots
<1>2. TypeOK
  BY <1>1 DEF Init, TypeOK, NoGet
<1>3. RcCountsUnits
  BY <1>1 DEF Init, RcCountsUnits, Waiting, Between, Committing, Slots
<1>4. NoLostWakeup
  BY DEF Init, NoLostWakeup
<1>5. Pointers
  BY DEF Init, Pointers, Committing
<1>6. QED
  BY <1>2, <1>3, <1>4, <1>5 DEF Inv, RingInv

(* The loop of put, entered with counters that are right for a unit just   *)
(* committed, keeps them right, and sleeps only on a unit still in use     *)
LEMMA PutLoopKeeps ==
  ASSUME TypeOK, TypeOK', ppc \in {"lock", "wait", "recheck"},
         PutLoop(rc'), c_rcidx' = c_rcidx, req' = req,
         \A s \in Slots : rc'[s] = IF Between(c_rcidx, s, p_rcidx) \/ s = p_rcidx
                                     THEN 1 ELSE 0
  PROVE  RingInv'
<1>1. /\ rc' \in [Slots -> 0 .. 1]
      /\ p_rcidx \in Slots /\ c_rcidx \in Slots /\ p_rcidx' \in Slots
      /\ spc \in [Consumers -> {"idle", "lock", "wait"}]
      /\ Succ(p_rcidx) \in Slots
  BY SuccType DEF TypeOK
<1>2. \A c \in Consumers : spc'[c] # "wait"
  BY <1>1 DEF PutLoop, WokenServices
<1>3. CASE rc'[Succ(p_rcidx)] = 0
  <2>1. p_rcidx' = Succ(p_rcidx) /\ ppc' = "idle"
    BY <1>3 DEF PutLoop
  <2>2. Succ(p_rcidx) # c_rcidx
    BY <1>1, <1>3, NextSlotFree
  <2>3. \A s \in Slots : s \in Waiting' <=> (Between(c_rcidx, s, p_rcidx) \/ s = p_rcidx)
    BY <2>1, <2>2, <1>1, BetweenPut DEF Waiting
  <2>4. RcCountsUnits'
    BY <2>1, <2>3, <1>1 DEF RcCountsUnits, Committing
  <2>5. NoLostWakeup'
    BY <2>1, <1>2 DEF NoLostWakeup
  <2>6. QED
    BY <2>4, <2>5 DEF RingInv
<1>4. CASE rc'[Succ(p_rcidx)] # 0
  <2>1. p_rcidx' = p_rcidx /\ ppc' = "wait"
    BY <1>4 DEF PutLoop
  <2>2. \A s \in Slots : s \in Waiting' <=> Between(c_rcidx, s, p_rcidx)
    BY <2>1 DEF Waiting
  <2>3. RcCountsUnits'
    BY <2>1, <2>2 DEF RcCountsUnits, Committing
  <2>4. NoLostWakeup'
    BY <2>1, <1>2, <1>4 DEF NoLostWakeup
  <2>5. QED
    BY <2>3, <2>4 DEF RingInv
<1>5. QED
  BY <1>3, <1>4

(* While put waits, its unit is counted with those in the ring             *)
LEMMA CountsInPut ==
  ASSUME TypeOK, RingInv, Committing
  PROVE  \A s \in Slots : rc[s] = IF Between(c_rcidx, s, p_rcidx) \/ s = p_rcidx
                                    THEN 1 ELSE 0
  BY DEF RingInv, RcCountsUnits, Waiting

(* After put has set the counter of its unit, the same holds               *)
LEMMA CountsOnEntry ==
  ASSUME TypeOK, RingInv, PutEnter
  PROVE  \A s \in Slots : rc'[s] = IF Between(c_rcidx, s, p_rcidx) \/ s = p_rcidx
                                     THEN 1 ELSE 0
<1>1. /\ rc \in [Slots -> 0 .. 1] /\ p_rcidx \in Slots
      /\ rc' = [rc EXCEPT ![p_rcidx] = 1]
  BY DEF TypeOK, PutEnter
<1>2. \A s \in Slots \ {p_rcidx} : rc[s] = IF Between(c_rcidx, s, p_rcidx) THEN 1 ELSE 0
  BY DEF RingInv, RcCountsUnits, Waiting
<1>3. QED
  BY <1>1, <1>2

(* The unit that the service thread sends is the only one whose counter it *)
(* changes, from 1 to 0                                                    *)
LEMMA SendKeeps ==
  ASSUME TypeOK, TypeOK', RingInv, NEW c \in Consumers, SendUnit(c)
  PROVE  RingInv'
<1>1. /\ rc \in [Slots -> 0 .. 1]
      /\ p_rcidx \in Slots /\ c_rcidx \in Slots
      /\ spc \in [Consumers -> {"idle", "lock", "wait"}]
      /\ ppc \in {"idle", "lock", "wait", "recheck"}
  BY DEF TypeOK
<1>2. /\ rc' = [rc EXCEPT ![c_rcidx] = rc[c_rcidx] - 1]
      /\ c_rcidx' = Succ(c_rcidx) /\ p_rcidx' = p_rcidx
      /\ p_rcidx # c_rcidx
      /\ ppc' = WokenProducer
      /\ spc' = [WokenServices EXCEPT ![c] = "idle"]
  BY DEF SendUnit, Ready
<1>3. /\ Between(c_rcidx, c_rcidx, p_rcidx)
      /\ \A s \in Slots : Between(Succ(c_rcidx), s, p_rcidx)
                            <=> (Between(c_rcidx, s, p_rcidx) /\ s # c_rcidx)
  BY <1>1, <1>2, BetweenSend
<1>4. rc[c_rcidx] = 1
  BY <1>1, <1>2, <1>3 DEF RingInv, RcCountsUnits, Waiting
<1>5. \A s \in Slots : rc'[s] = IF s = c_rcidx THEN 0 ELSE rc[s]
  BY <1>1, <1>2, <1>4
<1>6. Committing' <=> Committing
  BY <1>1, <1>2 DEF WokenProducer, Committing
<1>7. \A s \in Slots : s \in Waiting' <=> (s \in Waiting /\ s # c_rcidx)
  BY <1>2, <1>3 DEF Waiting
<1>8. RcCountsUnits'
  BY <1>1, <1>2, <1>5, <1>6, <1>7 DEF RingInv, RcCountsUnits
<1>9. NoLostWakeup'
  <2>1. ppc' # "wait"
    BY <1>1, <1>2 DEF WokenProducer
  <2>2. \A d \in Consumers : spc'[d] # "wait"
    BY <1>1, <1>2 DEF WokenServices
  <2>3. QED
    BY <2>1, <2>2 DEF NoLostWakeup
<1>10. QED
  BY <1>8, <1>9 DEF RingInv

(* Every step keeps the invariant.  Put and send, which move the cursors,  *)
(* wake everybody; other steps leave the ring alone.                       *)
LEMMA NextInv == Inv /\ [Next]_vars => Inv'
<1> SUFFICES ASSUME Inv, [Next]_vars
             PROVE  Inv'
  OBVIOUS
<1>0. /\ TypeOK /\ RingInv /\ RcCountsUnits /\ NoLostWakeup /\ Pointers
      /\ slot \in [Slots -> Value]
      /\ rc \in [Slots -> 0 .. 1]
      /\ p_rcidx \in Slots /\ p_var \in Slots /\ c_rcidx \in Slots /\ c_var \in Slots
      /\ Succ(p_rcidx) \in Slots /\ Succ(p_var) \in Slots /\ Succ(c_rcidx) \in Slots
      /\ ppc \in {"idle", "lock", "wait", "recheck"}
      /\ spc \in [Consumers -> {"idle", "lock", "wait"}]
      /\ req \in [Consumers -> [units : GetUnits \cup {0}, cond : BOOLEAN]]
      /\ reply \in [Consumers -> {NoReply, Sorry} \cup Answers]
  BY SuccType DEF Inv, RingInv, TypeOK
<1>1. CASE Write
  <2>1. /\ slot' \in [Slots -> Value]
        /\ UNCHANGED <<rc, p_rcidx, p_var, c_rcidx, c_var, ppc, spc, req, reply>>
    BY <1>0, <1>1 DEF Write
  <2>2. TypeOK'
    BY <1>0, <2>1 DEF TypeOK
  <2>3. RingInv'
    BY <1>0, <2>1 DEF RingInv, RcCountsUnits, NoLostWakeup, Waiting, Committing, Ready
  <2>4. Pointers'
    BY <1>0, <2>1 DEF Pointers, Committing
  <2>5. QED
    BY <2>2, <2>3, <2>4 DEF Inv
<1>2. CASE CallPut
  <2>1. /\ ppc = "idle" /\ ppc' = "lock"
        /\ UNCHANGED <<slot, rc, p_rcidx, p_var, c_rcidx, c_var, spc, req, reply>>
    BY <1>2 DEF CallPut, ring
  <2>2. TypeOK'
    BY <1>0, <2>1 DEF TypeOK
  <2>3. RingInv'
    BY <1>0, <2>1 DEF RingInv, RcCountsUnits, NoLostWakeup, Waiting, Committing, Ready
  <2>4. Pointers'
    BY <1>0, <2>1 DEF Pointers, Committing
  <2>5. QED
    BY <2>2, <2>3, <2>4 DEF Inv
<1>3. CASE PutEnter
  <2>1. /\ p_var' = Succ(p_rcidx)
        /\ rc' \in [Slots -> 0 .. 1]
        /\ \/ p_rcidx' = Succ(p_rcidx) /\ ppc' = "idle"
           \/ p_rcidx' = p_rcidx /\ ppc' = "wait"
        /\ spc' = WokenServices
        /\ UNCHANGED <<slot, c_rcidx, c_var, req, reply>>
    BY <1>0, <1>3, AdvanceIsSucc DEF PutEnter, PutLoop, Pointers, Committing
  <2>2. TypeOK'
    BY <1>0, <2>1 DEF TypeOK, WokenServices
  <2>3. RingInv'
    <3>1. ppc \in {"lock", "wait", "recheck"} /\ PutLoop(rc')
      BY <1>3 DEF PutEnter
    <3>2. QED
      BY <1>0, <1>3, <2>1, <2>2, <3>1, CountsOnEntry, PutLoopKeeps
  <2>4. Pointers'
    BY <1>0, <2>1 DEF Pointers, Committing
  <2>5. QED
    BY <2>2, <2>3, <2>4 DEF Inv
<1>4. CASE PutRecheck
  <2>1. /\ ppc = "recheck" /\ PutLoop(rc) /\ rc' = rc /\ p_var' = p_var
        /\ \/ p_rcidx' = Succ(p_rcidx) /\ ppc' = "idle"
           \/ p_rcidx' = p_rcidx /\ ppc' = "wait"
        /\ spc' = WokenServices
        /\ UNCHANGED <<slot, c_rcidx, c_var, req, reply>>
    BY <1>4 DEF PutRecheck, PutLoop
  <2>2. TypeOK'
    BY <1>0, <2>1 DEF TypeOK, WokenServices
  <2>3. RingInv'
    <3>1. Committing /\ PutLoop(rc')
      BY <2>1 DEF Committing, PutLoop
    <3>2. QED
      BY <1>0, <2>1, <2>2, <3>1, CountsInPut, PutLoopKeeps
  <2>4. Pointers'
    BY <1>0, <2>1 DEF Pointers, Committing
  <2>5. QED
    BY <2>2, <2>3, <2>4 DEF Inv
<1>5. CASE SpuriousWakeup
  <2>1. /\ UNCHANGED <<slot, rc, p_rcidx, p_var, c_rcidx, c_var, req, reply>>
        /\ Committing' <=> Committing
        /\ ppc' \in {"idle", "lock", "wait", "recheck"}
        /\ ppc' = "wait" => ppc = "wait"
        /\ spc' \in [Consumers -> {"idle", "lock", "wait"}]
        /\ \A c \in Consumers : spc'[c] = "wait" => spc[c] = "wait"
    BY <1>0, <1>5 DEF SpuriousWakeup, ring, Committing
  <2>2. TypeOK'
    BY <1>0, <2>1 DEF TypeOK
  <2>3. RingInv'
    BY <1>0, <2>1 DEF RingInv, RcCountsUnits, NoLostWakeup, Waiting, Ready
  <2>4. Pointers'
    BY <1>0, <2>1 DEF Pointers
  <2>5. QED
    BY <2>2, <2>3, <2>4 DEF Inv
<1>6. ASSUME NEW c \in Consumers, Request(c)
      PROVE  Inv'
  <2>1. /\ UNCHANGED <<slot, rc, p_rcidx, p_var, c_rcidx, c_var, ppc>>
        /\ reply' = [reply EXCEPT ![c] = NoReply]
        /\ spc' = [spc EXCEPT ![c] = "lock"]
        /\ spc[c] = "idle"
    BY <1>6 DEF Request, ring
  <2>2. PICK n \in GetUnits, b \in BOOLEAN :
             req' = [req EXCEPT ![c] = [units |-> n, cond |-> b]]
    BY <1>6 DEF Request
  <2>3. TypeOK'
    BY <1>0, <2>1, <2>2 DEF TypeOK
  <2>4. RingInv'
    BY <1>0, <2>1, <2>2 DEF RingInv, RcCountsUnits, NoLostWakeup, Waiting, Committing, Ready
  <2>5. Pointers'
    BY <1>0, <2>1 DEF Pointers, Committing
  <2>6. QED
    BY <2>3, <2>4, <2>5 DEF Inv
<1>7. ASSUME NEW c \in Consumers, SendUnit(c)
      PROVE  Inv'
  <2>1. /\ c_var' = Succ(c_rcidx) /\ c_rcidx' = Succ(c_rcidx)
        /\ rc' = [rc EXCEPT ![c_rcidx] = rc[c_rcidx] - 1]
        /\ rc[c_rcidx] # 0
        /\ ppc' = WokenProducer
        /\ spc' = [WokenServices EXCEPT ![c] = "idle"]
        /\ UNCHANGED <<slot, p_rcidx, p_var, req>>
    BY <1>0, <1>7, AdvanceIsSucc DEF SendUnit, Ready, Pointers
  <2>2. reply' \in [Consumers -> {NoReply, Sorry} \cup Answers]
    <3>1. <<slot[c_var]>> \in [1 .. 1 -> Value]
      BY <1>0
    <3>2. [preamble |-> IF req[c].cond THEN "preamble" ELSE "none",
           data |-> <<slot[c_var]>>] \in Answers
      BY <3>1 DEF Answers
    <3>3. QED
      BY <1>0, <1>7, <3>2 DEF SendUnit
  <2>3. rc' \in [Slots -> 0 .. 1]
    BY <1>0, <2>1
  <2>4. TypeOK'
    BY <1>0, <2>1, <2>2, <2>3 DEF TypeOK, WokenServices, WokenProducer
  <2>5. RingInv'
    BY <1>0, <1>7, <2>4, SendKeeps
  <2>6. Pointers'
    BY <1>0, <2>1 DEF Pointers, Committing, WokenProducer
  <2>7. QED
    BY <2>4, <2>5, <2>6 DEF Inv
<1>8. ASSUME NEW c \in Consumers, SendSorry(c) \/ SendWait(c)
      PROVE  Inv'
  <2>1. /\ UNCHANGED <<slot, rc, p_rcidx, p_var, c_rcidx, c_var, ppc, req>>
        /\ \/ reply' = reply
           \/ reply' = [reply EXCEPT ![c] = Sorry]
        /\ \/ spc' = [spc EXCEPT ![c] = "idle"]
           \/ /\ spc' = [spc EXCEPT ![c] = "wait"]
              /\ ~ Ready /\ ~ req[c].cond
    BY <1>8 DEF SendSorry, SendWait, ring
  <2>2. TypeOK'
    BY <1>0, <2>1 DEF TypeOK
  <2>3. RingInv'
    BY <1>0, <2>1 DEF RingInv, RcCountsUnits, NoLostWakeup, Waiting, Committing, Ready
  <2>4. Pointers'
    BY <1>0, <2>1 DEF Pointers, Committing
  <2>5. QED
    BY <2>2, <2>3, <2>4 DEF Inv
<1>9. CASE UNCHANGED vars
  BY <1>0, <1>9 DEF vars, Inv, TypeOK, RingInv, RcCountsUnits, NoLostWakeup, Pointers,
                    Waiting, Committing, Ready
<1>10. QED
  BY <1>1, <1>2, <1>3, <1>4, <1>5, <1>6, <1>7, <1>8, <1>9 DEF Next, Put, Send

(* The inductive invariant holds throughout.                               *)
THEOREM Invariance == Spec => []Inv
  BY InitInv, NextInv, PTL DEF Spec

(* No cursor or variable pointer leaves the buffer, no counter leaves      *)
(* 0 .. 1, and an answer is one unit, a refusal or nothing                 *)
(* (queue.c:712-731, 762-781).                                             *)
THEOREM TypeCorrect == Spec => []TypeOK
<1>1. Inv => TypeOK
  BY DEF Inv
<1>2. QED
  BY <1>1, Invariance, PTL

(* The counters say which units are committed and not taken, whatever      *)
(* malloc left in rc[0], and nobody sleeps while what it waits for is      *)
(* there: the broadcasts of put and send suffice for any number of         *)
(* consumers.                                                              *)
THEOREM RingCorrect == Spec => []RingInv
<1>1. Inv => RingInv
  BY DEF Inv
<1>2. QED
  BY <1>1, Invariance, PTL

-----------------------------------------------------------------------------
(* A commit that returns goes on to a slot in which no unit waits          *)
LEMMA PutGoesToFreeSlot ==
  ASSUME Inv, [Next]_vars, ppc # "idle", ppc' = "idle"
  PROVE  /\ Put
         /\ p_rcidx' = Succ(p_rcidx) /\ p_var' = Succ(p_rcidx)
         /\ Succ(p_rcidx) # c_rcidx
         /\ Succ(p_rcidx) \notin Waiting
         /\ UNCHANGED <<slot, c_rcidx, req, reply>>
<1>0. /\ TypeOK /\ RingInv /\ Pointers
      /\ rc \in [Slots -> 0 .. 1] /\ p_rcidx \in Slots /\ p_var \in Slots /\ c_rcidx \in Slots
  BY DEF Inv, TypeOK
<1>1. Put
  BY DEF Next, vars, Write, CallPut, SpuriousWakeup, Request, Send, SendUnit, SendSorry,
         SendWait, WokenProducer, ring
<1>2. CASE PutEnter
  <2>1. /\ rc'[Succ(p_rcidx)] = 0 /\ p_rcidx' = Succ(p_rcidx)
        /\ p_var' = Succ(p_rcidx) /\ rc' \in [Slots -> 0 .. 1]
        /\ UNCHANGED <<slot, c_rcidx, req, reply>>
    BY <1>0, <1>2, AdvanceIsSucc DEF PutEnter, PutLoop, Pointers, Committing
  <2>2. Succ(p_rcidx) # c_rcidx /\ ~ Between(c_rcidx, Succ(p_rcidx), p_rcidx)
    BY <1>0, <1>2, <2>1, CountsOnEntry, NextSlotFree
  <2>3. QED
    BY <1>1, <2>1, <2>2 DEF Waiting
<1>3. CASE PutRecheck
  <2>1. /\ Committing /\ rc[Succ(p_rcidx)] = 0 /\ p_rcidx' = Succ(p_rcidx)
        /\ p_var' = Succ(p_rcidx)
        /\ UNCHANGED <<slot, c_rcidx, req, reply>>
    BY <1>0, <1>3 DEF PutRecheck, PutLoop, Pointers, Committing
  <2>2. Succ(p_rcidx) # c_rcidx /\ ~ Between(c_rcidx, Succ(p_rcidx), p_rcidx)
    BY <1>0, <2>1, CountsInPut, NextSlotFree
  <2>3. QED
    BY <1>1, <2>1, <2>2 DEF Waiting
<1>4. QED
  BY <1>1, <1>2, <1>3 DEF Put

(* The unit given to the application to write is none that still waits to  *)
(* be sent, for every size of the buffer.                                  *)
THEOREM WritesApart == Spec => NoWriteUnderRead
<1>1. Inv /\ [Next]_vars => [ppc # "idle" /\ ppc' = "idle" => p_var' \notin Waiting]_vars
  <2> SUFFICES ASSUME Inv, [Next]_vars, ppc # "idle", ppc' = "idle"
               PROVE  p_var' \notin Waiting
    OBVIOUS
  <2>1. QED
    BY PutGoesToFreeSlot
<1>2. QED
  BY <1>1, Invariance, PTL DEF Spec, NoWriteUnderRead
-----------------------------------------------------------------------------
(* The queue of the units in sl from c up to p, oldest first               *)
CountOf(c, p) == IF c <= p THEN p - c ELSE Du + p - c
At(c, i) == IF c + i - 1 < Du THEN c + i - 1 ELSE c + i - 1 - Du
QueueOf(sl, c, p) == [i \in 1 .. CountOf(c, p) |-> sl[At(c, i)]]

(* It is a sequence of units, and shorter than the buffer                  *)
LEMMA QueueSeq ==
  ASSUME NEW sl \in [Slots -> Value], NEW c \in Slots, NEW p \in Slots
  PROVE  /\ CountOf(c, p) \in 0 .. Du - 1
         /\ QueueOf(sl, c, p) \in Seq(Value)
         /\ Len(QueueOf(sl, c, p)) = CountOf(c, p)
         /\ \A i \in 1 .. CountOf(c, p) : /\ At(c, i) \in Slots
                                          /\ Between(c, At(c, i), p)
                                          /\ QueueOf(sl, c, p)[i] = sl[At(c, i)]
<1>1. CountOf(c, p) \in 0 .. Du - 1
  BY DEF CountOf, Slots
<1>2. \A i \in 1 .. CountOf(c, p) : At(c, i) \in Slots /\ Between(c, At(c, i), p)
  BY DEF CountOf, At, Slots, Between
<1>3. QueueOf(sl, c, p) \in [1 .. CountOf(c, p) -> Value]
  BY <1>2 DEF QueueOf
<1>4. /\ QueueOf(sl, c, p) \in Seq(Value)
      /\ Len(QueueOf(sl, c, p)) = CountOf(c, p)
  BY <1>1, <1>3
<1>5. QED
  BY <1>1, <1>2, <1>4 DEF QueueOf

(* Moving the producer's cursor on appends its unit                        *)
LEMMA QueuePut ==
  ASSUME NEW sl \in [Slots -> Value], NEW c \in Slots, NEW p \in Slots, Succ(p) # c
  PROVE  /\ CountOf(c, p) < Du - 1
         /\ QueueOf(sl, c, Succ(p)) = Append(QueueOf(sl, c, p), sl[p])
<1> DEFINE n == CountOf(c, p)
           q == QueueOf(sl, c, p)
           r == QueueOf(sl, c, Succ(p))
<1>1. Succ(p) \in Slots /\ sl[p] \in Value
  BY SuccType
<1>2. /\ n < Du - 1 /\ n \in Nat
      /\ CountOf(c, Succ(p)) = n + 1
      /\ At(c, n + 1) = p
  BY DEF CountOf, At, Succ, Slots
<1>3. /\ q \in Seq(Value) /\ Len(q) = n
      /\ \A i \in 1 .. n : q[i] = sl[At(c, i)]
  BY QueueSeq
<1>4. /\ r \in Seq(Value) /\ Len(r) = n + 1
      /\ \A i \in 1 .. n + 1 : r[i] = sl[At(c, i)]
  <2>1. /\ r \in Seq(Value) /\ Len(r) = CountOf(c, Succ(p))
        /\ \A i \in 1 .. CountOf(c, Succ(p)) : r[i] = sl[At(c, i)]
    BY <1>1, QueueSeq
  <2> HIDE DEF n, r
  <2>2. QED
    BY <1>2, <2>1
<1> HIDE DEF n, q, r
<1>5. /\ Append(q, sl[p]) \in Seq(Value)
      /\ Len(Append(q, sl[p])) = n + 1
      /\ \A i \in 1 .. n : Append(q, sl[p])[i] = q[i]
      /\ Append(q, sl[p])[n + 1] = sl[p]
  BY <1>1, <1>3, AppendProperties
<1>6. \A i \in 1 .. n + 1 : r[i] = Append(q, sl[p])[i]
  <2>1. TAKE i \in 1 .. n + 1
  <2>2. CASE i = n + 1
    BY <2>2, <1>2, <1>4, <1>5
  <2>3. CASE i # n + 1
    <3>1. i \in 1 .. n
      BY <2>3, <1>2
    <3>2. QED
      BY <3>1, <1>3, <1>4, <1>5
  <2>4. QED
    BY <2>2, <2>3
<1>7. r = Append(q, sl[p])
  BY <1>4, <1>5, <1>6, SeqEqual
<1>8. QED
  BY <1>2, <1>7 DEF n, q, r

(* Moving the consumers' cursor on takes the oldest unit                   *)
LEMMA QueueSend ==
  ASSUME NEW sl \in [Slots -> Value], NEW c \in Slots, NEW p \in Slots, p # c
  PROVE  /\ QueueOf(sl, c, p) # << >>
         /\ Head(QueueOf(sl, c, p)) = sl[c]
         /\ QueueOf(sl, Succ(c), p) = Tail(QueueOf(sl, c, p))
<1> DEFINE n == CountOf(c, p)
           q == QueueOf(sl, c, p)
           r == QueueOf(sl, Succ(c), p)
<1>1. Succ(c) \in Slots
  BY SuccType
<1>2. /\ n \in Nat \ {0}
      /\ CountOf(Succ(c), p) = n - 1
      /\ At(c, 1) = c
      /\ \A i \in 1 .. n - 1 : At(Succ(c), i) = At(c, i + 1)
  BY DEF CountOf, At, Succ, Slots
<1>3. /\ q \in Seq(Value) /\ Len(q) = n
      /\ \A i \in 1 .. n : q[i] = sl[At(c, i)]
  BY QueueSeq
<1>4. /\ r \in Seq(Value) /\ Len(r) = n - 1
      /\ \A i \in 1 .. n - 1 : r[i] = sl[At(Succ(c), i)]
  <2>1. /\ r \in Seq(Value) /\ Len(r) = CountOf(Succ(c), p)
        /\ \A i \in 1 .. CountOf(Succ(c), p) : r[i] = sl[At(Succ(c), i)]
    BY <1>1, QueueSeq
  <2> HIDE DEF n, r
  <2>2. QED
    BY <1>2, <2>1
<1> HIDE DEF n, q, r
<1>5. q # << >> /\ q[1] = sl[c]
  BY <1>2, <1>3
<1>6. /\ Tail(q) \in Seq(Value) /\ Len(Tail(q)) = n - 1
      /\ \A i \in 1 .. n - 1 : Tail(q)[i] = q[i + 1]
  BY <1>3, <1>5, HeadTailProperties
<1>7. \A i \in 1 .. n - 1 : r[i] = Tail(q)[i]
  BY <1>2, <1>3, <1>4, <1>6
<1>8. r = Tail(q)
  BY <1>4, <1>6, <1>7, SeqEqual
<1>9. Head(q) = sl[c]
  BY <1>5
<1>10. QED
  BY <1>5, <1>8, <1>9 DEF q, r

(* A write to the unit the producer works on changes none in the queue     *)
LEMMA QueueWrite ==
  ASSUME NEW sl \in [Slots -> Value], NEW c \in Slots, NEW p \in Slots, NEW v \in Value
  PROVE  QueueOf([sl EXCEPT ![p] = v], c, p) = QueueOf(sl, c, p)
<1>1. ~ Between(c, p, p)
  BY BetweenSelf
<1>2. \A i \in 1 .. CountOf(c, p) : At(c, i) \in Slots /\ Between(c, At(c, i), p)
  BY QueueSeq
<1>3. \A i \in 1 .. CountOf(c, p) : [sl EXCEPT ![p] = v][At(c, i)] = sl[At(c, i)]
  BY <1>1, <1>2
<1>4. QED
  BY <1>3 DEF QueueOf

(* The refinement mapping's queue is this one                              *)
LEMMA QueueIs == /\ Queue = QueueOf(slot, c_rcidx, p_rcidx)
                 /\ Queue' = QueueOf(slot', c_rcidx', p_rcidx')
  BY DEF Queue, Count, QueueOf, CountOf, At

(* What the refinement mapping shows of the request of each consumer       *)
Asked == [c \in Consumers |-> IF spc[c] = "idle" THEN "none"
                              ELSE IF req[c].cond THEN "cond_get" ELSE "get"]

-----------------------------------------------------------------------------
(* The empty ring is the empty work queue                                  *)
LEMMA InitRefines == Init => Work!Init
<1> SUFFICES ASSUME Init
             PROVE  Work!Init
  OBVIOUS
<1>1. 0 \in Slots
  BY DEF Slots
<1>2. Queue = << >>
  BY DEF Init, Queue, Count
<1>3. slot[p_rcidx] \in Value
  BY <1>1 DEF Init
<1>4. QED
  BY <1>2, <1>3 DEF Init, Work!Init, NoReply, Work!NoReply

(* Every step of the ring is a step of the work queue, or is not seen      *)
(* there: a unit joins the queue when bc_commit returns, and leaves it     *)
(* when a service thread sends it.                                         *)
LEMMA StepRefines == Inv /\ Inv' /\ [Next]_vars => [Work!Next]_(Work!avars)
<1> SUFFICES ASSUME Inv, Inv', [Next]_vars
             PROVE  Work!Next \/ UNCHANGED Work!avars
  OBVIOUS
<1>0. /\ TypeOK /\ RingInv /\ Pointers
      /\ slot \in [Slots -> Value]
      /\ p_rcidx \in Slots /\ c_rcidx \in Slots
      /\ p_rcidx' \in Slots /\ slot' \in [Slots -> Value]
      /\ ppc \in {"idle", "lock", "wait", "recheck"}
      /\ spc \in [Consumers -> {"idle", "lock", "wait"}]
      /\ req \in [Consumers -> [units : GetUnits \cup {0}, cond : BOOLEAN]]
      /\ reply \in [Consumers -> {NoReply, Sorry} \cup Answers]
  BY DEF Inv, TypeOK
<1>1. CASE Write
  <2>1. PICK v \in Value : slot' = [slot EXCEPT ![p_rcidx] = v]
    BY <1>0, <1>1 DEF Write, Pointers, Committing
  <2>2. UNCHANGED <<p_rcidx, c_rcidx, ppc, spc, req, reply>> /\ ppc = "idle"
    BY <1>1 DEF Write
  <2>3. Queue' = Queue
    <3>1. Queue' = QueueOf(slot', c_rcidx, p_rcidx)
      BY <2>2, QueueIs
    <3>2. QueueOf([slot EXCEPT ![p_rcidx] = v], c_rcidx, p_rcidx) = Queue
      BY <1>0, QueueIs, QueueWrite
    <3>3. QED
      BY <2>1, <3>1, <3>2
  <2>4. Work!Write
    BY <1>0, <2>2, <2>3 DEF Work!Write
  <2>5. QED
    BY <2>4 DEF Work!Next
<1>2. CASE CallPut
  <2>1. UNCHANGED <<slot, p_rcidx, c_rcidx, spc, req, reply>>
        /\ ppc = "idle" /\ ppc' = "lock"
    BY <1>2 DEF CallPut, ring
  <2>2. Queue' = Queue
    BY <2>1, QueueIs
  <2>3. Work!BeginCommit
    BY <2>1, <2>2 DEF Work!BeginCommit
  <2>4. QED
    BY <2>3 DEF Work!Next
<1>3. CASE Put
  <2>1. /\ ppc # "idle"
        /\ spc' = WokenServices
        /\ UNCHANGED <<slot, c_rcidx, req, reply>>
        /\ \/ ppc' = "idle"
           \/ ppc' = "wait" /\ p_rcidx' = p_rcidx
    BY <1>3 DEF Put, PutEnter, PutRecheck, PutLoop
  <2>2. Asked' = Asked
    BY <1>0, <2>1 DEF Asked, WokenServices
  <2>3. CASE ppc' = "idle"
    <3>1. p_rcidx' = Succ(p_rcidx) /\ Succ(p_rcidx) # c_rcidx
      BY <2>1, <2>3, PutGoesToFreeSlot
    <3>2. /\ CountOf(c_rcidx, p_rcidx) < Du - 1
          /\ Queue' = Append(Queue, slot[p_rcidx])
      BY <1>0, <2>1, <3>1, QueueIs, QueuePut
    <3>3. Len(Queue) < Du - 1
      <4>1. Len(Queue) = CountOf(c_rcidx, p_rcidx)
        BY <1>0, QueueIs, QueueSeq
      <4>2. QED
        BY <4>1, <3>2
    <3>4. slot'[p_rcidx'] \in Value
      BY <1>0
    <3>5. Work!EndCommit
      BY <2>1, <2>2, <2>3, <3>2, <3>3, <3>4 DEF Work!EndCommit, Asked
    <3>6. QED
      BY <3>5 DEF Work!Next
  <2>4. CASE ppc' = "wait" /\ p_rcidx' = p_rcidx
    <3>1. Queue' = Queue
      BY <2>1, <2>4, QueueIs
    <3>2. QED
      BY <2>1, <2>2, <2>4, <3>1 DEF Work!avars, Asked
  <2>5. QED
    BY <2>1, <2>3, <2>4
<1>4. CASE SpuriousWakeup
  <2>1. /\ UNCHANGED <<slot, p_rcidx, c_rcidx, req, reply>>
        /\ ppc' = "idle" <=> ppc = "idle"
        /\ \/ spc' = spc
           \/ \E c \in Consumers : spc[c] = "wait" /\ spc' = [spc EXCEPT ![c] = "lock"]
    BY <1>4 DEF SpuriousWakeup, ring
  <2>2. Asked' = Asked
    BY <1>0, <2>1 DEF Asked
  <2>3. Queue' = Queue
    BY <2>1, QueueIs
  <2>4. QED
    BY <2>1, <2>2, <2>3 DEF Work!avars, Asked
<1>5. ASSUME NEW c \in Consumers, Request(c)
      PROVE  Work!Next
  <2>1. /\ UNCHANGED <<slot, p_rcidx, c_rcidx, ppc>>
        /\ reply' = [reply EXCEPT ![c] = NoReply]
        /\ spc' = [spc EXCEPT ![c] = "lock"] /\ spc[c] = "idle"
    BY <1>5 DEF Request, ring
  <2>2. PICK n \in GetUnits, b \in BOOLEAN :
             req' = [req EXCEPT ![c] = [units |-> n, cond |-> b]]
    BY <1>5 DEF Request
  <2>3. Queue' = Queue
    BY <2>1, QueueIs
  <2>4. Asked' = [Asked EXCEPT ![c] = IF b THEN "cond_get" ELSE "get"]
    BY <1>0, <2>1, <2>2 DEF Asked
  <2>5. Asked[c] = "none"
    BY <2>1 DEF Asked
  <2>6. Work!BeginGet(c)
    BY <2>1, <2>3, <2>4, <2>5 DEF Work!BeginGet, Work!Gets, Asked, NoReply, Work!NoReply
  <2>7. QED
    BY <2>6 DEF Work!Next
<1>6. ASSUME NEW c \in Consumers, SendUnit(c)
      PROVE  Work!Next
  <2>1. /\ spc[c] = "lock" /\ p_rcidx # c_rcidx
        /\ c_rcidx' = Succ(c_rcidx)
        /\ ppc' = WokenProducer
        /\ spc' = [WokenServices EXCEPT ![c] = "idle"]
        /\ UNCHANGED <<slot, p_rcidx, req>>
        /\ reply' = [reply EXCEPT ![c] =
                        [preamble |-> IF req[c].cond THEN "preamble" ELSE "none",
                         data     |-> <<slot[c_rcidx]>>]]
    BY <1>0, <1>6 DEF SendUnit, Ready, Pointers
  <2>2. Queue # << >> /\ Head(Queue) = slot[c_rcidx] /\ Queue' = Tail(Queue)
    BY <1>0, <2>1, QueueIs, QueueSend
  <2>3. /\ Asked' = [Asked EXCEPT ![c] = "none"]
        /\ Asked[c] = IF req[c].cond THEN "cond_get" ELSE "get"
    BY <1>0, <2>1 DEF Asked, WokenServices
  <2>4. ppc' = "idle" <=> ppc = "idle"
    BY <2>1 DEF WokenProducer
  <2>5. Asked[c] \in Work!Gets /\ (Asked[c] = "cond_get" <=> req[c].cond)
    BY <1>0, <2>3 DEF Work!Gets
  <2>6. reply' = [reply EXCEPT ![c] =
                    [preamble |-> IF Asked[c] = "cond_get" THEN "preamble" ELSE "none",
                     data     |-> <<Head(Queue)>>]]
    BY <2>1, <2>2, <2>5
  <2>7. Work!Deliver(c)
    BY <2>1, <2>2, <2>3, <2>4, <2>5, <2>6 DEF Work!Deliver, Asked
  <2>8. QED
    BY <2>7 DEF Work!Next
<1>7. ASSUME NEW c \in Consumers, SendSorry(c)
      PROVE  Work!Next
  <2>1. /\ spc[c] = "lock" /\ req[c].cond /\ ~ Ready
        /\ reply' = [reply EXCEPT ![c] = Sorry]
        /\ spc' = [spc EXCEPT ![c] = "idle"]
        /\ UNCHANGED <<slot, p_rcidx, c_rcidx, ppc, req>>
    BY <1>7 DEF SendSorry, ring
  <2>2. p_rcidx = c_rcidx
    <3>1. SUFFICES ASSUME p_rcidx # c_rcidx
                   PROVE  FALSE
      OBVIOUS
    <3>2. c_rcidx \in Waiting
      BY <1>0, <3>1, BetweenSend DEF Waiting
    <3>3. rc[c_rcidx] = 1
      BY <1>0, <3>1, <3>2 DEF RingInv, RcCountsUnits
    <3>4. QED
      BY <2>1, <3>1, <3>3 DEF Ready
  <2>3. Queue = << >> /\ Queue' = Queue
    <3>1. CountOf(c_rcidx, p_rcidx) = 0
      BY <1>0, <2>2 DEF CountOf, Slots
    <3>2. QED
      BY <2>1, <3>1, QueueIs DEF QueueOf
  <2>4. Asked' = [Asked EXCEPT ![c] = "none"] /\ Asked[c] = "cond_get"
    BY <1>0, <2>1 DEF Asked
  <2>5. Work!Refuse(c)
    BY <2>1, <2>3, <2>4 DEF Work!Refuse, Asked, Sorry, Work!Sorry
  <2>6. QED
    BY <2>5 DEF Work!Next
<1>8. ASSUME NEW c \in Consumers, SendWait(c)
      PROVE  UNCHANGED Work!avars
  <2>1. /\ spc[c] = "lock" /\ spc' = [spc EXCEPT ![c] = "wait"]
        /\ UNCHANGED <<slot, p_rcidx, c_rcidx, ppc, req, reply>>
    BY <1>8 DEF SendWait, ring
  <2>2. Asked' = Asked
    BY <1>0, <2>1 DEF Asked
  <2>3. Queue' = Queue
    BY <2>1, QueueIs
  <2>4. QED
    BY <2>1, <2>2, <2>3 DEF Work!avars, Asked
<1>9. CASE UNCHANGED vars
  <2>1. UNCHANGED <<slot, p_rcidx, c_rcidx, ppc, spc, req, reply>>
    BY <1>9 DEF vars
  <2>2. Queue' = Queue
    BY <2>1, QueueIs
  <2>3. QED
    BY <2>1, <2>2 DEF Work!avars
<1>10. QED
  BY <1>1, <1>2, <1>3, <1>4, <1>5, <1>6, <1>7, <1>8, <1>9 DEF Next, Send

(* The ring implements the work queue: units are handed out in the order   *)
(* of the commits, each to one consumer, and a conditional get is refused  *)
(* only when no unit waits; for any number of units and consumers.         *)
THEOREM Refinement == Spec => WorkSpec
<1>1. Inv /\ Inv' /\ [Next]_vars => [Work!Next]_(Work!avars)
  BY StepRefines
<1>2. QED
  BY <1>1, InitRefines, Invariance, PTL DEF Spec, WorkSpec, Work!Spec
=============================================================================
