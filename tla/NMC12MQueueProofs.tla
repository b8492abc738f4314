------------------------- MODULE NMC12MQueueProofs -------------------------
(***************************************************************************)
(* Proofs about the replicating ring of libdsys/queue.c, for every number  *)
(* of buffer units, every finite set of consumers, of which some may leave *)
(* at any time, and every set of unit contents.                            *)
(*                                                                         *)
(* The counters are bounded by the readers (RcCountsReaders), but that is  *)
(* not inductive: a producer that passes the cursor of a departed consumer *)
(* takes it out of what every unit has still to be read by, and the upper  *)
(* bound survives only because no unit counts it.  The inductive invariant *)
(* therefore names, for each slot, the set of consumers that its counter   *)
(* was set for.  These sets are history and no variable holds them, so     *)
(* they are bound by an existential quantifier: there are sets K such that *)
(* each counter is the number of consumers of its set that have still to   *)
(* read the unit, all attached consumers are in every set, and a younger   *)
(* unit counts no consumer that an older one does not.                     *)
(***************************************************************************)
EXTENDS NMC12MQueue, SequenceTheorems, FiniteSetTheorems, TLAPS

USE DuAssumption, ValueAssumption, ConsumersAssumption

(* The order in which the producer at p comes to the slots: the next one   *)
(* holds the oldest unit                                                   *)
Age(p, s) == IF s > p THEN s - p - 1 ELSE s + Du - p - 1
Older(p, t, s) == Age(p, t) < Age(p, s)

(* The consumers whose cursors have slot s before them, with the producer  *)
(* at p                                                                    *)
Readers(cursor, s, p) == {c \in Consumers : Between(cursor[c], s, p)}

(* K[s] is the set of consumers that the counter of s was set for; during  *)
(* "lock", the one it will be set for                                      *)
Counted(K) ==
  /\ \A s \in Slots : attached \subseteq K[s]
  /\ \A s \in Slots : s # p_rcidx \/ Committing => rc[s] = Cardinality(K[s] \cap Unread(s))
  /\ \A s, t \in Slots : (s # p_rcidx \/ ppc # "idle") /\ Older(p_rcidx, t, s)
                            => K[s] \subseteq K[t]
  /\ ppc = "lock" => cnt = Cardinality(K[p_rcidx])

CountersAccounted == \E K \in [Slots -> SUBSET Consumers] : Counted(K)

(* Somebody stays, and only consumers that have not left are served        *)
Attachment == /\ Consumers \ Leavers \subseteq attached
              /\ \A c \in Consumers : spc[c] # "idle" => c \in attached

(* Variable pointers and cursors move together                             *)
Pointers == /\ c_var = c_rcidx
            /\ p_var = IF Committing THEN Succ(p_rcidx) ELSE p_rcidx

Inv == TypeOK /\ CountersAccounted /\ NoLostWakeup /\ Attachment /\ Pointers

-----------------------------------------------------------------------------
(* The successor of a slot is a slot                                       *)
LEMMA SuccType ==
  ASSUME NEW i \in Slots
  PROVE  Succ(i) \in Slots
  BY DEF Slots, Succ

(* Advancing a variable pointer goes to the next slot                      *)
LEMMA AdvanceIsSucc == \A i \in Slots : Advance(i) = Succ(i)
  BY DEF Advance, Succ

(* When the producer's cursor moves on, its slot joins the part of the     *)
(* ring that waits for a consumer                                          *)
LEMMA BetweenPut ==
  ASSUME NEW c \in Slots, NEW p \in Slots, Succ(p) # c
  PROVE  \A s \in Slots : Between(c, s, Succ(p)) <=> (Between(c, s, p) \/ s = p)
  BY DEF Slots, Succ, Between

(* When a consumer's cursor moves on, its slot leaves that part            *)
LEMMA BetweenSend ==
  ASSUME NEW c \in Slots, NEW p \in Slots, p # c
  PROVE  /\ Between(c, c, p)
         /\ \A s \in Slots : Between(Succ(c), s, p) <=> (Between(c, s, p) /\ s # c)
  BY DEF Slots, Succ, Between

(* The producer's slot never waits                                         *)
LEMMA BetweenSelf ==
  ASSUME NEW c \in Slots, NEW p \in Slots
  PROVE  ~ Between(c, p, p)
  BY DEF Slots, Between

(* The slot the producer comes to next is the oldest, and the one it       *)
(* leaves becomes the youngest; the order of the others stays              *)
LEMMA AgeOrder ==
  ASSUME NEW p \in Slots
  PROVE  /\ \A s \in Slots : ~ Older(p, p, s)
         /\ \A s \in Slots : s # Succ(p) => Older(p, Succ(p), s)
         /\ \A s \in Slots : ~ Older(Succ(p), Succ(p), s)
         /\ \A s, t \in Slots : s # Succ(p) /\ t # Succ(p)
               => (Older(Succ(p), t, s) <=> Older(p, t, s))
  BY DEF Slots, Succ, Age, Older

(* Sets of consumers are finite, and smaller sets have smaller sizes       *)
LEMMA ConsumerSets ==
  ASSUME NEW S \in SUBSET Consumers
  PROVE  /\ IsFiniteSet(S)
         /\ Cardinality(S) \in 0 .. Cardinality(Consumers)
         /\ Cardinality(S) = 0 <=> S = {}
         /\ \A T \in SUBSET S : Cardinality(T) <= Cardinality(S)
         /\ \A x \in S : Cardinality(S \ {x}) = Cardinality(S) - 1
<1>1. IsFiniteSet(S) /\ Cardinality(S) <= Cardinality(Consumers)
  BY FS_Subset
<1>2. Cardinality(S) \in Nat /\ Cardinality(Consumers) \in Nat
  BY <1>1, FS_CardinalityType
<1>3. Cardinality(S) = 0 <=> S = {}
  BY <1>1, FS_EmptySet
<1>4. \A T \in SUBSET S : Cardinality(T) <= Cardinality(S)
  BY <1>1, FS_Subset
<1>5. \A x \in S : Cardinality(S \ {x}) = Cardinality(S) - 1
  BY <1>1, FS_RemoveElement
<1>6. QED
  BY <1>1, <1>2, <1>3, <1>4, <1>5

(* The consumers that have still to read a slot are consumers              *)
LEMMA UnreadType == \A s : Unread(s) \subseteq Consumers
  BY DEF Unread

(* They are the readers of the slot, but for the producer's own            *)
LEMMA UnreadIs ==
  ASSUME NEW s
  PROVE  /\ s # p_rcidx => Unread(s) = Readers(c_rcidx, s, p_rcidx)
         /\ s # p_rcidx' => Unread(s)' = Readers(c_rcidx', s, p_rcidx')
         /\ Unread(p_rcidx) = IF Committing THEN Consumers ELSE {}
  BY DEF Unread, Readers

(* What the invariant says of the counters bounds them by the readers      *)
LEMMA AccountedBounds == TypeOK /\ CountersAccounted => RcCountsReaders
<1> SUFFICES ASSUME TypeOK, CountersAccounted,
                    NEW s \in Slots, s # p_rcidx \/ Committing
             PROVE  rc[s] \in Cardinality(Unread(s) \cap attached) .. Cardinality(Unread(s))
  BY DEF RcCountsReaders
<1>1. PICK K \in [Slots -> SUBSET Consumers] : Counted(K)
  BY DEF CountersAccounted
<1>2. rc[s] = Cardinality(K[s] \cap Unread(s)) /\ attached \subseteq K[s]
  BY <1>1 DEF Counted
<1>3. /\ Unread(s) \cap attached \in SUBSET (K[s] \cap Unread(s))
      /\ K[s] \cap Unread(s) \in SUBSET Unread(s)
      /\ K[s] \cap Unread(s) \in SUBSET Consumers
      /\ Unread(s) \in SUBSET Consumers
      /\ Unread(s) \cap attached \in SUBSET Consumers
  BY <1>2, UnreadType
<1>4. /\ Cardinality(Unread(s) \cap attached) <= Cardinality(K[s] \cap Unread(s))
      /\ Cardinality(K[s] \cap Unread(s)) <= Cardinality(Unread(s))
  BY <1>3, ConsumerSets
<1>5. /\ Cardinality(K[s] \cap Unread(s)) \in Nat
      /\ Cardinality(Unread(s)) \in Nat
      /\ Cardinality(Unread(s) \cap attached) \in Nat
  BY <1>3, ConsumerSets
<1>6. QED
  BY <1>2, <1>4, <1>5

-----------------------------------------------------------------------------
(* The counter of an empty ring counts nobody, whatever rc[0] holds        *)
LEMMA InitInv == Init => Inv
<1> SUFFICES ASSUME Init
             PROVE  Inv
  OBVIOUS
<1>1. 0 \in Slots
  BY DEF Slots
<1>2. TypeOK
  <2>1. Cardinality(Consumers) \in Nat
    BY FS_CardinalityType
  <2>2. QED
    BY <1>1, <2>1 DEF Init, TypeOK
<1>3. CountersAccounted
  <2> DEFINE K == [s \in Slots |-> Consumers]
  <2>1. \A s \in Slots : s # p_rcidx \/ Committing => rc[s] = 0 /\ Unread(s) = {}
    BY DEF Init, Committing, Unread, Between, Slots
  <2>2. Counted(K)
    BY <2>1, FS_EmptySet DEF Init, Counted
  <2>3. QED
    BY <2>2 DEF CountersAccounted
<1>4. NoLostWakeup /\ Attachment
  BY DEF Init, NoLostWakeup, Attachment
<1>5. Pointers
  BY DEF Init, Pointers, Committing
<1>6. QED
  BY <1>2, <1>3, <1>4, <1>5 DEF Inv

(* Somebody is attached                                                    *)
LEMMA SomebodyStays == Attachment => attached # {}
  BY DEF Attachment

(* The counters say who has still to read which unit, the producer's own,  *)
(* which is committed, included: K[s] are the consumers that s was counted *)
(* for, A those that are attached                                          *)
Account(p, A, cursor, counters, K) ==
  /\ p \in Slots
  /\ A \in SUBSET Consumers /\ A # {}
  /\ cursor \in [Consumers -> Slots]
  /\ counters \in [Slots -> 0 .. Cardinality(Consumers)]
  /\ K \in [Slots -> SUBSET Consumers]
  /\ \A s \in Slots : A \subseteq K[s]
  /\ counters[p] = Cardinality(K[p])
  /\ \A s \in Slots : s # p => counters[s] = Cardinality(K[s] \cap Readers(cursor, s, p))
  /\ \A s, t \in Slots : Older(p, t, s) => K[s] \subseteq K[t]

(* When put finds the next counter at zero, nobody it counts has still to  *)
(* read that slot: nobody attached, and nobody that a younger unit counts  *)
LEMMA NextSlotFree ==
  ASSUME NEW p, NEW A, NEW cursor, NEW counters, NEW K,
         Account(p, A, cursor, counters, K), counters[Succ(p)] = 0
  PROVE  /\ Succ(p) # p
         /\ \A c \in A : cursor[c] # Succ(p) /\ ~ Between(cursor[c], Succ(p), p)
         /\ \A s \in Slots : s # Succ(p) =>
               K[s] \cap Readers(cursor, s, Succ(p))
                 = IF s = p THEN K[p] ELSE K[s] \cap Readers(cursor, s, p)
<1>0. /\ p \in Slots
      /\ A \in SUBSET Consumers /\ A # {}
      /\ cursor \in [Consumers -> Slots]
      /\ K \in [Slots -> SUBSET Consumers]
      /\ \A s \in Slots : A \subseteq K[s]
      /\ counters[p] = Cardinality(K[p])
      /\ \A s \in Slots : s # p => counters[s] = Cardinality(K[s] \cap Readers(cursor, s, p))
      /\ \A s, t \in Slots : Older(p, t, s) => K[s] \subseteq K[t]
      /\ counters[Succ(p)] = 0
  BY DEF Account
<1> DEFINE n == Succ(p)
           W(s) == Readers(cursor, s, p)
<1>1. n \in Slots
  BY <1>0, SuccType
<1>2. n # p
  <2>1. K[p] # {} /\ K[p] \in SUBSET Consumers
    BY <1>0
  <2>2. Cardinality(K[p]) # 0
    BY <2>1, ConsumerSets
  <2>3. QED
    BY <1>0, <2>2
<1> HIDE DEF n
<1>3. K[n] \cap W(n) = {}
  <2>1. Cardinality(K[n] \cap W(n)) = 0
    BY <1>0, <1>1, <1>2 DEF n
  <2>2. K[n] \cap W(n) \in SUBSET Consumers
    BY <1>0, <1>1 DEF Readers
  <2>3. QED
    BY <2>1, <2>2, ConsumerSets
<1>4. \A c \in K[n] : cursor[c] # n /\ ~ Between(cursor[c], n, p)
  <2>1. TAKE c \in K[n]
  <2>2. c \in Consumers /\ cursor[c] \in Slots
    BY <1>0, <1>1
  <2>3. ~ Between(cursor[c], n, p)
    BY <1>3, <2>2 DEF Readers
  <2>4. cursor[c] # n
    BY <1>0, <1>1, <1>2, <2>2, <2>3, BetweenSend
  <2>5. QED
    BY <2>3, <2>4
<1>5. \A s \in Slots : s # n => K[s] \subseteq K[n]
  BY <1>0, <1>1, AgeOrder DEF n
<1>6. ASSUME NEW s \in Slots, s # n
      PROVE  K[s] \cap Readers(cursor, s, n)
               = IF s = p THEN K[p] ELSE K[s] \cap W(s)
  <2>1. ASSUME NEW c \in K[s]
        PROVE  Between(cursor[c], s, n) <=> (Between(cursor[c], s, p) \/ s = p)
    <3>1. c \in K[n] /\ c \in Consumers
      BY <1>0, <1>1, <1>5, <1>6
    <3>2. cursor[c] \in Slots /\ cursor[c] # n
      BY <3>1, <1>0, <1>4
    <3>3. QED
      BY <3>2, <1>0, BetweenPut DEF n
  <2>2. \A c \in Consumers : ~ Between(cursor[c], p, p)
    BY <1>0, BetweenSelf
  <2>3. K[s] \subseteq Consumers
    BY <1>0
  <2>4. QED
    BY <2>1, <2>2, <2>3 DEF Readers
<1>7. \A c \in A : cursor[c] # n /\ ~ Between(cursor[c], n, p)
  BY <1>0, <1>1, <1>4
<1>8. QED
  BY <1>2, <1>6, <1>7 DEF n

(* What put finds of its counters, when it enters and when it was woken    *)
PutAccount(K) == Account(p_rcidx, attached, c_rcidx, rc', K)

(* They are right when its own has just been set to the number read        *)
(* earlier                                                                 *)
LEMMA AccountOnEntry ==
  ASSUME TypeOK, TypeOK', attached # {}, CountersAccounted, PutEnter
  PROVE  \E K \in [Slots -> SUBSET Consumers] : PutAccount(K)
<1>1. PICK K \in [Slots -> SUBSET Consumers] : Counted(K)
  BY DEF CountersAccounted
<1>2. /\ ppc = "lock"
      /\ rc \in [Slots -> 0 .. Cardinality(Consumers)] /\ p_rcidx \in Slots
      /\ rc' = [rc EXCEPT ![p_rcidx] = cnt]
  BY DEF TypeOK, PutEnter
<1>3. \A s \in Slots : s # p_rcidx =>
        rc'[s] = Cardinality(K[s] \cap Readers(c_rcidx, s, p_rcidx))
  BY <1>1, <1>2 DEF Counted, Unread, Readers
<1>4. rc'[p_rcidx] = Cardinality(K[p_rcidx])
  BY <1>1, <1>2 DEF Counted
<1>5. \A s, t \in Slots : Older(p_rcidx, t, s) => K[s] \subseteq K[t]
  BY <1>1, <1>2 DEF Counted
<1>6. \A s \in Slots : attached \subseteq K[s]
  BY <1>1 DEF Counted
<1>7. PutAccount(K)
  BY <1>3, <1>4, <1>5, <1>6 DEF PutAccount, Account, TypeOK
<1>8. QED
  BY <1>7

(* And when the producer has slept                                         *)
LEMMA AccountOnRecheck ==
  ASSUME TypeOK, TypeOK', attached # {}, CountersAccounted, PutRecheck
  PROVE  \E K \in [Slots -> SUBSET Consumers] : PutAccount(K)
<1>1. PICK K \in [Slots -> SUBSET Consumers] : Counted(K)
  BY DEF CountersAccounted
<1>2. /\ ppc = "recheck" /\ Committing /\ rc' = rc /\ p_rcidx \in Slots
  BY DEF TypeOK, PutRecheck, Committing
<1>3. \A s \in Slots : s # p_rcidx =>
        rc'[s] = Cardinality(K[s] \cap Readers(c_rcidx, s, p_rcidx))
  BY <1>1, <1>2 DEF Counted, Unread, Readers
<1>4. rc'[p_rcidx] = Cardinality(K[p_rcidx])
  <2>1. rc'[p_rcidx] = Cardinality(K[p_rcidx] \cap Consumers)
    BY <1>1, <1>2 DEF Counted, Unread
  <2>2. K[p_rcidx] \cap Consumers = K[p_rcidx]
    BY <1>2
  <2>3. QED
    BY <2>1, <2>2
<1>5. \A s, t \in Slots : Older(p_rcidx, t, s) => K[s] \subseteq K[t]
  BY <1>1, <1>2 DEF Counted
<1>6. \A s \in Slots : attached \subseteq K[s]
  BY <1>1 DEF Counted
<1>7. PutAccount(K)
  BY <1>3, <1>4, <1>5, <1>6 DEF PutAccount, Account, TypeOK
<1>8. QED
  BY <1>7

(* With such counters, a put that goes on passes no reader                 *)
LEMMA PutSucceeds ==
  ASSUME TypeOK, TypeOK', attached # {}, NEW K, PutAccount(K), rc'[Succ(p_rcidx)] = 0
  PROVE  /\ Succ(p_rcidx) # p_rcidx
         /\ \A c \in attached : /\ c_rcidx[c] # Succ(p_rcidx)
                                /\ ~ Between(c_rcidx[c], Succ(p_rcidx), p_rcidx)
         /\ \A s \in Slots : s # Succ(p_rcidx) =>
               K[s] \cap Readers(c_rcidx, s, Succ(p_rcidx))
                 = IF s = p_rcidx THEN K[p_rcidx]
                   ELSE K[s] \cap Readers(c_rcidx, s, p_rcidx)
  BY NextSlotFree DEF PutAccount

(* The loop of put keeps the account                                       *)
LEMMA PutLoopKeeps ==
  ASSUME TypeOK, TypeOK', attached # {}, PutLoop(rc'),
         \E K \in [Slots -> SUBSET Consumers] : PutAccount(K),
         UNCHANGED <<c_rcidx, attached>>
  PROVE  CountersAccounted'
<1>1. PICK K \in [Slots -> SUBSET Consumers] : PutAccount(K)
  OBVIOUS
<1>2. /\ rc' \in [Slots -> 0 .. Cardinality(Consumers)]
      /\ p_rcidx \in Slots
      /\ c_rcidx \in [Consumers -> Slots]
      /\ attached \in SUBSET Consumers
      /\ Succ(p_rcidx) \in Slots
  BY SuccType DEF TypeOK
<1>3. CASE rc'[Succ(p_rcidx)] = 0
  <2>1. p_rcidx' = Succ(p_rcidx) /\ ppc' = "idle"
    BY <1>3 DEF PutLoop
  <2>2. \A s \in Slots : s # Succ(p_rcidx) =>
           K[s] \cap Readers(c_rcidx, s, Succ(p_rcidx))
             = IF s = p_rcidx THEN K[p_rcidx]
               ELSE K[s] \cap Readers(c_rcidx, s, p_rcidx)
    BY <1>1, <1>3, PutSucceeds
  <2>3. \A s \in Slots : s # Succ(p_rcidx) =>
           Unread(s)' = Readers(c_rcidx, s, Succ(p_rcidx))
    <3>1. TAKE s \in Slots
    <3>2. HAVE s # Succ(p_rcidx)
    <3>3. Unread(s)' = Readers(c_rcidx', s, p_rcidx')
      BY <2>1, <3>2, UnreadIs
    <3>4. QED
      BY <2>1, <3>3
  <2>4. \A s \in Slots : s # Succ(p_rcidx) => rc'[s] = Cardinality(K[s] \cap Unread(s)')
    <3>1. /\ rc'[p_rcidx] = Cardinality(K[p_rcidx])
          /\ \A s \in Slots : s # p_rcidx =>
               rc'[s] = Cardinality(K[s] \cap Readers(c_rcidx, s, p_rcidx))
      BY <1>1 DEF PutAccount, Account
    <3>2. TAKE s \in Slots
    <3>3. HAVE s # Succ(p_rcidx)
    <3>4. Unread(s)' = Readers(c_rcidx, s, Succ(p_rcidx))
      BY <2>3, <3>3
    <3>5. K[s] \cap Unread(s)' = IF s = p_rcidx THEN K[p_rcidx]
                                 ELSE K[s] \cap Readers(c_rcidx, s, p_rcidx)
      BY <2>2, <3>3, <3>4
    <3>6. QED
      BY <3>1, <3>5
  <2>5. \A s, t \in Slots : s # Succ(p_rcidx) /\ Older(Succ(p_rcidx), t, s)
           => K[s] \subseteq K[t]
    BY <1>1, <1>2, AgeOrder DEF PutAccount, Account
  <2>6. Counted(K)'
    BY <1>1, <2>1, <2>4, <2>5 DEF Counted, PutAccount, Account, Committing
  <2>7. QED
    BY <2>6 DEF CountersAccounted
<1>4. CASE rc'[Succ(p_rcidx)] # 0
  <2>1. p_rcidx' = p_rcidx /\ ppc' = "wait"
    BY <1>4 DEF PutLoop
  <2>2. \A s \in Slots : Unread(s)' =
           IF s = p_rcidx THEN Consumers
           ELSE Readers(c_rcidx, s, p_rcidx)
    BY <2>1 DEF Unread, Committing, Readers
  <2>3. K[p_rcidx] \cap Consumers = K[p_rcidx]
    BY <1>2
  <2>4. \A s \in Slots : rc'[s] = Cardinality(K[s] \cap Unread(s)')
    BY <1>1, <2>2, <2>3 DEF PutAccount, Account
  <2>5. Counted(K)'
    BY <1>1, <2>1, <2>4 DEF Counted, PutAccount, Account
  <2>6. QED
    BY <2>5 DEF CountersAccounted
<1>5. QED
  BY <1>3, <1>4

(* A step that moves no cursor, sets no counter and begins no commit       *)
(* leaves the account alone; a consumer may leave                          *)
LEMMA AccountSame ==
  ASSUME CountersAccounted, UNCHANGED <<rc, p_rcidx, c_rcidx, cnt>>,
         attached' \subseteq attached,
         ppc' = ppc \/ (ppc = "wait" /\ ppc' = "recheck")
  PROVE  CountersAccounted'
<1>1. PICK K \in [Slots -> SUBSET Consumers] : Counted(K)
  BY DEF CountersAccounted
<1>2. /\ Committing' <=> Committing
      /\ ppc' # "idle" <=> ppc # "idle"
      /\ ppc' = "lock" <=> ppc = "lock"
  BY DEF Committing
<1>3. \A s : Unread(s)' = Unread(s)
  BY <1>2 DEF Unread
<1>4. Counted(K)'
  BY <1>1, <1>2, <1>3 DEF Counted
<1>5. QED
  BY <1>4 DEF CountersAccounted

(* A new commit will count the consumers attached now, whom all older      *)
(* units count too                                                         *)
LEMMA AccountOnCall ==
  ASSUME TypeOK, CountersAccounted, CallPut
  PROVE  CountersAccounted'
<1>1. PICK K \in [Slots -> SUBSET Consumers] : Counted(K)
  BY DEF CountersAccounted
<1>2. /\ ppc = "idle" /\ ppc' = "lock" /\ cnt' = Cardinality(attached)
      /\ UNCHANGED <<rc, p_rcidx, c_rcidx, attached>>
      /\ p_rcidx \in Slots /\ attached \subseteq Consumers
  BY DEF CallPut, channel_rc, TypeOK, cursors
<1>3. PICK L \in [Slots -> SUBSET Consumers] :
             /\ L[p_rcidx] = attached
             /\ \A s \in Slots : s # p_rcidx => L[s] = K[s]
  <2>1. [K EXCEPT ![p_rcidx] = attached] \in [Slots -> SUBSET Consumers]
    BY <1>2
  <2>2. QED
    BY <1>2, <2>1
<1>4. ~ Committing /\ ~ Committing'
  BY <1>2 DEF Committing
<1>5. \A s : Unread(s)' = Unread(s)
  BY <1>2, <1>4 DEF Unread
<1>6. \A s \in Slots : attached \subseteq K[s]
  BY <1>1 DEF Counted
<1>7. \A s \in Slots : s # p_rcidx => rc'[s] = Cardinality(L[s] \cap Unread(s)')
  BY <1>1, <1>2, <1>3, <1>5 DEF Counted
<1>8. \A s, t \in Slots : Older(p_rcidx, t, s) => L[s] \subseteq L[t]
  <2>1. TAKE s, t \in Slots
  <2>2. HAVE Older(p_rcidx, t, s)
  <2>3. t # p_rcidx
    BY <1>2, <2>2, AgeOrder
  <2>4. CASE s = p_rcidx
    BY <2>3, <2>4, <1>3, <1>6
  <2>5. CASE s # p_rcidx
    BY <2>2, <2>3, <2>5, <1>1, <1>3 DEF Counted
  <2>6. QED
    BY <2>4, <2>5
<1>9. Counted(L)'
  BY <1>2, <1>3, <1>4, <1>6, <1>7, <1>8 DEF Counted
<1>10. QED
  BY <1>3, <1>9 DEF CountersAccounted

(* The consumer that is sent a unit leaves the readers of that unit, and   *)
(* its counter goes down by one                                            *)
LEMMA AccountOnSend ==
  ASSUME TypeOK, CountersAccounted, NEW c \in Consumers, c \in attached, SendUnit(c)
  PROVE  CountersAccounted'
<1>1. PICK K \in [Slots -> SUBSET Consumers] : Counted(K)
  BY DEF CountersAccounted
<1>0. PICK k \in Slots : k = c_rcidx[c]
  BY DEF TypeOK
<1>2. /\ rc \in [Slots -> 0 .. Cardinality(Consumers)]
      /\ p_rcidx \in Slots /\ k \in Slots
      /\ c_rcidx \in [Consumers -> Slots]
      /\ p_rcidx # k
      /\ rc' = [rc EXCEPT ![k] = rc[k] - 1]
      /\ c_rcidx' = [c_rcidx EXCEPT ![c] = Succ(k)]
      /\ UNCHANGED <<p_rcidx, cnt, attached>>
      /\ ppc' = WokenProducer
  BY <1>0 DEF TypeOK, SendUnit, Ready
<1>3. /\ Between(k, k, p_rcidx)
      /\ \A s \in Slots : Between(Succ(k), s, p_rcidx) <=> (Between(k, s, p_rcidx) /\ s # k)
  BY <1>2, BetweenSend
<1>4. \A s \in Slots : Readers(c_rcidx', s, p_rcidx) =
         IF s = k THEN Readers(c_rcidx, s, p_rcidx) \ {c} ELSE Readers(c_rcidx, s, p_rcidx)
  BY <1>0, <1>2, <1>3 DEF Readers
<1>5. c \in Readers(c_rcidx, k, p_rcidx)
  BY <1>0, <1>3 DEF Readers
<1>6. /\ Committing' <=> Committing
      /\ ppc' # "idle" <=> ppc # "idle"
      /\ ppc' = "lock" <=> ppc = "lock"
  BY <1>2 DEF Committing, WokenProducer
<1>7. Unread(k)' = Unread(k) \ {c} /\ c \in Unread(k)
  <2>1. Unread(k) = Readers(c_rcidx, k, p_rcidx) /\ Unread(k)' = Readers(c_rcidx', k, p_rcidx')
    BY <1>2, UnreadIs
  <2>2. QED
    BY <2>1, <1>2, <1>4, <1>5
<1>8. \A s \in Slots : s # k => Unread(s)' = Unread(s)
  <2>1. TAKE s \in Slots
  <2>2. HAVE s # k
  <2>3. CASE s = p_rcidx
    BY <2>3, <1>2, <1>6 DEF Unread
  <2>4. CASE s # p_rcidx
    <3>1. Unread(s) = Readers(c_rcidx, s, p_rcidx) /\ Unread(s)' = Readers(c_rcidx', s, p_rcidx')
      BY <1>2, <2>4, UnreadIs
    <3>2. QED
      BY <3>1, <2>2, <1>2, <1>4
  <2>5. QED
    BY <2>3, <2>4
<1>9. rc'[k] = Cardinality(K[k] \cap Unread(k)')
  <2>1. rc[k] = Cardinality(K[k] \cap Unread(k)) /\ c \in K[k]
    BY <1>1, <1>2 DEF Counted
  <2>2. K[k] \cap Unread(k)' = (K[k] \cap Unread(k)) \ {c} /\ c \in K[k] \cap Unread(k)
    BY <1>7, <2>1
  <2>3. K[k] \cap Unread(k) \in SUBSET Consumers
    BY UnreadType
  <2>4. Cardinality((K[k] \cap Unread(k)) \ {c}) = Cardinality(K[k] \cap Unread(k)) - 1
    BY <2>2, <2>3, ConsumerSets
  <2>5. QED
    BY <1>2, <2>1, <2>2, <2>4
<1>10. \A s \in Slots : s # k => rc'[s] = rc[s]
  BY <1>2
<1>11. ASSUME NEW s \in Slots, s # p_rcidx' \/ Committing'
       PROVE  rc'[s] = Cardinality(K[s] \cap Unread(s)')
  <2>1. CASE s = k
    BY <2>1, <1>9
  <2>2. CASE s # k
    <3>1. rc[s] = Cardinality(K[s] \cap Unread(s))
      BY <1>1, <1>2, <1>6, <1>11 DEF Counted
    <3>2. QED
      BY <2>2, <3>1, <1>8, <1>10
  <2>3. QED
    BY <2>1, <2>2
<1>12. Counted(K)'
  BY <1>1, <1>2, <1>6, <1>11 DEF Counted
<1>13. QED
  BY <1>12 DEF CountersAccounted

(* Every step keeps the invariant.                                         *)
LEMMA NextInv == Inv /\ [Next]_vars => Inv'
<1> SUFFICES ASSUME Inv, [Next]_vars
             PROVE  Inv'
  OBVIOUS
<1>0. /\ TypeOK /\ CountersAccounted /\ NoLostWakeup /\ Attachment /\ Pointers
      /\ slot \in [Slots -> Value]
      /\ rc \in [Slots -> 0 .. Cardinality(Consumers)]
      /\ p_rcidx \in Slots /\ p_var \in Slots
      /\ c_rcidx \in [Consumers -> Slots] /\ c_var \in [Consumers -> Slots]
      /\ Succ(p_rcidx) \in Slots
      /\ ppc \in {"idle", "lock", "wait", "recheck"}
      /\ cnt \in 0 .. Cardinality(Consumers)
      /\ spc \in [Consumers -> {"idle", "lock", "wait"}]
      /\ cond \in [Consumers -> BOOLEAN]
      /\ reply \in [Consumers -> {NoReply, Sorry} \cup Answers]
      /\ attached \subseteq Consumers
      /\ attached # {}
      /\ \A c \in Consumers : Succ(c_rcidx[c]) \in Slots
  BY SuccType, SomebodyStays DEF Inv, TypeOK
<1>1. CASE Write
  <2>1. /\ slot' \in [Slots -> Value]
        /\ UNCHANGED <<rc, p_rcidx, p_var, c_rcidx, c_var, ppc, cnt, spc, cond, reply, attached>>
    BY <1>0, <1>1 DEF Write, prod, cursors
  <2>2. TypeOK'
    BY <1>0, <2>1 DEF TypeOK
  <2>3. CountersAccounted'
    BY <1>0, <2>1, AccountSame
  <2>4. NoLostWakeup' /\ Attachment' /\ Pointers'
    BY <1>0, <2>1 DEF NoLostWakeup, Ready, Attachment, Pointers, Committing
  <2>5. QED
    BY <2>2, <2>3, <2>4 DEF Inv
<1>2. CASE CallPut
  <2>1. /\ ppc = "idle" /\ ppc' = "lock" /\ cnt' = Cardinality(attached)
        /\ UNCHANGED <<slot, rc, p_rcidx, p_var, c_rcidx, c_var, spc, cond, reply, attached>>
    BY <1>2 DEF CallPut, cursors, channel_rc
  <2>2. TypeOK'
    BY <1>0, <2>1, ConsumerSets DEF TypeOK
  <2>3. CountersAccounted'
    BY <1>0, <1>2, AccountOnCall
  <2>4. NoLostWakeup' /\ Attachment' /\ Pointers'
    BY <1>0, <2>1 DEF NoLostWakeup, Ready, Attachment, Pointers, Committing
  <2>5. QED
    BY <2>2, <2>3, <2>4 DEF Inv
<1>3. CASE Put
  <2>1. /\ PutLoop(rc') /\ rc' \in [Slots -> 0 .. Cardinality(Consumers)]
        /\ p_var' = Succ(p_rcidx)
        /\ ppc \in {"lock", "recheck"}
        /\ \/ p_rcidx' = Succ(p_rcidx) /\ ppc' = "idle"
           \/ p_rcidx' = p_rcidx /\ ppc' = "wait" /\ rc'[Succ(p_rcidx)] # 0
        /\ spc' = WokenServices
        /\ UNCHANGED <<slot, cnt, c_rcidx, c_var, cond, reply, attached>>
    BY <1>0, <1>3, AdvanceIsSucc
       DEF Put, PutEnter, PutRecheck, PutLoop, Pointers, Committing, cursors
  <2>2. TypeOK'
    BY <1>0, <2>1 DEF TypeOK, WokenServices
  <2>3. CountersAccounted'
    <3>1. \E K \in [Slots -> SUBSET Consumers] : PutAccount(K)
      BY <1>0, <1>3, <2>2, AccountOnEntry, AccountOnRecheck DEF Put
    <3>2. QED
      BY <1>0, <2>1, <2>2, <3>1, PutLoopKeeps
  <2>4. \A c \in Consumers : spc'[c] # "wait" /\ (spc'[c] # "idle" <=> spc[c] # "idle")
    BY <1>0, <2>1 DEF WokenServices
  <2>5. NoLostWakeup' /\ Attachment' /\ Pointers'
    BY <1>0, <2>1, <2>4 DEF NoLostWakeup, Attachment, Pointers, Committing
  <2>6. QED
    BY <2>2, <2>3, <2>5 DEF Inv
<1>4. CASE SpuriousWakeup
  <2>1. /\ UNCHANGED <<slot, rc, p_rcidx, p_var, c_rcidx, c_var, cnt, cond, reply, attached>>
        /\ \/ ppc' = ppc
           \/ ppc = "wait" /\ ppc' = "recheck"
        /\ spc' \in [Consumers -> {"idle", "lock", "wait"}]
        /\ \A c \in Consumers : /\ spc'[c] = "wait" => spc[c] = "wait"
                                /\ spc'[c] # "idle" => spc[c] # "idle"
    BY <1>0, <1>4 DEF SpuriousWakeup, prod, cursors
  <2>2. TypeOK'
    BY <1>0, <2>1 DEF TypeOK
  <2>3. CountersAccounted'
    BY <1>0, <2>1, AccountSame
  <2>4. NoLostWakeup'
    <3>1. \A c \in Consumers : Ready(c)' <=> Ready(c)
      BY <2>1 DEF Ready
    <3>2. QED
      BY <1>0, <2>1, <3>1 DEF NoLostWakeup
  <2>5. Attachment' /\ Pointers'
    BY <1>0, <2>1 DEF Attachment, Pointers, Committing
  <2>6. QED
    BY <2>2, <2>3, <2>4, <2>5 DEF Inv
<1>5. ASSUME NEW c \in Consumers, Request(c)
      PROVE  Inv'
  <2>1. /\ UNCHANGED <<slot, rc, p_rcidx, p_var, c_rcidx, c_var, ppc, cnt, attached>>
        /\ spc[c] = "idle" /\ c \in attached
        /\ reply' = [reply EXCEPT ![c] = NoReply]
        /\ spc' = [spc EXCEPT ![c] = "lock"]
    BY <1>5 DEF Request, prod, cursors
  <2>2. PICK b \in BOOLEAN : cond' = [cond EXCEPT ![c] = b]
    BY <1>5 DEF Request
  <2>3. TypeOK'
    BY <1>0, <2>1, <2>2 DEF TypeOK
  <2>4. CountersAccounted'
    BY <1>0, <2>1, AccountSame
  <2>5. NoLostWakeup' /\ Attachment' /\ Pointers'
    BY <1>0, <2>1, <2>2 DEF NoLostWakeup, Ready, Attachment, Pointers, Committing
  <2>6. QED
    BY <2>3, <2>4, <2>5 DEF Inv
<1>6. ASSUME NEW c \in Consumers, SendUnit(c)
      PROVE  Inv'
  <2>1. /\ c_var' = [c_var EXCEPT ![c] = Succ(c_rcidx[c])]
        /\ c_rcidx' = [c_rcidx EXCEPT ![c] = Succ(c_rcidx[c])]
        /\ rc' = [rc EXCEPT ![c_rcidx[c]] = rc[c_rcidx[c]] - 1]
        /\ rc[c_rcidx[c]] # 0
        /\ spc[c] = "lock"
        /\ ppc' = WokenProducer
        /\ spc' = [WokenServices EXCEPT ![c] = "idle"]
        /\ UNCHANGED <<slot, p_rcidx, p_var, cnt, cond, attached>>
    BY <1>0, <1>6, AdvanceIsSucc DEF SendUnit, Ready, Pointers
  <2>2. reply' \in [Consumers -> {NoReply, Sorry} \cup Answers]
    <3>1. <<slot[c_var[c]]>> \in [1 .. 1 -> Value]
      BY <1>0
    <3>2. [preamble |-> IF cond[c] THEN "preamble" ELSE "none",
           data |-> <<slot[c_var[c]]>>] \in Answers
      BY <3>1 DEF Answers
    <3>3. QED
      BY <1>0, <1>6, <3>2 DEF SendUnit
  <2>3. rc' \in [Slots -> 0 .. Cardinality(Consumers)]
    <3>1. Cardinality(Consumers) \in Nat
      BY FS_CardinalityType
    <3>2. rc[c_rcidx[c]] - 1 \in 0 .. Cardinality(Consumers)
      BY <1>0, <2>1, <3>1
    <3>3. QED
      BY <1>0, <2>1, <3>2
  <2>4. TypeOK'
    BY <1>0, <2>1, <2>2, <2>3 DEF TypeOK, WokenServices, WokenProducer
  <2>5. CountersAccounted'
    <3>1. c \in attached
      BY <1>0, <2>1 DEF Attachment
    <3>2. QED
      BY <1>0, <1>6, <3>1, AccountOnSend
  <2>6. \A d \in Consumers : spc'[d] # "wait" /\ (spc'[d] # "idle" => spc[d] # "idle")
    BY <1>0, <2>1 DEF WokenServices
  <2>7. ppc' # "wait" /\ (Committing' <=> Committing)
    BY <1>0, <2>1 DEF WokenProducer, Committing
  <2>8. NoLostWakeup' /\ Attachment' /\ Pointers'
    BY <1>0, <2>1, <2>6, <2>7 DEF NoLostWakeup, Attachment, Pointers
  <2>9. QED
    BY <2>4, <2>5, <2>8 DEF Inv
<1>7. ASSUME NEW c \in Consumers, SendSorry(c) \/ SendWait(c)
      PROVE  Inv'
  <2>1. /\ UNCHANGED <<slot, rc, p_rcidx, p_var, c_rcidx, c_var, ppc, cnt, cond, attached>>
        /\ \/ reply' = reply
           \/ reply' = [reply EXCEPT ![c] = Sorry]
        /\ spc[c] = "lock"
        /\ \/ spc' = [spc EXCEPT ![c] = "idle"]
           \/ /\ spc' = [spc EXCEPT ![c] = "wait"]
              /\ ~ Ready(c) /\ ~ cond[c]
    BY <1>7 DEF SendSorry, SendWait, prod, cursors
  <2>2. TypeOK'
    BY <1>0, <2>1 DEF TypeOK
  <2>3. CountersAccounted'
    BY <1>0, <2>1, AccountSame
  <2>4. NoLostWakeup' /\ Attachment' /\ Pointers'
    BY <1>0, <2>1 DEF NoLostWakeup, Ready, Attachment, Pointers, Committing
  <2>5. QED
    BY <2>2, <2>3, <2>4 DEF Inv
<1>8. ASSUME NEW c \in Consumers, Leave(c)
      PROVE  Inv'
  <2>1. /\ c \in Leavers /\ spc[c] = "idle" /\ attached' = attached \ {c}
        /\ UNCHANGED <<slot, rc, p_rcidx, p_var, c_rcidx, c_var, ppc, cnt, spc, cond, reply>>
    BY <1>8 DEF Leave, prod, cursors
  <2>2. TypeOK'
    BY <1>0, <2>1 DEF TypeOK
  <2>3. CountersAccounted'
    BY <1>0, <2>1, AccountSame
  <2>4. NoLostWakeup' /\ Attachment' /\ Pointers'
    BY <1>0, <2>1 DEF NoLostWakeup, Ready, Attachment, Pointers, Committing
  <2>5. QED
    BY <2>2, <2>3, <2>4 DEF Inv
<1>9. CASE UNCHANGED vars
  <2>1. UNCHANGED <<slot, rc, p_rcidx, p_var, c_rcidx, c_var, ppc, cnt, spc, cond, reply, attached>>
    BY <1>9 DEF vars
  <2>2. CountersAccounted'
    BY <1>0, <2>1, AccountSame
  <2>3. QED
    BY <1>0, <2>1, <2>2 DEF Inv, TypeOK, NoLostWakeup, Ready, Attachment, Pointers, Committing
<1>10. QED
  BY <1>1, <1>2, <1>3, <1>4, <1>5, <1>6, <1>7, <1>8, <1>9 DEF Next, Send

(* The inductive invariant holds throughout.                               *)
THEOREM Invariance == Spec => []Inv
  BY InitInv, NextInv, PTL DEF Spec

(* No cursor or variable pointer leaves the buffer, and no counter goes    *)
(* below zero or above the number of consumers, although the number is     *)
(* read without the lock (replicate.c:111).                                *)
THEOREM TypeCorrect == Spec => []TypeOK
<1>1. Inv => TypeOK
  BY DEF Inv
<1>2. QED
  BY <1>1, Invariance, PTL

(* A counter is never lower than the number of attached consumers that     *)
(* have still to read the unit, and nobody sleeps while what it waits for  *)
(* is there, whoever leaves at whatever moment.                            *)
THEOREM RingCorrect == Spec => []RingInv
<1>1. Inv => RingInv
  BY AccountedBounds DEF Inv, RingInv
<1>2. QED
  BY <1>1, Invariance, PTL

-----------------------------------------------------------------------------
(* A commit that returns goes on to a slot that no attached consumer has   *)
(* reached or has still to read                                            *)
LEMMA PutGoesToFreeSlot ==
  ASSUME Inv, Inv', [Next]_vars, ppc # "idle", ppc' = "idle"
  PROVE  /\ Put
         /\ p_rcidx' = Succ(p_rcidx) /\ p_var' = Succ(p_rcidx)
         /\ \A c \in attached : c_rcidx[c] # Succ(p_rcidx)
         /\ \A c \in attached : ~ Between(c_rcidx[c], Succ(p_rcidx), p_rcidx)
         /\ spc' = WokenServices
         /\ UNCHANGED <<slot, c_rcidx, cond, reply, attached>>
<1>0. /\ TypeOK /\ TypeOK' /\ CountersAccounted /\ Pointers /\ attached # {}
      /\ p_rcidx \in Slots /\ p_var \in Slots
  BY SomebodyStays DEF Inv, TypeOK
<1>1. Put
  BY DEF Next, vars, Write, CallPut, SpuriousWakeup, Request, Send, SendUnit, SendSorry,
         SendWait, Leave, WokenProducer, prod
<1>2. /\ rc'[Succ(p_rcidx)] = 0 /\ p_rcidx' = Succ(p_rcidx)
      /\ p_var' = Succ(p_rcidx)
      /\ spc' = WokenServices
      /\ UNCHANGED <<slot, c_rcidx, cond, reply, attached>>
  BY <1>0, <1>1, AdvanceIsSucc
     DEF Put, PutEnter, PutRecheck, PutLoop, Pointers, Committing, cursors
<1>3. PICK K \in [Slots -> SUBSET Consumers] : PutAccount(K)
  BY <1>0, <1>1, AccountOnEntry, AccountOnRecheck DEF Put
<1>4. \A c \in attached : /\ c_rcidx[c] # Succ(p_rcidx)
                          /\ ~ Between(c_rcidx[c], Succ(p_rcidx), p_rcidx)
  BY <1>0, <1>2, <1>3, PutSucceeds
<1>5. QED
  BY <1>1, <1>2, <1>4

(* The unit given to the application to write is none that an attached     *)
(* consumer has still to read, for every size of the buffer and whoever    *)
(* leaves.                                                                 *)
THEOREM WritesApart == Spec => NoWriteUnderRead
<1>1. Inv /\ Inv' /\ [Next]_vars =>
        [ppc # "idle" /\ ppc' = "idle" =>
           \A c \in attached : ~ Between(c_rcidx[c], p_var', p_rcidx)]_vars
  <2> SUFFICES ASSUME Inv, Inv', [Next]_vars, ppc # "idle", ppc' = "idle"
               PROVE  \A c \in attached : ~ Between(c_rcidx[c], p_var', p_rcidx)
    OBVIOUS
  <2>1. QED
    BY PutGoesToFreeSlot
<1>2. QED
  BY <1>1, Invariance, PTL DEF Spec, NoWriteUnderRead

-----------------------------------------------------------------------------
(* The queue of the units in sl from c up to p, oldest first               *)
CountOf(c, p) == IF c <= p THEN p - c ELSE Du + p - c
At(c, i) == IF c + i - 1 < Du THEN c + i - 1 ELSE c + i - 1 - Du
QueueOf(sl, c, p) == [i \in 1 .. CountOf(c, p) |-> sl[At(c, i)]]

(* It is a sequence of units, and shorter than the buffer                  *)
LEMMA QueueSeq ==
  ASSUME NEW sl \in [Slots -> Value], NEW c \in Slots, NEW p \in Slots
  PROVE  /\ CountOf(c, p) \in 0 .. Du - 1
         /\ QueueOf(sl, c, p) \in Seq(Value)
         /\ Len(QueueOf(sl, c, p)) = CountOf(c, p)
         /\ \A i \in 1 .. CountOf(c, p) : /\ At(c, i) \in Slots
                                          /\ Between(c, At(c, i), p)
                                          /\ QueueOf(sl, c, p)[i] = sl[At(c, i)]
<1>1. CountOf(c, p) \in 0 .. Du - 1
  BY DEF CountOf, Slots
<1>2. \A i \in 1 .. CountOf(c, p) : At(c, i) \in Slots /\ Between(c, At(c, i), p)
  BY DEF CountOf, At, Slots, Between
<1>3. QueueOf(sl, c, p) \in [1 .. CountOf(c, p) -> Value]
  BY <1>2 DEF QueueOf
<1>4. /\ QueueOf(sl, c, p) \in Seq(Value)
      /\ Len(QueueOf(sl, c, p)) = CountOf(c, p)
  BY <1>1, <1>3
<1>5. QED
  BY <1>1, <1>2, <1>4 DEF QueueOf

(* Moving the producer's cursor on appends its unit                        *)
LEMMA QueuePut ==
  ASSUME NEW sl \in [Slots -> Value], NEW c \in Slots, NEW p \in Slots, Succ(p) # c
  PROVE  /\ CountOf(c, p) < Du - 1
         /\ QueueOf(sl, c, Succ(p)) = Append(QueueOf(sl, c, p), sl[p])
<1> DEFINE n == CountOf(c, p)
           q == QueueOf(sl, c, p)
           r == QueueOf(sl, c, Succ(p))
<1>1. Succ(p) \in Slots /\ sl[p] \in Value
  BY SuccType
<1>2. /\ n < Du - 1 /\ n \in Nat
      /\ CountOf(c, Succ(p)) = n + 1
      /\ At(c, n + 1) = p
  BY DEF CountOf, At, Succ, Slots
<1>3. /\ q \in Seq(Value) /\ Len(q) = n
      /\ \A i \in 1 .. n : q[i] = sl[At(c, i)]
  BY QueueSeq
<1>4. /\ r \in Seq(Value) /\ Len(r) = n + 1
      /\ \A i \in 1 .. n + 1 : r[i] = sl[At(c, i)]
  <2>1. /\ r \in Seq(Value) /\ Len(r) = CountOf(c, Succ(p))
        /\ \A i \in 1 .. CountOf(c, Succ(p)) : r[i] = sl[At(c, i)]
    BY <1>1, QueueSeq
  <2> HIDE DEF n, r
  <2>2. QED
    BY <1>2, <2>1
<1> HIDE DEF n, q, r
<1>5. /\ Append(q, sl[p]) \in Seq(Value)
      /\ Len(Append(q, sl[p])) = n + 1
      /\ \A i \in 1 .. n : Append(q, sl[p])[i] = q[i]
      /\ Append(q, sl[p])[n + 1] = sl[p]
  BY <1>1, <1>3, AppendProperties
<1>6. \A i \in 1 .. n + 1 : r[i] = Append(q, sl[p])[i]
  <2>1. TAKE i \in 1 .. n + 1
  <2>2. CASE i = n + 1
    BY <2>2, <1>2, <1>4, <1>5
  <2>3. CASE i # n + 1
    <3>1. i \in 1 .. n
      BY <2>3, <1>2
    <3>2. QED
      BY <3>1, <1>3, <1>4, <1>5
  <2>4. QED
    BY <2>2, <2>3
<1>7. r = Append(q, sl[p])
  BY <1>4, <1>5, <1>6, SeqEqual
<1>8. QED
  BY <1>2, <1>7 DEF n, q, r

(* Moving the consumers' cursor on takes the oldest unit                   *)
LEMMA QueueSend ==
  ASSUME NEW sl \in [Slots -> Value], NEW c \in Slots, NEW p \in Slots, p # c
  PROVE  /\ QueueOf(sl, c, p) # << >>
         /\ Head(QueueOf(sl, c, p)) = sl[c]
         /\ QueueOf(sl, Succ(c), p) = Tail(QueueOf(sl, c, p))
<1> DEFINE n == CountOf(c, p)
           q == QueueOf(sl, c, p)
           r == QueueOf(sl, Succ(c), p)
<1>1. Succ(c) \in Slots
  BY SuccType
<1>2. /\ n \in Nat \ {0}
      /\ CountOf(Succ(c), p) = n - 1
      /\ At(c, 1) = c
      /\ \A i \in 1 .. n - 1 : At(Succ(c), i) = At(c, i + 1)
  BY DEF CountOf, At, Succ, Slots
<1>3. /\ q \in Seq(Value) /\ Len(q) = n
      /\ \A i \in 1 .. n : q[i] = sl[At(c, i)]
  BY QueueSeq
<1>4. /\ r \in Seq(Value) /\ Len(r) = n - 1
      /\ \A i \in 1 .. n - 1 : r[i] = sl[At(Succ(c), i)]
  <2>1. /\ r \in Seq(Value) /\ Len(r) = CountOf(Succ(c), p)
        /\ \A i \in 1 .. CountOf(Succ(c), p) : r[i] = sl[At(Succ(c), i)]
    BY <1>1, QueueSeq
  <2> HIDE DEF n, r
  <2>2. QED
    BY <1>2, <2>1
<1> HIDE DEF n, q, r
<1>5. q # << >> /\ q[1] = sl[c]
  BY <1>2, <1>3
<1>6. /\ Tail(q) \in Seq(Value) /\ Len(Tail(q)) = n - 1
      /\ \A i \in 1 .. n - 1 : Tail(q)[i] = q[i + 1]
  BY <1>3, <1>5, HeadTailProperties
<1>7. \A i \in 1 .. n - 1 : r[i] = Tail(q)[i]
  BY <1>2, <1>3, <1>4, <1>6
<1>8. r = Tail(q)
  BY <1>4, <1>6, <1>7, SeqEqual
<1>9. Head(q) = sl[c]
  BY <1>5
<1>10. QED
  BY <1>5, <1>8, <1>9 DEF q, r

(* A write to the unit the producer works on changes none in the queue     *)
LEMMA QueueWrite ==
  ASSUME NEW sl \in [Slots -> Value], NEW c \in Slots, NEW p \in Slots, NEW v \in Value
  PROVE  QueueOf([sl EXCEPT ![p] = v], c, p) = QueueOf(sl, c, p)
<1>1. ~ Between(c, p, p)
  BY BetweenSelf
<1>2. \A i \in 1 .. CountOf(c, p) : At(c, i) \in Slots /\ Between(c, At(c, i), p)
  BY QueueSeq
<1>3. \A i \in 1 .. CountOf(c, p) : [sl EXCEPT ![p] = v][At(c, i)] = sl[At(c, i)]
  BY <1>1, <1>2
<1>4. QED
  BY <1>3 DEF QueueOf

(* What the refinement mapping shows of the units each consumer has still  *)
(* to read, and of its request                                             *)
Pendings == [c \in Consumers |-> IF c \in attached THEN Pending(c) ELSE << >>]
Asked == [c \in Consumers |-> IF spc[c] = "idle" THEN "none"
                              ELSE IF cond[c] THEN "cond_get" ELSE "get"]

(* What a consumer has still to read is the queue from its cursor on       *)
LEMMA PendingIs ==
  ASSUME NEW c
  PROVE  /\ Pending(c) = QueueOf(slot, c_rcidx[c], p_rcidx)
         /\ Pending(c)' = QueueOf(slot', c_rcidx'[c], p_rcidx')
  BY DEF Pending, Count, QueueOf, CountOf, At

(* It changes only with the units, the cursors and who is attached         *)
LEMMA PendingsSame ==
  ASSUME UNCHANGED <<slot, p_rcidx, c_rcidx, attached>>
  PROVE  Pendings' = Pendings
  BY DEF Pendings, Pending, Count

-----------------------------------------------------------------------------
(* The empty ring is the empty multicast                                   *)
LEMMA InitRefines == Init => Cast!Init
<1> SUFFICES ASSUME Init
             PROVE  Cast!Init
  OBVIOUS
<1>1. 0 \in Slots
  BY DEF Slots
<1>2. Pendings = [c \in Consumers |-> << >>]
  BY DEF Init, Pendings, Pending, Count
<1>3. slot[p_rcidx] \in Value
  BY <1>1 DEF Init
<1>4. QED
  BY <1>2, <1>3 DEF Init, Cast!Init, NoReply, Cast!NoReply, Pendings

(* Every step of the ring is a step of the multicast, or is not seen       *)
(* there: a unit becomes pending for the attached consumers when bc_commit *)
(* returns, and for each it ends when its service thread sends the unit.   *)
LEMMA StepRefines == Inv /\ Inv' /\ [Next]_vars => [Cast!Next]_(Cast!avars)
<1> SUFFICES ASSUME Inv, Inv', [Next]_vars
             PROVE  Cast!Next \/ UNCHANGED Cast!avars
  OBVIOUS
<1>0. /\ TypeOK /\ CountersAccounted /\ Attachment /\ Pointers
      /\ slot \in [Slots -> Value]
      /\ p_rcidx \in Slots /\ c_rcidx \in [Consumers -> Slots]
      /\ p_rcidx' \in Slots /\ slot' \in [Slots -> Value]
      /\ ppc \in {"idle", "lock", "wait", "recheck"}
      /\ spc \in [Consumers -> {"idle", "lock", "wait"}]
      /\ cond \in [Consumers -> BOOLEAN]
      /\ reply \in [Consumers -> {NoReply, Sorry} \cup Answers]
      /\ attached \subseteq Consumers
  BY DEF Inv, TypeOK
<1>1. CASE Write
  <2>1. PICK v \in Value : slot' = [slot EXCEPT ![p_rcidx] = v]
    BY <1>0, <1>1 DEF Write, Pointers, Committing
  <2>2. /\ UNCHANGED <<p_rcidx, c_rcidx, ppc, spc, cond, reply, attached>> /\ ppc = "idle"
    BY <1>1 DEF Write, prod, cursors
  <2>3. ASSUME NEW c \in Consumers
        PROVE  Pending(c)' = Pending(c)
    <3>1. Pending(c)' = QueueOf(slot', c_rcidx[c], p_rcidx)
      BY <2>2, PendingIs
    <3>2. QueueOf([slot EXCEPT ![p_rcidx] = v], c_rcidx[c], p_rcidx)
            = QueueOf(slot, c_rcidx[c], p_rcidx)
      <4>1. c_rcidx[c] \in Slots
        BY <1>0
      <4>2. QED
        BY <1>0, <4>1, QueueWrite
    <3>3. QueueOf(slot', c_rcidx[c], p_rcidx) = QueueOf(slot, c_rcidx[c], p_rcidx)
      BY <2>1, <3>2
    <3>4. QED
      BY <3>1, <3>3, PendingIs
  <2>4. Pendings' = Pendings
    BY <2>2, <2>3 DEF Pendings
  <2>5. Cast!Write
    BY <1>0, <2>2, <2>4 DEF Cast!Write, Pendings
  <2>6. QED
    BY <2>5 DEF Cast!Next
<1>2. CASE CallPut
  <2>1. /\ UNCHANGED <<slot, p_rcidx, c_rcidx, spc, cond, reply, attached>>
        /\ ppc = "idle" /\ ppc' = "lock"
    BY <1>2 DEF CallPut, cursors
  <2>2. Pendings' = Pendings
    BY <2>1, PendingsSame
  <2>3. Cast!BeginCommit
    BY <2>1, <2>2 DEF Cast!BeginCommit, Pendings
  <2>4. QED
    BY <2>3 DEF Cast!Next
<1>3. CASE Put
  <2>1. /\ ppc # "idle"
        /\ spc' = WokenServices
        /\ UNCHANGED <<slot, c_rcidx, cond, reply, attached>>
        /\ \/ ppc' = "idle"
           \/ ppc' = "wait" /\ p_rcidx' = p_rcidx
    BY <1>3 DEF Put, PutEnter, PutRecheck, PutLoop, cursors
  <2>2. Asked' = Asked
    BY <1>0, <2>1 DEF Asked, WokenServices
  <2>3. CASE ppc' = "idle"
    <3>0. slot \in [Slots -> Value] /\ p_rcidx \in Slots
      BY <1>0
    <3>1. p_rcidx' = Succ(p_rcidx) /\ \A c \in attached : c_rcidx[c] # Succ(p_rcidx)
      BY <2>1, <2>3, PutGoesToFreeSlot
    <3>2. ASSUME NEW c \in attached
          PROVE  /\ Len(Pending(c)) < Du - 1
                 /\ Pending(c)' = Append(Pending(c), slot[p_rcidx])
      <4>1. c_rcidx[c] \in Slots /\ Succ(p_rcidx) # c_rcidx[c]
        BY <1>0, <3>1
      <4>2. Pending(c)' = QueueOf(slot, c_rcidx[c], Succ(p_rcidx))
        BY <2>1, <3>1, PendingIs
      <4>3. /\ CountOf(c_rcidx[c], p_rcidx) < Du - 1
            /\ QueueOf(slot, c_rcidx[c], Succ(p_rcidx))
                 = Append(QueueOf(slot, c_rcidx[c], p_rcidx), slot[p_rcidx])
        BY <3>0, <4>1, QueuePut
      <4>4. Len(QueueOf(slot, c_rcidx[c], p_rcidx)) = CountOf(c_rcidx[c], p_rcidx)
        BY <3>0, <4>1, QueueSeq
      <4>5. QED
        BY <4>2, <4>3, <4>4, PendingIs
    <3>3. \A c \in attached : Len(Pendings[c]) < Du - 1
      BY <1>0, <3>2 DEF Pendings
    <3>4. Pendings' = [c \in Consumers |->
                         IF c \in attached THEN Append(Pendings[c], slot[p_rcidx]) ELSE << >>]
      BY <2>1, <3>2 DEF Pendings
    <3>5. slot'[p_rcidx'] \in Value
      BY <1>0
    <3>6. Cast!EndCommit
      BY <2>1, <2>2, <2>3, <3>3, <3>4, <3>5 DEF Cast!EndCommit, Asked, Pendings
    <3>7. QED
      BY <3>6 DEF Cast!Next
  <2>4. CASE ppc' = "wait" /\ p_rcidx' = p_rcidx
    <3>1. Pendings' = Pendings
      BY <2>1, <2>4, PendingsSame
    <3>2. QED
      BY <2>1, <2>2, <2>4, <3>1 DEF Cast!avars, Asked, Pendings
  <2>5. QED
    BY <2>1, <2>3, <2>4
<1>4. CASE SpuriousWakeup
  <2>1. /\ UNCHANGED <<slot, p_rcidx, c_rcidx, cond, reply, attached>>
        /\ ppc' = "idle" <=> ppc = "idle"
        /\ \/ spc' = spc
           \/ \E c \in Consumers : spc[c] = "wait" /\ spc' = [spc EXCEPT ![c] = "lock"]
    BY <1>4 DEF SpuriousWakeup, prod, cursors
  <2>2. Asked' = Asked
    BY <1>0, <2>1 DEF Asked
  <2>3. Pendings' = Pendings
    BY <2>1, PendingsSame
  <2>4. QED
    BY <2>1, <2>2, <2>3 DEF Cast!avars, Asked, Pendings
<1>5. ASSUME NEW c \in Consumers, Request(c)
      PROVE  Cast!Next
  <2>1. /\ UNCHANGED <<slot, p_rcidx, c_rcidx, ppc, attached>>
        /\ c \in attached
        /\ reply' = [reply EXCEPT ![c] = NoReply]
        /\ spc' = [spc EXCEPT ![c] = "lock"] /\ spc[c] = "idle"
    BY <1>5 DEF Request, prod, cursors
  <2>2. PICK b \in BOOLEAN : cond' = [cond EXCEPT ![c] = b]
    BY <1>5 DEF Request
  <2>3. Pendings' = Pendings
    BY <2>1, PendingsSame
  <2>4. Asked' = [Asked EXCEPT ![c] = IF b THEN "cond_get" ELSE "get"]
    BY <1>0, <2>1, <2>2 DEF Asked
  <2>5. Asked[c] = "none"
    BY <2>1 DEF Asked
  <2>6. Cast!BeginGet(c)
    BY <2>1, <2>3, <2>4, <2>5
       DEF Cast!BeginGet, Cast!Gets, Asked, Pendings, NoReply, Cast!NoReply
  <2>7. QED
    BY <2>6 DEF Cast!Next
<1>6. ASSUME NEW c \in Consumers, SendUnit(c)
      PROVE  Cast!Next
  <2>1. /\ spc[c] = "lock" /\ p_rcidx # c_rcidx[c]
        /\ c_rcidx' = [c_rcidx EXCEPT ![c] = Succ(c_rcidx[c])]
        /\ ppc' = WokenProducer
        /\ spc' = [WokenServices EXCEPT ![c] = "idle"]
        /\ UNCHANGED <<slot, p_rcidx, cond, attached>>
        /\ reply' = [reply EXCEPT ![c] =
                        [preamble |-> IF cond[c] THEN "preamble" ELSE "none",
                         data     |-> <<slot[c_rcidx[c]]>>]]
    BY <1>0, <1>6 DEF SendUnit, Ready, Pointers
  <2>2. c \in attached /\ c_rcidx[c] \in Slots
    BY <1>0, <2>1 DEF Attachment
  <2>3. /\ Pending(c) # << >> /\ Head(Pending(c)) = slot[c_rcidx[c]]
        /\ Pending(c)' = Tail(Pending(c))
    <3>1. Pending(c)' = QueueOf(slot, Succ(c_rcidx[c]), p_rcidx)
      BY <1>0, <2>1, PendingIs
    <3>2. QED
      BY <1>0, <2>1, <2>2, <3>1, PendingIs, QueueSend
  <2>4. ASSUME NEW d \in Consumers, d # c
        PROVE  Pending(d)' = Pending(d)
    <3>1. c_rcidx'[d] = c_rcidx[d]
      BY <1>0, <2>1, <2>4
    <3>2. QED
      BY <2>1, <3>1, PendingIs
  <2>5. Pendings' = [Pendings EXCEPT ![c] = Tail(Pendings[c])] /\ Pendings[c] = Pending(c)
    BY <2>1, <2>2, <2>3, <2>4 DEF Pendings
  <2>6. /\ Asked' = [Asked EXCEPT ![c] = "none"]
        /\ Asked[c] = IF cond[c] THEN "cond_get" ELSE "get"
    BY <1>0, <2>1 DEF Asked, WokenServices
  <2>7. ppc' = "idle" <=> ppc = "idle"
    BY <2>1 DEF WokenProducer
  <2>8. Asked[c] \in Cast!Gets /\ (Asked[c] = "cond_get" <=> cond[c])
    BY <1>0, <2>6 DEF Cast!Gets
  <2>9. reply' = [reply EXCEPT ![c] =
                    [preamble |-> IF Asked[c] = "cond_get" THEN "preamble" ELSE "none",
                     data     |-> <<Head(Pendings[c])>>]]
    BY <2>1, <2>3, <2>5, <2>8
  <2>10. Pendings[c] # << >>
    BY <2>3, <2>5
  <2>11. Cast!Deliver(c)
    BY <2>1, <2>5, <2>6, <2>7, <2>8, <2>9, <2>10 DEF Cast!Deliver, Asked, Pendings
  <2>12. QED
    BY <2>11 DEF Cast!Next
<1>7. ASSUME NEW c \in Consumers, SendSorry(c)
      PROVE  Cast!Next
  <2>1. /\ spc[c] = "lock" /\ cond[c] /\ ~ Ready(c)
        /\ reply' = [reply EXCEPT ![c] = Sorry]
        /\ spc' = [spc EXCEPT ![c] = "idle"]
        /\ UNCHANGED <<slot, p_rcidx, c_rcidx, ppc, cond, attached>>
    BY <1>7 DEF SendSorry, prod, cursors
  <2>2. c \in attached /\ c_rcidx[c] \in Slots
    BY <1>0, <2>1 DEF Attachment
  <2>3. p_rcidx = c_rcidx[c]
    <3>1. SUFFICES ASSUME p_rcidx # c_rcidx[c]
                   PROVE  FALSE
      OBVIOUS
    <3>2. Between(c_rcidx[c], c_rcidx[c], p_rcidx)
      BY <1>0, <2>2, <3>1, BetweenSend
    <3>3. c \in Unread(c_rcidx[c]) \cap attached
      BY <2>2, <3>1, <3>2 DEF Unread
    <3>4. PICK S \in SUBSET Consumers : S = Unread(c_rcidx[c]) \cap attached
      BY UnreadType
    <3>5. Cardinality(S) \in Nat /\ Cardinality(S) # 0
      <4>1. S # {}
        BY <3>3, <3>4
      <4>2. QED
        BY <4>1, ConsumerSets
    <3>6. rc[c_rcidx[c]] \in Cardinality(Unread(c_rcidx[c]) \cap attached)
                               .. Cardinality(Unread(c_rcidx[c]))
      BY <1>0, <2>2, <3>1, AccountedBounds DEF RcCountsReaders
    <3>7. rc[c_rcidx[c]] # 0
      BY <3>4, <3>5, <3>6
    <3>8. QED
      BY <2>1, <3>1, <3>7 DEF Ready
  <2>4. Pendings[c] = << >> /\ Pendings' = Pendings
    <3>1. CountOf(c_rcidx[c], p_rcidx) = 0
      BY <1>0, <2>2, <2>3 DEF CountOf, Slots
    <3>2. Pending(c) = << >>
      BY <3>1, PendingIs DEF QueueOf
    <3>3. QED
      BY <2>1, <2>2, <3>2, PendingsSame DEF Pendings
  <2>5. Asked' = [Asked EXCEPT ![c] = "none"] /\ Asked[c] = "cond_get"
    BY <1>0, <2>1 DEF Asked
  <2>6. Cast!Refuse(c)
    BY <2>1, <2>4, <2>5 DEF Cast!Refuse, Asked, Pendings, Sorry, Cast!Sorry
  <2>7. QED
    BY <2>6 DEF Cast!Next
<1>8. ASSUME NEW c \in Consumers, SendWait(c)
      PROVE  UNCHANGED Cast!avars
  <2>1. /\ spc[c] = "lock" /\ spc' = [spc EXCEPT ![c] = "wait"]
        /\ UNCHANGED <<slot, p_rcidx, c_rcidx, ppc, cond, reply, attached>>
    BY <1>8 DEF SendWait, prod, cursors
  <2>2. Asked' = Asked
    BY <1>0, <2>1 DEF Asked
  <2>3. Pendings' = Pendings
    BY <2>1, PendingsSame
  <2>4. QED
    BY <2>1, <2>2, <2>3 DEF Cast!avars, Asked, Pendings
<1>9. ASSUME NEW c \in Consumers, Leave(c)
      PROVE  Cast!Next
  <2>1. /\ c \in attached /\ spc[c] = "idle" /\ attached' = attached \ {c}
        /\ UNCHANGED <<slot, p_rcidx, c_rcidx, ppc, spc, cond, reply>>
    BY <1>9 DEF Leave, prod, cursors
  <2>2. \A d : Pending(d)' = Pending(d)
    BY <2>1 DEF Pending, Count
  <2>3. Pendings' = [Pendings EXCEPT ![c] = << >>]
    BY <2>1, <2>2 DEF Pendings
  <2>4. Asked' = Asked /\ Asked[c] = "none"
    BY <2>1 DEF Asked
  <2>5. Cast!Leave(c)
    BY <2>1, <2>3, <2>4 DEF Cast!Leave, Asked, Pendings
  <2>6. QED
    BY <2>5 DEF Cast!Next
<1>10. CASE UNCHANGED vars
  <2>1. UNCHANGED <<slot, p_rcidx, c_rcidx, ppc, spc, cond, reply, attached>>
    BY <1>10 DEF vars
  <2>2. Pendings' = Pendings
    BY <2>1, PendingsSame
  <2>3. QED
    BY <2>1, <2>2 DEF Cast!avars, Pendings
<1>11. QED
  BY <1>1, <1>2, <1>3, <1>4, <1>5, <1>6, <1>7, <1>8, <1>9, <1>10 DEF Next, Send

(* The ring implements the multicast: every unit reaches every consumer    *)
(* that stays, once and in order, and the unit being written reaches none; *)
(* for any number of units and consumers, whoever leaves when.             *)
THEOREM Refinement == Spec => CastSpec
<1>1. Inv /\ Inv' /\ [Next]_vars => [Cast!Next]_(Cast!avars)
  BY StepRefines
<1>2. QED
  BY <1>1, InitRefines, Invariance, PTL DEF Spec, CastSpec, Cast!Spec
=============================================================================
