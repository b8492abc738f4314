--------------------------- MODULE ShutdownProofs ---------------------------
(***************************************************************************)
(* Proofs about the end of the threads (libdsys/threads.c, bc_final), for  *)
(* any number of processes, any bound on the requests under way and any    *)
(* set of processes whose thread manager may wake without a signal.        *)
(*                                                                         *)
(* The inductive invariant says what nst counts, what a service thread     *)
(* that left its loop has seen, and what the manager and the main thread   *)
(* have waited for.                                                        *)
(***************************************************************************)
EXTENDS Shutdown, FiniteSetTheorems, TLAPS

USE ShutdownAssumption

(* The service threads of p that nst has still to count down               *)
Alive(p) == {q \in Others(p) : service[p][q] \in {"recv", "eof"}}

NstCountsAlive == \A p \in Ranks : nst[p] = Cardinality(Alive(p))

Started == \A p \in Ranks : \A q \in Others(p) :
             service[p][q] = "none" <=> mgr[p] = "start"

(* A service thread leaves its loop at the end of a stream that was read   *)
(* to its last request                                                     *)
StreamEnded == \A p \in Ranks : \A q \in Others(p) :
                 service[p][q] \in {"eof", "exited"} => closed[q][p] /\ requests[q][p] = 0

ClosedInFinal == \A p, q \in Ranks : closed[p][q] => main[p] # "run"

(* bc_join: the main thread goes on after the manager has exited           *)
Joined == \A p \in Ranks : main[p] = "final" => mgr[p] = "exited"

(* Without a spurious wakeup it is the last service thread that wakes the  *)
(* manager                                                                 *)
WokenByLast == \A p \in Ranks \ Spurious : mgr[p] \in {"woken", "exited"} => nst[p] = 0

Inv == /\ TypeOK /\ NstCountsAlive /\ Started /\ StreamEnded
       /\ ClosedInFinal /\ Joined /\ WokenByLast

-----------------------------------------------------------------------------
(* A process has Size - 1 others                                           *)
LEMMA OthersCard ==
  ASSUME NEW p \in Ranks
  PROVE  /\ IsFiniteSet(Others(p))
         /\ Cardinality(Others(p)) = Size - 1
<1>1. IsFiniteSet(Ranks) /\ Cardinality(Ranks) = Size
  BY FS_Interval DEF Ranks
<1>2. QED
  BY <1>1, FS_RemoveElement DEF Others

(* The threads alive are finitely many, at most Size - 1                   *)
LEMMA AliveCard ==
  ASSUME NEW p \in Ranks
  PROVE  /\ IsFiniteSet(Alive(p))
         /\ Cardinality(Alive(p)) \in 0 .. Size - 1
<1>1. Alive(p) \in SUBSET Others(p)
  BY DEF Alive
<1>2. IsFiniteSet(Alive(p)) /\ Cardinality(Alive(p)) <= Size - 1
  BY <1>1, OthersCard, FS_Subset
<1>3. Cardinality(Alive(p)) \in Nat
  BY <1>2, FS_CardinalityType
<1>4. QED
  BY <1>2, <1>3

(* A step that starts or ends no service thread leaves the count right     *)
LEMMA AliveSame ==
  ASSUME \A p \in Ranks : \A q \in Others(p) :
           service'[p][q] \in {"recv", "eof"} <=> service[p][q] \in {"recv", "eof"},
         NstCountsAlive, nst' = nst
  PROVE  NstCountsAlive'
<1>1. \A p \in Ranks : Alive(p)' = Alive(p)
  BY DEF Alive
<1>2. QED
  BY <1>1 DEF NstCountsAlive

-----------------------------------------------------------------------------
(* Before any thread is started the invariant holds                        *)
LEMMA InitInv == Init => Inv
<1> SUFFICES ASSUME Init
             PROVE  Inv
  OBVIOUS
<1>1. TypeOK
  BY DEF Init, TypeOK
<1>2. NstCountsAlive
  <2>1. \A p \in Ranks : Alive(p) = {}
    BY DEF Init, Alive, Others
  <2>2. QED
    BY <2>1, FS_EmptySet DEF Init, NstCountsAlive
<1>3. Started /\ StreamEnded /\ ClosedInFinal /\ Joined /\ WokenByLast
  BY DEF Init, Started, StreamEnded, ClosedInFinal, Joined, WokenByLast, Others
<1>4. QED
  BY <1>1, <1>2, <1>3 DEF Inv

(* The manager starts one service thread for each other process            *)
LEMMA StartInv ==
  ASSUME Inv, NEW p \in Ranks, StartServices(p)
  PROVE  Inv'
<1>0. /\ TypeOK /\ NstCountsAlive /\ Started /\ StreamEnded
      /\ ClosedInFinal /\ Joined /\ WokenByLast
      /\ nst \in [Ranks -> 0 .. Size - 1]
      /\ mgr \in [Ranks -> {"start", "wait", "woken", "exited"}]
      /\ service \in [Ranks -> [Ranks -> {"none", "recv", "eof", "exited"}]]
  BY DEF Inv, TypeOK
<1>1. /\ mgr[p] = "start"
      /\ nst' = [nst EXCEPT ![p] = Size - 1]
      /\ service' = [service EXCEPT ![p] = [q \in Ranks |-> IF q = p THEN "none" ELSE "recv"]]
      /\ mgr' = [mgr EXCEPT ![p] = "wait"]
      /\ UNCHANGED <<main, next, requests, closed>>
  BY DEF StartServices
<1>2. TypeOK'
  BY <1>0, <1>1 DEF TypeOK
<1>3. NstCountsAlive'
  <2>1. Alive(p)' = Others(p)
    BY <1>0, <1>1 DEF Alive, Others
  <2>2. \A q \in Ranks \ {p} : Alive(q)' = Alive(q)
    BY <1>0, <1>1 DEF Alive
  <2>3. QED
    BY <1>0, <1>1, <2>1, <2>2, OthersCard DEF NstCountsAlive
<1>4. Started' /\ StreamEnded'
  BY <1>0, <1>1 DEF Started, StreamEnded, Others
<1>5. ClosedInFinal' /\ Joined' /\ WokenByLast'
  BY <1>0, <1>1 DEF ClosedInFinal, Joined, WokenByLast
<1>6. QED
  BY <1>2, <1>3, <1>4, <1>5 DEF Inv

(* A service thread counts itself down; the last one finds the count at    *)
(* zero                                                                    *)
LEMMA ServiceExitInv ==
  ASSUME Inv, NEW p \in Ranks, NEW q \in Others(p), ServiceExit(p, q)
  PROVE  Inv'
<1>0. /\ TypeOK /\ NstCountsAlive /\ Started /\ StreamEnded
      /\ ClosedInFinal /\ Joined /\ WokenByLast
      /\ nst \in [Ranks -> 0 .. Size - 1]
      /\ mgr \in [Ranks -> {"start", "wait", "woken", "exited"}]
      /\ service \in [Ranks -> [Ranks -> {"none", "recv", "eof", "exited"}]]
      /\ q \in Ranks /\ q # p
  BY DEF Inv, TypeOK, Others
<1>1. /\ service[p][q] = "eof"
      /\ nst' = [nst EXCEPT ![p] = nst[p] - 1]
      /\ mgr' = IF nst'[p] = 0 /\ mgr[p] = "wait" THEN [mgr EXCEPT ![p] = "woken"] ELSE mgr
      /\ service' = [service EXCEPT ![p][q] = "exited"]
      /\ UNCHANGED <<main, next, requests, closed>>
  BY DEF ServiceExit, LastOne
<1>2. NstCountsAlive'
  <2>1. Alive(p)' = Alive(p) \ {q} /\ q \in Alive(p)
    BY <1>0, <1>1 DEF Alive
  <2>2. \A r \in Ranks \ {p} : Alive(r)' = Alive(r)
    BY <1>0, <1>1 DEF Alive
  <2>3. Cardinality(Alive(p)') = nst[p] - 1
    <3>1. Cardinality(Alive(p) \ {q}) = Cardinality(Alive(p)) - 1
      BY <2>1, AliveCard, FS_RemoveElement
    <3>2. QED
      BY <1>0, <2>1, <3>1 DEF NstCountsAlive
  <2>4. nst'[p] = nst[p] - 1 /\ \A r \in Ranks \ {p} : nst'[r] = nst[r]
    BY <1>0, <1>1
  <2>5. ASSUME NEW r \in Ranks
        PROVE  nst'[r] = Cardinality(Alive(r)')
    <3>1. CASE r = p
      BY <3>1, <2>3, <2>4
    <3>2. CASE r # p
      BY <3>2, <1>0, <2>2, <2>4 DEF NstCountsAlive
    <3>3. QED
      BY <3>1, <3>2
  <2>6. QED
    BY <2>5 DEF NstCountsAlive
<1>3. nst[p] > 0
  <2>1. q \in Alive(p)
    BY <1>0, <1>1 DEF Alive
  <2>2. Cardinality(Alive(p)) # 0
    BY <2>1, AliveCard, FS_EmptySet
  <2>3. QED
    BY <1>0, <2>2 DEF NstCountsAlive
<1>4. TypeOK'
  <2>1. nst' \in [Ranks -> 0 .. Size - 1]
    BY <1>0, <1>1, <1>3
  <2>2. mgr' \in [Ranks -> {"start", "wait", "woken", "exited"}]
    BY <1>0, <1>1
  <2>3. service' \in [Ranks -> [Ranks -> {"none", "recv", "eof", "exited"}]]
    BY <1>0, <1>1
  <2>4. QED
    BY <1>0, <1>1, <2>1, <2>2, <2>3 DEF TypeOK
<1>5. \A r \in Ranks : mgr'[r] = mgr[r] \/ (r = p /\ mgr[p] = "wait" /\ mgr'[p] = "woken"
                                             /\ nst'[p] = 0)
  BY <1>0, <1>1
<1>6. Started'
  BY <1>0, <1>1, <1>5 DEF Started, Others
<1>7. StreamEnded'
  BY <1>0, <1>1 DEF StreamEnded, Others
<1>8. ClosedInFinal' /\ Joined'
  BY <1>0, <1>1, <1>5 DEF ClosedInFinal, Joined
<1>9. WokenByLast'
  <2> SUFFICES ASSUME NEW r \in Ranks \ Spurious, mgr'[r] \in {"woken", "exited"}
               PROVE  nst'[r] = 0
    BY DEF WokenByLast
  <2>1. CASE r = p
    BY <2>1, <1>0, <1>3, <1>5 DEF WokenByLast
  <2>2. CASE r # p
    BY <2>2, <1>0, <1>1, <1>5 DEF WokenByLast
  <2>3. QED
    BY <2>1, <2>2
<1>10. QED
  BY <1>2, <1>4, <1>6, <1>7, <1>8, <1>9 DEF Inv

(* Every step keeps the invariant.                                         *)
LEMMA NextInv == Inv /\ [Next]_vars => Inv'
<1> SUFFICES ASSUME Inv, [Next]_vars
             PROVE  Inv'
  OBVIOUS
<1>0. /\ TypeOK /\ NstCountsAlive /\ Started /\ StreamEnded
      /\ ClosedInFinal /\ Joined /\ WokenByLast
      /\ main \in [Ranks -> {"run", "shutdown", "final"}]
      /\ next \in [Ranks -> 0 .. Size - 1]
      /\ nst \in [Ranks -> 0 .. Size - 1]
      /\ mgr \in [Ranks -> {"start", "wait", "woken", "exited"}]
      /\ service \in [Ranks -> [Ranks -> {"none", "recv", "eof", "exited"}]]
      /\ requests \in [Ranks -> [Ranks -> 0 .. MaxRequests]]
      /\ closed \in [Ranks -> [Ranks -> BOOLEAN]]
  BY DEF Inv, TypeOK
<1>1. ASSUME NEW p \in Ranks, StartServices(p)
      PROVE  Inv'
  BY <1>1, StartInv
<1>2. ASSUME NEW p \in Ranks, ManagerExit(p) \/ SpuriousWakeup(p)
      PROVE  Inv'
  <2>1. /\ \/ mgr[p] = "woken" /\ mgr' = [mgr EXCEPT ![p] = "exited"]
           \/ p \in Spurious /\ mgr[p] = "wait" /\ mgr' = [mgr EXCEPT ![p] = "woken"]
        /\ UNCHANGED <<main, next, nst, service, requests, closed>>
    BY <1>2 DEF ManagerExit, SpuriousWakeup
  <2>2. TypeOK'
    BY <1>0, <2>1 DEF TypeOK
  <2>3. NstCountsAlive'
    BY <1>0, <2>1, AliveSame
  <2>4. Started' /\ StreamEnded'
    BY <1>0, <2>1 DEF Started, StreamEnded
  <2>5. ClosedInFinal' /\ Joined' /\ WokenByLast'
    BY <1>0, <2>1 DEF ClosedInFinal, Joined, WokenByLast
  <2>6. QED
    BY <2>2, <2>3, <2>4, <2>5 DEF Inv
<1>3. ASSUME NEW p \in Ranks, NEW q \in Others(p), Serve(p, q)
      PROVE  Inv'
  <2>1. /\ service[p][q] = "recv" /\ requests[q][p] > 0
        /\ requests' = [requests EXCEPT ![q][p] = requests[q][p] - 1]
        /\ UNCHANGED <<main, next, mgr, nst, service, closed>>
        /\ p \in Ranks /\ q \in Ranks
    BY <1>3 DEF Serve, Others
  <2>2. TypeOK'
    <3>1. requests[q][p] - 1 \in 0 .. MaxRequests
      BY <1>0, <2>1
    <3>2. QED
      BY <1>0, <2>1, <3>1 DEF TypeOK
  <2>3. NstCountsAlive'
    BY <1>0, <2>1, AliveSame
  <2>4. Started' /\ StreamEnded'
    BY <1>0, <2>1 DEF Started, StreamEnded, Others
  <2>5. ClosedInFinal' /\ Joined' /\ WokenByLast'
    BY <1>0, <2>1 DEF ClosedInFinal, Joined, WokenByLast
  <2>6. QED
    BY <2>2, <2>3, <2>4, <2>5 DEF Inv
<1>4. ASSUME NEW p \in Ranks, NEW q \in Others(p), EndOfStream(p, q)
      PROVE  Inv'
  <2>1. /\ service[p][q] = "recv" /\ requests[q][p] = 0 /\ closed[q][p]
        /\ service' = [service EXCEPT ![p][q] = "eof"]
        /\ UNCHANGED <<main, next, mgr, nst, requests, closed>>
        /\ p \in Ranks /\ q \in Ranks
    BY <1>4 DEF EndOfStream, Others
  <2>2. TypeOK'
    BY <1>0, <2>1 DEF TypeOK
  <2>3. NstCountsAlive'
    <3>1. \A r \in Ranks : \A t \in Others(r) :
            service'[r][t] \in {"recv", "eof"} <=> service[r][t] \in {"recv", "eof"}
      BY <1>0, <2>1 DEF Others
    <3>2. QED
      BY <1>0, <2>1, <3>1, AliveSame
  <2>4. Started' /\ StreamEnded'
    BY <1>0, <2>1 DEF Started, StreamEnded, Others
  <2>5. ClosedInFinal' /\ Joined' /\ WokenByLast'
    BY <1>0, <2>1 DEF ClosedInFinal, Joined, WokenByLast
  <2>6. QED
    BY <2>2, <2>3, <2>4, <2>5 DEF Inv
<1>5. ASSUME NEW p \in Ranks, NEW q \in Others(p), ServiceExit(p, q)
      PROVE  Inv'
  BY <1>5, ServiceExitInv
<1>6. ASSUME NEW p \in Ranks, NEW q \in Others(p), SendRequest(p, q)
      PROVE  Inv'
  <2>1. /\ main[p] = "run" /\ requests[p][q] < MaxRequests
        /\ requests' = [requests EXCEPT ![p][q] = requests[p][q] + 1]
        /\ UNCHANGED <<main, next, mgr, nst, service, closed>>
        /\ p \in Ranks /\ q \in Ranks
    BY <1>6 DEF SendRequest, Others
  <2>2. TypeOK'
    <3>1. requests[p][q] + 1 \in 0 .. MaxRequests
      BY <1>0, <2>1
    <3>2. QED
      BY <1>0, <2>1, <3>1 DEF TypeOK
  <2>3. NstCountsAlive'
    BY <1>0, <2>1, AliveSame
  <2>4. Started' /\ StreamEnded'
    BY <1>0, <2>1 DEF Started, StreamEnded, ClosedInFinal, Others
  <2>5. ClosedInFinal' /\ Joined' /\ WokenByLast'
    BY <1>0, <2>1 DEF ClosedInFinal, Joined, WokenByLast
  <2>6. QED
    BY <2>2, <2>3, <2>4, <2>5 DEF Inv
<1>7. ASSUME NEW p \in Ranks, Final(p) \/ Destroy(p)
      PROVE  Inv'
  <2>1. /\ \/ main[p] = "run" /\ main' = [main EXCEPT ![p] = "shutdown"]
           \/ /\ main[p] = "shutdown" /\ mgr[p] = "exited"
              /\ main' = [main EXCEPT ![p] = "final"]
        /\ UNCHANGED <<next, mgr, nst, service, requests, closed>>
    BY <1>7 DEF Final, Destroy
  <2>2. TypeOK'
    BY <1>0, <2>1 DEF TypeOK
  <2>3. NstCountsAlive'
    BY <1>0, <2>1, AliveSame
  <2>4. Started' /\ StreamEnded'
    BY <1>0, <2>1 DEF Started, StreamEnded
  <2>5. ClosedInFinal' /\ Joined' /\ WokenByLast'
    BY <1>0, <2>1 DEF ClosedInFinal, Joined, WokenByLast
  <2>6. QED
    BY <2>2, <2>3, <2>4, <2>5 DEF Inv
<1>8. ASSUME NEW p \in Ranks, ShutdownSocket(p)
      PROVE  Inv'
  <2> DEFINE q == IF next[p] >= p THEN next[p] + 1 ELSE next[p]
  <2>1. /\ main[p] = "shutdown" /\ next[p] < Size - 1
        /\ closed' = [closed EXCEPT ![p][q] = TRUE]
        /\ next' = [next EXCEPT ![p] = next[p] + 1]
        /\ UNCHANGED <<main, mgr, nst, service, requests>>
    BY <1>8 DEF ShutdownSocket
  <2>2. q \in Ranks /\ next[p] + 1 \in 0 .. Size - 1
    <3>1. next[p] \in 0 .. Size - 1
      BY <1>0
    <3>2. QED
      BY <2>1, <3>1 DEF Ranks
  <2> HIDE DEF q
  <2>3. TypeOK'
    <3>1. next' \in [Ranks -> 0 .. Size - 1]
      BY <1>0, <2>1, <2>2
    <3>2. closed' \in [Ranks -> [Ranks -> BOOLEAN]]
      BY <1>0, <2>1, <2>2
    <3>3. QED
      BY <1>0, <2>1, <3>1, <3>2 DEF TypeOK
  <2>4. NstCountsAlive'
    BY <1>0, <2>1, AliveSame
  <2>5. Started' /\ StreamEnded'
    BY <1>0, <2>1, <2>2 DEF Started, StreamEnded, Others
  <2>6. ClosedInFinal' /\ Joined' /\ WokenByLast'
    BY <1>0, <2>1, <2>2 DEF ClosedInFinal, Joined, WokenByLast
  <2>7. QED
    BY <2>3, <2>4, <2>5, <2>6 DEF Inv
<1>9. CASE UNCHANGED vars
  <2>1. UNCHANGED <<main, next, mgr, nst, service, requests, closed>>
    BY <1>9 DEF vars
  <2>2. NstCountsAlive'
    BY <1>0, <2>1, AliveSame
  <2>3. QED
    BY <1>0, <2>1, <2>2 DEF Inv, TypeOK, Started, StreamEnded, ClosedInFinal, Joined, WokenByLast
<1>10. QED
  BY <1>1, <1>2, <1>3, <1>4, <1>5, <1>6, <1>7, <1>8, <1>9 DEF Next, Threads

(* The inductive invariant holds throughout.                               *)
THEOREM Invariance == Spec => []Inv
  BY InitInv, NextInv, PTL DEF Spec

(* The count nst never falls below zero nor exceeds Size - 1, and the loop *)
(* over the sockets stays inside the list (sockets.c:104-108).             *)
THEOREM TypeCorrect == Spec => []TypeOK
<1>1. Inv => TypeOK
  BY DEF Inv
<1>2. QED
  BY <1>1, Invariance, PTL

-----------------------------------------------------------------------------
(* A process in which no wakeup was spurious is past bc_final only when    *)
(* all its service threads have exited                                     *)
LEMMA FinalMeansExited ==
  ASSUME Inv, NEW p \in Ranks \ Spurious, main[p] = "final"
  PROVE  \A q \in Others(p) : service[p][q] = "exited"
<1>1. mgr[p] = "exited"
  BY DEF Inv, Joined
<1>2. nst[p] = 0
  BY <1>1 DEF Inv, WokenByLast
<1>3. Cardinality(Alive(p)) = 0
  BY <1>2 DEF Inv, NstCountsAlive
<1>4. Alive(p) = {}
  BY <1>3, AliveCard, FS_EmptySet
<1>5. \A q \in Others(p) : service[p][q] \in {"none", "recv", "eof", "exited"}
  BY DEF Inv, TypeOK, Others
<1>6. \A q \in Others(p) : service[p][q] # "none"
  BY <1>1 DEF Inv, Started
<1>7. QED
  BY <1>4, <1>5, <1>6 DEF Alive

(* The table of links outlives the threads that use it (ltab.c:49-53),     *)
(* where the thread manager wakes only when signalled, for any number of   *)
(* processes.                                                              *)
THEOREM TableOutlivesThreads == Spec => []DestroyedLast
<1>1. Inv => DestroyedLast
  BY FinalMeansExited DEF DestroyedLast, OutlivesThreads
<1>2. QED
  BY <1>1, Invariance, PTL

(* bc_final is a barrier: it returns only when every process has called it *)
(* and every request to the process has been served.                       *)
THEOREM Barrier == Spec => []FinalIsBarrier
<1>1. Inv => FinalIsBarrier
  <2> SUFFICES ASSUME Inv, NEW p \in Ranks \ Spurious, main[p] = "final",
                      NEW q \in Others(p)
               PROVE  main[q] # "run" /\ closed[q][p] /\ requests[q][p] = 0
    BY DEF FinalIsBarrier
  <2>1. service[p][q] = "exited"
    BY FinalMeansExited
  <2>2. closed[q][p] /\ requests[q][p] = 0
    BY <2>1 DEF Inv, StreamEnded
  <2>3. main[q] # "run"
    BY <2>2 DEF Inv, ClosedInFinal, Others
  <2>4. QED
    BY <2>2, <2>3
<1>2. QED
  BY <1>1, Invariance, PTL
=============================================================================
