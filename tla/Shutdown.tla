------------------------------ MODULE Shutdown ------------------------------
(***************************************************************************)
(* How the threads of the processes start and end: the thread manager and  *)
(* the service threads of libdsys/threads.c, and bc_final with             *)
(* __bc_socket_network_destroy and __bc_ltab_destroy (base.c, sockets.c,   *)
(* ltab.c).                                                                *)
(*                                                                         *)
(* A process in bc_final shuts down its half of every connection.  The     *)
(* service thread at the other end serves the requests that were sent      *)
(* before, reads the end of the stream, lowers the count nst of its        *)
(* process and exits; the last one signals the manager, which the main     *)
(* thread joins before it frees the table of links.  A critical section of *)
(* tmgr->lock is one step.                                                 *)
(***************************************************************************)
EXTENDS Naturals

CONSTANTS Size,         \* bc_base_layer->mpi->size
          MaxRequests,  \* bound on the requests under way on one connection
          Spurious      \* processes whose manager may wake without a signal

ASSUME ShutdownAssumption == /\ Size \in Nat \ {0}
                             /\ MaxRequests \in Nat
                             /\ Spurious \subseteq 0 .. Size - 1

Ranks == 0 .. Size - 1
Others(p) == Ranks \ {p}

VARIABLES main,      \* the main thread of each process
          next,      \* the index it shuts down next
          mgr,       \* the thread manager of each process
          nst,       \* tmgr->nst
          service,   \* service[p][q]: the service thread of p for q
          requests,  \* requests[p][q]: sent by p to q and not read
          closed     \* closed[p][q]: p has shut down its half towards q

vars == <<main, next, mgr, nst, service, requests, closed>>

Init == /\ main = [p \in Ranks |-> "run"]
        /\ next = [p \in Ranks |-> 0]
        /\ mgr = [p \in Ranks |-> "start"]
        /\ nst = [p \in Ranks |-> 0]
        /\ service = [p \in Ranks |-> [q \in Ranks |-> "none"]]
        /\ requests = [p \in Ranks |-> [q \in Ranks |-> 0]]
        /\ closed = [p \in Ranks |-> [q \in Ranks |-> FALSE]]

(***************************************************************************)
(* The thread manager.  It holds the lock while it creates the service     *)
(* threads and until it waits.                                             *)
(***************************************************************************)
StartServicesAll(p) ==
  /\ mgr[p] = "start"
  /\ nst' = [nst EXCEPT ![p] = Size]
  /\ service' = [service EXCEPT ![p] = [q \in Ranks |-> IF q = p THEN "none" ELSE "recv"]]
  /\ mgr' = [mgr EXCEPT ![p] = "wait"]
  /\ UNCHANGED <<main, next, requests, closed>>
StartServices(p) ==
  /\ mgr[p] = "start"
  /\ nst' = [nst EXCEPT ![p] = Size - 1]
  /\ service' = [service EXCEPT ![p] = [q \in Ranks |-> IF q = p THEN "none" ELSE "recv"]]
  /\ mgr' = [mgr EXCEPT ![p] = "wait"]
  /\ UNCHANGED <<main, next, requests, closed>>

ManagerExit(p) ==
  /\ mgr[p] = "woken"
  /\ mgr' = [mgr EXCEPT ![p] = "exited"]
  /\ UNCHANGED <<main, next, nst, service, requests, closed>>

SpuriousWakeup(p) ==
  /\ p \in Spurious
  /\ mgr[p] = "wait"
  /\ mgr' = [mgr EXCEPT ![p] = "woken"]
  /\ UNCHANGED <<main, next, nst, service, requests, closed>>

(***************************************************************************)
(* The service thread of p for q.                                          *)
(***************************************************************************)
Serve(p, q) ==
  /\ service[p][q] = "recv"
  /\ requests[q][p] > 0
  /\ requests' = [requests EXCEPT ![q][p] = @ - 1]
  /\ UNCHANGED <<main, next, mgr, nst, service, closed>>

(* recv returned 0: shut down this side, then count down *)
EndOfStream(p, q) ==
  /\ service[p][q] = "recv"
  /\ requests[q][p] = 0
  /\ closed[q][p]
  /\ service' = [service EXCEPT ![p][q] = "eof"]
  /\ UNCHANGED <<main, next, mgr, nst, requests, closed>>

(* if (!(--nst)); before it, for one thread too early and with nst-- *)
LastButOne(n) == n <= 1
PostDecrement(n) == n + 1 = 0
LastOne(n) == n = 0

ServiceExit(p, q) ==
  /\ service[p][q] = "eof"
  /\ nst' = [nst EXCEPT ![p] = @ - 1]
  /\ mgr' = IF LastOne(nst'[p]) /\ mgr[p] = "wait" THEN [mgr EXCEPT ![p] = "woken"] ELSE mgr
  /\ service' = [service EXCEPT ![p][q] = "exited"]
  /\ UNCHANGED <<main, next, requests, closed>>

(***************************************************************************)
(* The main thread: requests that need no answer, then bc_final.           *)
(***************************************************************************)
SendRequest(p, q) ==
  /\ main[p] = "run"
  /\ requests[p][q] < MaxRequests
  /\ requests' = [requests EXCEPT ![p][q] = @ + 1]
  /\ UNCHANGED <<main, next, mgr, nst, service, closed>>

Final(p) ==
  /\ main[p] = "run"
  /\ main' = [main EXCEPT ![p] = "shutdown"]
  /\ UNCHANGED <<next, mgr, nst, service, requests, closed>>

(* The loop over the socket list; index i belongs to rank i or i + 1 *)
ShutdownSocket(p) ==
  /\ main[p] = "shutdown"
  /\ next[p] < Size - 1
  /\ LET q == IF next[p] >= p THEN next[p] + 1 ELSE next[p]
     IN  closed' = [closed EXCEPT ![p][q] = TRUE]
  /\ next' = [next EXCEPT ![p] = @ + 1]
  /\ UNCHANGED <<main, mgr, nst, service, requests>>

(* bc_join, and the destruction of the table and the rest *)
DestroyNoJoin(p) ==
  /\ main[p] = "shutdown"
  /\ next[p] = Size - 1
  /\ main' = [main EXCEPT ![p] = "final"]
  /\ UNCHANGED <<next, mgr, nst, service, requests, closed>>
Destroy(p) ==
  /\ main[p] = "shutdown"
  /\ next[p] = Size - 1
  /\ mgr[p] = "exited"
  /\ main' = [main EXCEPT ![p] = "final"]
  /\ UNCHANGED <<next, mgr, nst, service, requests, closed>>

Threads(p) == \/ StartServices(p) \/ ManagerExit(p)
              \/ ShutdownSocket(p) \/ Destroy(p)
              \/ \E q \in Others(p) : Serve(p, q) \/ EndOfStream(p, q) \/ ServiceExit(p, q)

Next == \E p \in Ranks :
          \/ Threads(p) \/ SpuriousWakeup(p) \/ Final(p)
          \/ \E q \in Others(p) : SendRequest(p, q)

Spec == Init /\ [][Next]_vars

(* Threads that can run do; no process is forced into bc_final *)
FairSpec ==
  Spec /\ \A p \in Ranks :
            /\ WF_vars(StartServices(p)) /\ WF_vars(ManagerExit(p))
            /\ WF_vars(ShutdownSocket(p)) /\ WF_vars(Destroy(p))
            /\ \A q \in Others(p) : WF_vars(Serve(p, q) \/ EndOfStream(p, q) \/ ServiceExit(p, q))

-----------------------------------------------------------------------------
(* Every variable stays in range *)
TypeOK == /\ main \in [Ranks -> {"run", "shutdown", "final"}]
          /\ next \in [Ranks -> 0 .. Size - 1]
          /\ mgr \in [Ranks -> {"start", "wait", "woken", "exited"}]
          /\ nst \in [Ranks -> 0 .. Size - 1]
          /\ service \in [Ranks -> [Ranks -> {"none", "recv", "eof", "exited"}]]
          /\ requests \in [Ranks -> [Ranks -> 0 .. MaxRequests]]
          /\ closed \in [Ranks -> [Ranks -> BOOLEAN]]

(* "Lookup table is destroyed when no data serving threads are alive"      *)
(* (ltab.c:49-53): the table and the thread manager are freed after the    *)
(* last access of every service thread.                                    *)
OutlivesThreads(p) == main[p] = "final" => \A q \in Others(p) : service[p][q] = "exited"

(* It is so where pthread_cond_wait returns only when signalled            *)
(* (threads.c:56, 89-90), whatever the managers of other processes do.     *)
DestroyedLast == \A p \in Ranks \ Spurious : OutlivesThreads(p)

(* What the comments say of every process: "Lookup table is destroyed when *)
(* no data serving threads are alive" (ltab.c:49-50), since the manager    *)
(* that bc_final joins will "Wait for the service threads to complete"     *)
(* (threads.c:55).  The wait at threads.c:56 is no loop.                   *)
TablesLast == \A p \in Ranks : OutlivesThreads(p)

(* bc_final is a barrier: it returns in no process before every process    *)
(* has called it, and every request sent to the process was served.  A     *)
(* spurious wakeup takes it away only from the process it happens in.      *)
FinalIsBarrier ==
  \A p \in Ranks \ Spurious : main[p] = "final" =>
     \A q \in Others(p) : /\ main[q] # "run"
                          /\ closed[q][p]
                          /\ requests[q][p] = 0

(* bc_final returns in every process once all have called it.              *)
FinalReturns == (\A p \in Ranks : main[p] # "run") ~> (\A p \in Ranks : main[p] = "final")
=============================================================================
