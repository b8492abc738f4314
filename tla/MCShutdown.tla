----------------------------- MODULE MCShutdown -----------------------------
(* Three processes with at most one request under way on a connection; the  *)
(* thread manager of rank 0 may wake spuriously.                            *)
EXTENDS Shutdown

OneSpurious == {0}
=============================================================================
