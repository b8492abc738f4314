---------------------------- MODULE MCProcessLists ---------------------------
(* Three processes; two lists the application makes, besides the optional ones. *)
EXTENDS ProcessLists, TLC
Interchangeable == Permutations(Names)
=============================================================================
