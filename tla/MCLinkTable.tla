---------------------------- MODULE MCLinkTable ----------------------------
(* Three channels; four blocks of memory.                                   *)
EXTENDS LinkTable
CONSTANTS a1, a2, a3, a4

MCAddress == {a1, a2, a3, a4}
NoShared  == {}
FirstShared == {0}
=============================================================================
