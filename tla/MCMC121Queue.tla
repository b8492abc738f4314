---------------------------- MODULE MCMC121Queue ----------------------------
(* A ring of 4 bytes: puts of 1 to 3 bytes and gets of 1 or 2, so that both  *)
(* pointers wrap in the middle of a transfer and exactly at the end.        *)
EXTENDS MC121Queue

MCPutSizes == 1 .. 3
MCGetSizes == 1 .. 2
MCByte     == {0, 1}
=============================================================================
