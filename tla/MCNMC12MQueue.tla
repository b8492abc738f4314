--------------------------- MODULE MCNMC12MQueue ---------------------------
(* Three buffer units, two consumers, of which one may leave.   *)
EXTENDS NMC12MQueue
CONSTANTS c1, c2

MCConsumers == {c1, c2}
MCValue     == {0, 1}
OneLeaver   == {c2}
=============================================================================
