---------------------------- MODULE MCFarmQueue ----------------------------
(* Three buffer units and two consumers.                                    *)
EXTENDS FarmQueue
CONSTANTS c1, c2

MCConsumers == {c1, c2}
MCValue     == {0, 1}
OneUnit     == {1}
=============================================================================
