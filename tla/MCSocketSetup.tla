--------------------------- MODULE MCSocketSetup ---------------------------
(* Four processes: rank 3 accepts from three others at once.                *)
EXTENDS SocketSetup
=============================================================================
