--------------------------- MODULE MCBackChannel ----------------------------
(* BackChannel on small instances.                                         *)
EXTENDS BackChannel
=============================================================================
