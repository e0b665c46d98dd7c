------------------------------- MODULE MCHub --------------------------------
(* Hub on a small instance.                                                *)
EXTENDS Hub, TLC

Symmetry == Permutations(UserId) \cup Permutations(Session)
=============================================================================
