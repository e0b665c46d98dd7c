------------------------------ MODULE MCLogin -------------------------------
(* Login on small instances.                                               *)
EXTENDS Login, TLC

Symmetry == Permutations(UserId) \cup Permutations(Session) \cup Permutations(Token)
              \cup Permutations(Person) \cup Permutations(Request)
=============================================================================
