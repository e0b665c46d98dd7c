---------------------------- MODULE MCGraphToken ----------------------------
(* GraphToken on small instances.                                          *)
EXTENDS GraphToken, TLC

Symmetry == Permutations(Token) \cup Permutations(Request)

\* What is left of a token nobody holds is overwritten before it is read again:
\* states that differ in nothing else are one.
View == <<cache, call, [t \in Held \cap Token |-> left[t]], history>>
=============================================================================
