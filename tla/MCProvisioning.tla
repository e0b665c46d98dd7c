--------------------------- MODULE MCProvisioning ---------------------------
(* Provisioning on small instances.                                        *)
EXTENDS Provisioning, TLC

Symmetry == Permutations(User) \cup Permutations(Resource) \cup Permutations(Request)
=============================================================================
