---------------------------- MODULE MCSessions ------------------------------
(* Sessions on small instances.                                            *)
EXTENDS Sessions, TLC

Symmetry == Permutations(User) \cup Permutations(Session) \cup Permutations(Request)

Behind == -1    \* the database's clock lags: NOW() is one tick late
=============================================================================
