------------------------------ MODULE MCServer -------------------------------
(* Server on a small instance: durations are int64 values of nine bits.      *)
EXTENDS Server

Good == [required |-> TRUE, maxAge |-> 2, limit |-> 2, keys |-> TRUE]

\* One deployment that works, one for each way in which it can be wrong, and
\* one whose lifetime is in range only because the conversion wraps.
Deployments ==
  { Good, [Good EXCEPT !.limit = 1], [Good EXCEPT !.limit = 0],
    [Good EXCEPT !.required = FALSE], [Good EXCEPT !.keys = FALSE],
    [Good EXCEPT !.maxAge = 1], [Good EXCEPT !.maxAge = 50],
    [Good EXCEPT !.maxAge = 100], [Good EXCEPT !.maxAge = 180] }

=============================================================================
