---------------------------- MODULE Notification ----------------------------
(***************************************************************************)
(* What the back-channel fan-out of a logout promises to the request that  *)
(* started it: every (session, endpoint) pair gets exactly one verdict,    *)
(* "delivered" is said only of pairs whose endpoint has accepted a logout  *)
(* token, and the request resumes only when no verdict is missing.  Tokens *)
(* may arrive more than once, and after the verdict.                       *)
(***************************************************************************)
CONSTANT Delivery          \* the (session, endpoint) pairs

VARIABLES
  verdict,                 \* "none", "pending", "delivered" or "failed"
  accepted,                \* the pairs whose endpoint has accepted a token
  resumed                  \* the request went on to its answer

vars == <<verdict, accepted, resumed>>

Init ==
  /\ verdict = [d \in Delivery |-> "none"]
  /\ accepted = {}
  /\ resumed = FALSE

Start(D) ==
  /\ verdict = [d \in Delivery |-> "none"]
  /\ ~resumed
  /\ verdict' = [d \in Delivery |-> IF d \in D THEN "pending" ELSE "none"]
  /\ UNCHANGED <<accepted, resumed>>

Accept(d) ==
  /\ verdict[d] # "none"
  /\ accepted' = accepted \cup {d}
  /\ UNCHANGED <<verdict, resumed>>

Decide(d, v) ==
  /\ verdict[d] = "pending"
  /\ v = "delivered" => d \in accepted
  /\ verdict' = [verdict EXCEPT ![d] = v]
  /\ UNCHANGED <<accepted, resumed>>

Resume ==
  /\ \A d \in Delivery : verdict[d] # "pending"
  /\ resumed' = TRUE
  /\ UNCHANGED <<verdict, accepted>>

Next ==
  \/ \E D \in SUBSET Delivery : Start(D)
  \/ \E d \in Delivery : Accept(d)
  \/ \E d \in Delivery, v \in {"delivered", "failed"} : Decide(d, v)
  \/ Resume

Spec == Init /\ [][Next]_vars
=============================================================================
