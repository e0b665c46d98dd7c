-------------------------- MODULE SessionLifecycle --------------------------
(***************************************************************************)
(* What the session store of the hub promises to everything that relies on *)
(* it (the RequireSession middleware, the session endpoints and the        *)
(* downstream applications): a session is usable from the moment it is     *)
(* created until it ends, it ends once and for all, and downstream         *)
(* applications are told only about sessions that have already ended.      *)
(* How a session ends (revoked, expired, removed) is not visible here.     *)
(***************************************************************************)
CONSTANT Session          \* the session identifiers

VARIABLES
  opened,                 \* sessions that were ever created
  usable,                 \* sessions RequireSession accepts now
  notified                \* sessions whose logout tokens were handed out

vars == <<opened, usable, notified>>

Init == opened = {} /\ usable = {} /\ notified = {}

\* A login creates a session under an identifier never used before.
Open(s) ==
  /\ s \notin opened
  /\ opened' = opened \cup {s}
  /\ usable' = usable \cup {s}
  /\ UNCHANGED notified

\* Some usable sessions end together: a logout, or the passing of time.
End(S) ==
  /\ usable' = usable \ S
  /\ UNCHANGED <<opened, notified>>

\* Downstream applications are told about sessions that have ended.
Notify(S) ==
  /\ S \subseteq opened \ usable
  /\ notified' = notified \cup S
  /\ UNCHANGED <<opened, usable>>

Next ==
  \/ \E s \in Session : Open(s)
  \/ \E S \in SUBSET usable : End(S)
  \/ \E S \in SUBSET (opened \ usable) : Notify(S)

Spec == Init /\ [][Next]_vars
=============================================================================
