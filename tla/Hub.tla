-------------------------------- MODULE Hub ---------------------------------
(***************************************************************************)
(* Logins and logouts of the running hub over one sso_sessions table: the  *)
(* callbacks of Login insert the rows, with their sid, that the requests   *)
(* of Sessions list, revoke and clean up.  A step is a step of one of the  *)
(* two, or of both where they meet in a row of the table: the INSERT of a  *)
(* login, the UPDATEs and the DELETE, and a crash of the process.          *)
(***************************************************************************)
EXTENDS Integers, FiniteSets

CONSTANTS
  Person, UserId, Session, Token, None,
  Request,        \* goroutines that serve session and logout requests
  LoginRequest,   \* goroutines that serve callbacks
  MaxAge, DbSkew, MaxTime,
  MaxFaults       \* bound: failed statements and crashes, of both together

ASSUME HubAssumption ==
  /\ MaxAge \in Nat \ {0} /\ DbSkew \in Int
  /\ MaxTime \in Nat /\ MaxFaults \in Nat
  /\ None \notin Person \cup UserId \cup Session \cup Token
  /\ Person \cap Token = {}

VARIABLES
  now, rows, dispatched,                            \* of Sessions; rows: its table
  pc, op, sess, user, active, out, scope, faults,   \* of Sessions, its requests
  sids,                                             \* the column sid of the table
  sso_users, clock,                                 \* of Login
  step, person, sid, copy, code, issued, failures,  \* of Login, its callbacks
  barring,    \* history: the user each forced logout is to lock out, see Barred
  lockedOut   \* history: users whose forced logout was answered with 200

\* The table as Login sees it.
sso_sessions ==
  [s \in Session |-> [state |-> rows[s].state, user |-> rows[s].user, sid |-> sids[s]]]

S == INSTANCE Sessions WITH User <- UserId, sso_sessions <- rows

L == INSTANCE Login WITH Request <- LoginRequest, pc <- step, out <- code, faults <- failures

requests  == <<pc, op, sess, user, active, out, scope, dispatched, faults>>
callbacks == <<sso_users, clock, step, person, sid, copy, code, issued, failures>>
history   == <<barring, lockedOut>>
vars      == <<now, rows, requests, sids, callbacks, history>>

-----------------------------------------------------------------------------
\* An account nobody can open: it is not active, and no callback in flight
\* still holds an active copy of it.
Barred(u) ==
  /\ sso_users[u].status \in {"suspended", "deleted"}
  /\ \A r \in LoginRequest : copy[r].id = u => copy[r].status # "active"

Arrive(r) ==
  /\ S!Accept(r)
  /\ barring' = [barring EXCEPT ![r] =
       IF op'[r] = "AdminForceLogout" /\ Barred(user'[r]) THEN user'[r] ELSE None]
  /\ UNCHANGED <<sids, callbacks, lockedOut>>

Serve(r) ==
  /\ S!Step(r)
  /\ lockedOut' = IF out'[r] = 200 THEN lockedOut \cup ({barring[r]} \ {None}) ELSE lockedOut
  /\ UNCHANGED <<sids, callbacks, barring>>

MayFail == faults + failures < MaxFaults

RequestFails(r) == MayFail /\ S!StatementFails(r) /\ UNCHANGED <<sids, callbacks, history>>

\* The rows DELETE removes take their sid with them.
DeleteExpired ==
  /\ S!DeleteExpired
  /\ sids' = [s \in Session |-> IF rows'[s].state = "deleted" THEN None ELSE sids[s]]
  /\ UNCHANGED <<callbacks, history>>

-----------------------------------------------------------------------------
\* Bound: Session has an id left for every callback in flight.
IdsLeft == Cardinality({s \in Session : rows[s].state = "none"})
             > Cardinality({r \in LoginRequest : step[r] # "idle"})

Begin(r) ==
  /\ UNCHANGED <<now, rows, requests, sids, history>>
  /\ \/ IdsLeft /\ \E p \in Person, x \in L!Sid : L!Callback(r, p, x)
     \/ L!CallbackRefused(r)

\* A callback's statements on sso_users.
LogIn(r) ==
  /\ UNCHANGED <<now, rows, requests, sids, history>>
  /\ L!FindByCasdoorID(r) \/ L!Save(r) \/ L!UpdateLastLogin(r)

\* The row appears with its sid, for both.
InsertRow(r) ==
  \E s \in Session :
    /\ S!CreateSession(copy[r].id, s)
    /\ sids' = [sids EXCEPT ![s] = sid[r]]

CreateSession(r) ==
  /\ step[r] = "CreateSession"
  /\ \/ InsertRow(r)
     \/ UNCHANGED <<now, rows, requests, sids>>
  /\ L!CreateSession(r)
  /\ UNCHANGED history

LogInFails(r) ==
  /\ MayFail
  /\ step[r] # "idle"
  /\ \/ step[r] = "CreateSession" /\ InsertRow(r)
     \/ UNCHANGED <<now, rows, requests, sids>>
  /\ L!StatementFails(r)
  /\ UNCHANGED history

Administer ==
  /\ UNCHANGED <<now, rows, requests, sids, history>>
  /\ \E u \in UserId : L!SuspendUser(u) \/ L!Delete(u)

\* One process serves both.
Crash ==
  /\ MayFail
  /\ UNCHANGED <<sids, history>>
  /\ \/ S!Crash
     \/ (\A r \in Request : pc[r] = "idle") /\ UNCHANGED <<now, rows, requests>>
  /\ \/ L!Crash
     \/ (\A r \in LoginRequest : step[r] = "idle") /\ UNCHANGED callbacks

Tick == S!Tick /\ UNCHANGED <<sids, callbacks, history>>

Init ==
  /\ S!Init
  /\ sids = [s \in Session |-> None]
  /\ L!Init
  /\ barring = [r \in Request |-> None]
  /\ lockedOut = {}

Next ==
  \/ \E r \in Request : Arrive(r) \/ Serve(r) \/ RequestFails(r)
  \/ \E r \in LoginRequest : Begin(r) \/ LogIn(r) \/ CreateSession(r) \/ LogInFails(r)
  \/ Administer \/ DeleteExpired \/ Crash \/ Tick

Spec == Init /\ [][Next]_vars

-----------------------------------------------------------------------------
(* Properties.                                                             *)

\* The way to lock somebody out works: when a user is suspended or deleted, no
\* login that began before is still in flight, and an administrator's forced
\* logout is answered with 200, then the user has no usable session, and never
\* has one again, but for what the clocks differ (logout_handler.go:73,
\* identity/service.go:64, auth/service.go:109).
ForcedLogoutLocksOut ==
  \A u \in lockedOut : \A s \in Session : rows[s].user = u => S!Lapsed(s)

\* A barred user stays barred, whatever logins follow, and gets no session:
\* not through a callback's copy, its upsert, or a second account.
BarredStaysOut ==
  [][\A u \in UserId : Barred(u) =>
       /\ Barred(u)'
       /\ \A s \in Session : rows'[s].user = u => rows[s].user = u]_vars

\* The sessions Login's callbacks meet in the hub are those its specification
\* allows: logouts, revocations and the cleanup of Sessions are the environment
\* it was checked against (auth/service.go:106-139).
LoginSpec == L!Spec
=============================================================================
