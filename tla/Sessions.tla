------------------------------ MODULE Sessions ------------------------------
(***************************************************************************)
(* The session store of the hub and the HTTP handlers that end sessions.   *)
(*                                                                         *)
(* Every request runs in a goroutine of its own and all of them share one  *)
(* PostgreSQL table.  A handler is a sequence of single SQL statements     *)
(* without a transaction around them, so a step of this specification is   *)
(* one statement, with the Go code up to the next statement: two requests  *)
(* interleave exactly where the code lets them.                            *)
(***************************************************************************)
EXTENDS Integers

CONSTANTS
  User,        \* ids of sso_users rows
  Session,     \* session ids, drawn from uuid.New(): never used twice
  Request,     \* goroutines that can serve a request at the same time
  None,        \* "no such argument"
  MaxAge,      \* session.Service.maxAge, in ticks
  DbSkew,      \* the database's NOW() minus the clock of the hub
  MaxTime,     \* bound: the clock stops here
  MaxFaults    \* bound: failed statements and process crashes

ASSUME SessionsAssumption ==
  /\ MaxAge \in Nat \ {0}
  /\ DbSkew \in Int
  /\ MaxTime \in Nat
  /\ MaxFaults \in Nat
  /\ None \notin User \cup Session

VARIABLES
  now,           \* time.Now() in the hub
  sso_sessions,  \* the table, see Row
  pc,            \* the statement each request executes next, or "idle"
  op,            \* the handler that runs, or last ran, in each request slot
  sess,          \* LogoutInput.SessionID, or the id in the path
  user,          \* LogoutInput.UserID
  active,        \* the session list a request carries to the fan-out
  out,           \* the HTTP status last sent; 0: none, the reply is outstanding or lost
  scope,         \* history: sessions the request was asked to terminate
  dispatched,    \* sessions handed to deliverLogoutToken
  faults         \* faults that happened, up to MaxFaults

table == <<now, sso_sessions>>
args  == <<op, sess, user, scope>>
local == <<pc, active, out>>
vars  == <<table, args, local, dispatched, faults>>

-----------------------------------------------------------------------------
(* The table.  "none": the id was never used; "deleted": the row is gone.  *)
(* The enum value 'expired' of the schema is never written by the code.    *)

Row == [state : {"none", "active", "revoked", "deleted"},
        user : User \cup {None}, expires_at : Nat]

Found(s)    == sso_sessions[s].state \in {"active", "revoked"}
IsActive(s) == sso_sessions[s].state = "active" /\ now < sso_sessions[s].expires_at
DbNow       == now + DbSkew

\* Accepted no more, or only until the hub's clock is where the database's is.
Lapsed(s) == IsActive(s) => sso_sessions[s].expires_at <= DbNow

\* UPDATE or DELETE: the rows of S get state st.
SetState(S, st) ==
  sso_sessions' = [s \in Session |-> IF s \in S THEN [sso_sessions[s] EXCEPT !.state = st]
                                                ELSE sso_sessions[s]]

\* Mutant: the condition on the user is forgotten.
FindActiveByUserID_anyone(u) ==
  {s \in Session : sso_sessions[s].state = "active" /\ sso_sessions[s].expires_at > DbNow}

\* SELECT ... WHERE user_id = u AND state = 'active' AND expires_at > NOW()
FindActiveByUserID(u) ==
  {s \in Session : /\ sso_sessions[s].user = u
                   /\ sso_sessions[s].state = "active"
                   /\ sso_sessions[s].expires_at > DbNow}

\* Mutants: the wrong member of the enum; a WHERE clause that never matches.
RevokeByID_expired(s)  == SetState({t \in {s} : Found(t)}, "expired")
RevokeByID_inverted(s) == SetState({t \in {s} : sso_sessions[t].state = "revoked"}, "revoked")

\* UPDATE ... WHERE id = s, whatever the state of the row
RevokeByID(s) == SetState({t \in {s} : Found(t)}, "revoked")

\* Mutant: WHERE state = 'active' alone.
RevokeAllForUser_everyone(u) ==
  SetState({s \in Session : sso_sessions[s].state = "active"}, "revoked")

\* UPDATE ... WHERE user_id = u AND state = 'active'
RevokeAllForUser(u) ==
  SetState({s \in Session : sso_sessions[s].user = u /\ sso_sessions[s].state = "active"},
           "revoked")

-----------------------------------------------------------------------------
(* Errors: the text of err.Error() without its cause, and the HTTP status  *)
(* HTTPCodeOf gives it.                                                    *)

NoError        == [message |-> "", code |-> 200]
NotFound       == [message |-> "session % not found", code |-> 404]
SessionExpired == [message |-> "session is no longer valid", code |-> 401]
ErrNoRows      == [message |-> "sql: no rows in result set", code |-> 500]

ValidateSession(s) ==
  IF ~Found(s) THEN NotFound ELSE IF ~IsActive(s) THEN SessionExpired ELSE NoError

isExpiredOrNotFound(err) == err.message = "session expired" \/ err = ErrNoRows

-----------------------------------------------------------------------------
(* Steps shared by the handlers.                                           *)

Begin(r, handler, s, u, first, must) ==
  /\ pc[r] = "idle"
  /\ pc' = [pc EXCEPT ![r] = first]
  /\ op' = [op EXCEPT ![r] = handler]
  /\ sess' = [sess EXCEPT ![r] = s]
  /\ user' = [user EXCEPT ![r] = u]
  /\ scope' = [scope EXCEPT ![r] = must]
  /\ out' = [out EXCEPT ![r] = 0]
  /\ UNCHANGED <<table, active, dispatched, faults>>

Goto(r, next) == pc' = [pc EXCEPT ![r] = next] /\ UNCHANGED <<args, out>>

Reply(r, code) ==
  /\ pc' = [pc EXCEPT ![r] = "idle"]
  /\ out' = [out EXCEPT ![r] = code]
  /\ sess' = [sess EXCEPT ![r] = None]
  /\ user' = [user EXCEPT ![r] = None]
  /\ active' = [active EXCEPT ![r] = {}]
  /\ UNCHANGED <<op, scope>>

-----------------------------------------------------------------------------
(* RequireSession, then the handler up to its first statement.             *)

Logout(r, s) ==
  IsActive(s) /\ Begin(r, "Logout", s, sso_sessions[s].user, "ValidateSession", {s})

ActiveOf(u) == {s \in Session : sso_sessions[s].user = u /\ IsActive(s)}

LogoutAll(r, s) ==
  LET u == sso_sessions[s].user IN
  IsActive(s) /\ Begin(r, "LogoutAll", None, u, "FindActive", ActiveOf(u))

\* The caller's session is any active one; u comes from the path.
AdminForceLogout(r, s, u) ==
  IsActive(s) /\ Begin(r, "AdminForceLogout", None, u, "FindActive", ActiveOf(u))

ListUserSessions(r, s) ==
  IsActive(s) /\ Begin(r, "ListUserSessions", None, sso_sessions[s].user, "FindActive", {})

\* The session to revoke, t, comes from the path.
RevokeSession(r, s, t) ==
  IsActive(s) /\ Begin(r, "RevokeSession", t, None, "FindByID", {t})

GetSession(r, s) ==
  IsActive(s) /\ Begin(r, "GetSession", s, None, "ValidateSession", {})

\* RequireSession turns the request away.
Abort(r, code) ==
  /\ pc[r] = "idle"
  /\ op' = [op EXCEPT ![r] = "refused"]
  /\ scope' = [scope EXCEPT ![r] = {}]
  /\ out' = [out EXCEPT ![r] = code]
  /\ UNCHANGED <<sess, user, pc, active>>

Refuse(r, s) ==
  /\ ValidateSession(s) # NoError
  /\ Abort(r, ValidateSession(s).code)
  /\ UNCHANGED <<table, dispatched, faults>>

-----------------------------------------------------------------------------
(* The statements of the handlers.                                         *)

\* Service.Logout with a session id, and GetSession: look the session up again.
LookupSession(r) ==
  LET err == ValidateSession(sess[r]) IN
  /\ pc[r] = "ValidateSession"
  /\ UNCHANGED <<table, dispatched, faults>>
  /\ \/ /\ err = NoError /\ op[r] = "Logout"
        /\ active' = [active EXCEPT ![r] = {sess[r]}]
        /\ Goto(r, "FindByID")
     \/ /\ err = NoError /\ op[r] = "GetSession"
        /\ Reply(r, 200)
     \/ /\ err # NoError
        /\ Reply(r, IF op[r] = "Logout" /\ isExpiredOrNotFound(err) THEN 200 ELSE err.code)

\* RevokeSession of the domain service returned nil to its caller.
SessionRevoked(r) ==
  \/ op[r] = "Logout" /\ Goto(r, "Dispatch") /\ UNCHANGED active
  \/ op[r] = "RevokeSession" /\ Reply(r, 200)

\* Mutants: an active session passes for a revoked one; a retry from the start.
FindByID_skips(r) ==
  /\ pc[r] = "FindByID"
  /\ UNCHANGED <<table, dispatched, faults>>
  /\ \/ ~Found(sess[r]) /\ Reply(r, 404)
     \/ Found(sess[r]) /\ SessionRevoked(r)

FindByID_retries(r) ==
  /\ pc[r] = "FindByID"
  /\ UNCHANGED <<table, dispatched, faults>>
  /\ \/ ~Found(sess[r]) /\ Reply(r, 404)
     \/ sso_sessions[sess[r]].state = "revoked" /\ SessionRevoked(r)
     \/ /\ sso_sessions[sess[r]].state = "active"
        /\ Goto(r, IF op[r] = "Logout" THEN "ValidateSession" ELSE "Revoke")
        /\ UNCHANGED active

FindByID(r) ==
  /\ pc[r] = "FindByID"
  /\ UNCHANGED <<table, dispatched, faults>>
  /\ \/ ~Found(sess[r]) /\ Reply(r, 404)
     \/ sso_sessions[sess[r]].state = "revoked" /\ SessionRevoked(r)
     \/ sso_sessions[sess[r]].state = "active" /\ Goto(r, "Revoke") /\ UNCHANGED active

Revoke(r) ==
  /\ pc[r] = "Revoke"
  /\ RevokeByID(sess[r])
  /\ SessionRevoked(r)
  /\ UNCHANGED <<now, dispatched, faults>>

\* RevokeAllUserSessions returned list (and a nil error) to its caller.
AllRevoked(r, list) ==
  \/ op[r] = "ListUserSessions" /\ Reply(r, 501)
  \/ /\ op[r] # "ListUserSessions"
     /\ active' = [active EXCEPT ![r] = list]
     /\ Goto(r, "Dispatch")

\* Mutant: tokens are dispatched first, the UPDATE forgotten.
FindActive_tellsFirst(r) ==
  LET found == FindActiveByUserID(user[r]) IN
  /\ pc[r] = "FindActive"
  /\ AllRevoked(r, found)
  /\ UNCHANGED <<table, dispatched, faults>>

FindActive(r) ==
  LET found == FindActiveByUserID(user[r]) IN
  /\ pc[r] = "FindActive"
  /\ \/ found = {} /\ AllRevoked(r, {})
     \/ /\ found # {}
        /\ active' = [active EXCEPT ![r] = found]
        /\ Goto(r, "RevokeAll")
  /\ UNCHANGED <<table, dispatched, faults>>

\* Mutant: the list is dropped on the way to the fan-out.
RevokeAll_losesList(r) ==
  /\ pc[r] = "RevokeAll"
  /\ RevokeAllForUser(user[r])
  /\ AllRevoked(r, {})
  /\ UNCHANGED <<now, dispatched, faults>>

RevokeAll(r) ==
  /\ pc[r] = "RevokeAll"
  /\ RevokeAllForUser(user[r])
  /\ AllRevoked(r, active[r])
  /\ UNCHANGED <<now, dispatched, faults>>

\* One goroutine per session and endpoint is started ...
Dispatch(r) ==
  /\ pc[r] = "Dispatch"
  /\ dispatched' = dispatched \cup active[r]
  /\ Goto(r, "Wait")
  /\ UNCHANGED <<table, active, faults>>

\* ... all of them return, MS Graph is called, whose errors are only logged.
Wait(r) ==
  /\ pc[r] = "Wait"
  /\ Reply(r, 200)
  /\ UNCHANGED <<table, dispatched, faults>>

-----------------------------------------------------------------------------
(* Failures, and what else touches the table.                              *)

FailureCode(r) ==
  IF op[r] = "ListUserSessions" THEN 501
  ELSE IF pc[r] \in {"ValidateSession", "FindByID"} THEN 404 ELSE 500

\* The database, or the request's context, fails a statement; an UPDATE may
\* have been executed although its answer never came back.
StatementFails(r) ==
  /\ faults < MaxFaults
  /\ \/ UNCHANGED sso_sessions
     \/ pc[r] = "Revoke" /\ RevokeByID(sess[r])
     \/ pc[r] = "RevokeAll" /\ RevokeAllForUser(user[r])
  /\ \/ pc[r] \in {"ValidateSession", "FindByID", "Revoke", "FindActive", "RevokeAll"}
          /\ Reply(r, FailureCode(r))
     \/ Abort(r, 404)    \* the lookup of RequireSession
  /\ faults' = faults + 1
  /\ UNCHANGED <<now, dispatched>>

\* The process dies and restarts: every request in flight is lost.
Crash ==
  /\ faults < MaxFaults
  /\ \E r \in Request : pc[r] # "idle"
  /\ pc' = [r \in Request |-> "idle"]
  /\ out' = [r \in Request |-> 0]
  /\ sess' = [r \in Request |-> None]
  /\ user' = [r \in Request |-> None]
  /\ active' = [r \in Request |-> {}]
  /\ faults' = faults + 1
  /\ UNCHANGED <<table, op, scope, dispatched>>

\* Mutant: the id of a deleted row is used again.
CreateSession_reuses(u, s) ==
  /\ sso_sessions[s].state \in {"none", "deleted"}
  /\ sso_sessions' = [sso_sessions EXCEPT ![s] =
                        [state |-> "active", user |-> u, expires_at |-> now + MaxAge]]
  /\ UNCHANGED <<now, args, local, dispatched, faults>>

\* A login: NewSession and the INSERT.
CreateSession(u, s) ==
  /\ sso_sessions[s].state = "none"
  /\ sso_sessions' = [sso_sessions EXCEPT ![s] =
                        [state |-> "active", user |-> u, expires_at |-> now + MaxAge]]
  /\ UNCHANGED <<now, args, local, dispatched, faults>>

\* Mutant: the condition on the state is forgotten.
DeleteExpired_revoked ==
  LET gone == {s \in Session : Found(s) /\ sso_sessions[s].expires_at < DbNow}
  IN  /\ gone # {}
      /\ SetState(gone, "deleted")
      /\ UNCHANGED <<now, args, local, dispatched, faults>>

\* DELETE ... WHERE expires_at < NOW() AND state != 'revoked'
DeleteExpired ==
  LET gone == {s \in Session : /\ sso_sessions[s].state = "active"
                               /\ sso_sessions[s].expires_at < DbNow}
  IN  /\ gone # {}
      /\ SetState(gone, "deleted")
      /\ UNCHANGED <<now, args, local, dispatched, faults>>

Tick ==
  /\ now < MaxTime
  /\ now' = now + 1
  /\ UNCHANGED <<sso_sessions, args, local, dispatched, faults>>

-----------------------------------------------------------------------------
Init ==
  /\ now = 0
  /\ sso_sessions = [s \in Session |-> [state |-> "none", user |-> None, expires_at |-> 0]]
  /\ pc = [r \in Request |-> "idle"]
  /\ op = [r \in Request |-> "none"]
  /\ sess = [r \in Request |-> None]
  /\ user = [r \in Request |-> None]
  /\ active = [r \in Request |-> {}]
  /\ out = [r \in Request |-> 0]
  /\ scope = [r \in Request |-> {}]
  /\ dispatched = {}
  /\ faults = 0

Accept(r) ==
  \E s \in Session :
     \/ Logout(r, s)
     \/ LogoutAll(r, s)
     \/ \E u \in User : AdminForceLogout(r, s, u)
     \/ ListUserSessions(r, s)
     \/ \E t \in Session : RevokeSession(r, s, t)
     \/ GetSession(r, s)
     \/ Refuse(r, s)

Step(r) ==
  \/ LookupSession(r) \/ FindByID(r) \/ Revoke(r)
  \/ FindActive(r) \/ RevokeAll(r)
  \/ Dispatch(r) \/ Wait(r)

Next ==
  \/ \E r \in Request : Accept(r) \/ Step(r) \/ StatementFails(r)
  \/ \E u \in User, s \in Session : CreateSession(u, s)
  \/ DeleteExpired
  \/ Crash
  \/ Tick

Spec == Init /\ [][Next]_vars

\* Statements return and goroutines are scheduled; nothing obliges anybody to
\* send a request, to log in, or the cleanup to run.
FairSpec == Spec /\ \A r \in Request : WF_vars(Step(r))

-----------------------------------------------------------------------------
(* Properties.                                                             *)

Handlers == {"Logout", "LogoutAll", "AdminForceLogout", "ListUserSessions",
             "RevokeSession", "GetSession"}

\* Every variable has its type.
TypeOK ==
  /\ now \in Nat
  /\ sso_sessions \in [Session -> Row]
  /\ pc \in [Request -> {"idle", "ValidateSession", "FindByID", "Revoke",
                         "FindActive", "RevokeAll", "Dispatch", "Wait"}]
  /\ op \in [Request -> Handlers \cup {"none", "refused"}]
  /\ sess \in [Request -> Session \cup {None}]
  /\ user \in [Request -> User \cup {None}]
  /\ active \in [Request -> SUBSET Session]
  /\ out \in [Request -> {0, 200, 401, 404, 500, 501}]
  /\ scope \in [Request -> SUBSET Session]
  /\ dispatched \subseteq Session
  /\ faults \in Nat

\* Logout tokens are handed out only for sessions that can no longer be used:
\* "the local session is always revoked first" (logout/service.go:91), whatever
\* other requests, failures and the cleanup do between the statements.
DispatchedIsDead == \A s \in dispatched : ~IsActive(s)

Terminating == {"Logout", "LogoutAll", "AdminForceLogout", "RevokeSession"}

\* A logout or revocation answered with 200 has ended every session it was
\* asked to end, and none of them is ever usable again (logout_handler.go:23,
\* 49, 73 and session_handler.go:57); only if the database's clock is ahead, one
\* that it takes for expired remains for as long as the clocks differ.
SuccessfulLogoutTerminates ==
  \A r \in Request : op[r] \in Terminating /\ out[r] = 200
    => \A s \in scope[r] : Lapsed(s)

\* The fan-out of a request is about one user: the audit row of a delivery names
\* the user of the request, its token the user of the session
\* (logout/service.go:148-155), and these are the same, though the sessions come
\* from a look-up or from the path and other requests work on the rows meanwhile.
FanOutNamesOneUser ==
  \A r \in Request : pc[r] = "Dispatch"
    => \A s \in active[r] : sso_sessions[s].user = user[r]

\* How a statement may revoke s: a logout of its user gets s into its fan-out,
\* unless RevokeAllUserSessions had not listed it (see RevokeAllReturnsRevoked);
\* a listing ends its caller's sessions and RevokeSession the one it was given,
\* whoever's that is, and neither tells anybody.
RevokedBy(r, s) ==
  LET ofItsUser == user[r] = sso_sessions[s].user IN
  \/ pc[r] = "Revoke" /\ op[r] = "RevokeSession" /\ sess[r] = s
  \/ pc[r] = "RevokeAll" /\ op[r] = "ListUserSessions" /\ ofItsUser
  \/ pc[r] = "RevokeAll" /\ op[r] # "ListUserSessions" /\ ofItsUser /\ s \notin active[r]
  \/ pc'[r] = "Dispatch" /\ s \in active'[r] /\ ofItsUser

\* A session ends in no other way than these, except that the answer to an UPDATE
\* may be lost: a logout ends sessions of its own user only and leaves none it
\* listed behind without a token (logout/service.go:98-128, session_handler.go:49, 72).
EndedAreCarried ==
  [][\A s \in Session :
       sso_sessions[s].state = "active" /\ sso_sessions'[s].state = "revoked"
         => faults' # faults \/ \E r \in Request : RevokedBy(r, s)]_vars

Lifecycle == INSTANCE SessionLifecycle WITH
  opened   <- {s \in Session : sso_sessions[s].state # "none"},
  usable   <- {s \in Session : IsActive(s)},
  notified <- dispatched

\* The store keeps the promise SessionLifecycle makes to the other parts: no
\* statement, failure or crash brings an ended session back (entity.go:57-67).
LifecycleSpec == Lifecycle!Spec

\* Every request is answered, or lost in a crash.
RequestsReturn == \A r \in Request : (pc[r] # "idle") ~> (pc[r] = "idle")

\* The sessions RevokeAllUserSessions listed get their logout tokens: between
\* the list and the fan-out only a fault can lose one of them.
ListedAreDispatched ==
  \A r \in Request, s \in Session :
    (pc[r] = "RevokeAll" /\ op[r] # "ListUserSessions" /\ s \in active[r])
      ~> (s \in dispatched \/ faults > 0)

-----------------------------------------------------------------------------
(* The inductive invariant behind the safety properties: what each request *)
(* knows at each statement, and that what it knows cannot be undone by the *)
(* statements of the others.                                               *)

Ended(s) == sso_sessions[s].state \in {"revoked", "deleted"}
Over(s)  == sso_sessions[s].state # "none" /\ Lapsed(s)
Owned(s, u) == sso_sessions[s].state # "none" /\ sso_sessions[s].user = u

RowsOwned ==
  \A s \in Session : sso_sessions[s].state # "none" => sso_sessions[s].user \in User

\* Which handler can be at which statement, and with which arguments.
Placed(r) ==
  /\ pc[r] # "idle" => out[r] = 0
  /\ pc[r] = "ValidateSession" => op[r] \in {"Logout", "GetSession"} /\ sess[r] \in Session
  /\ pc[r] \in {"FindByID", "Revoke"}
       => op[r] \in {"Logout", "RevokeSession"} /\ sess[r] \in Session
  /\ pc[r] \in {"FindActive", "RevokeAll"}
       => /\ op[r] \in {"LogoutAll", "AdminForceLogout", "ListUserSessions"}
          /\ sess[r] = None /\ user[r] \in User
  /\ pc[r] \in {"Dispatch", "Wait"} => op[r] \in {"Logout", "LogoutAll", "AdminForceLogout"}

\* The sessions a request carries to the fan-out are its user's, and have ended
\* when it gets there.
Carried(r) ==
  /\ pc[r] = "Revoke" => sso_sessions[sess[r]].state # "none"
  /\ pc[r] \in {"FindByID", "Revoke"} /\ op[r] = "Logout" => active[r] = {sess[r]}
  /\ pc[r] \in {"ValidateSession", "FindByID", "Revoke"} /\ op[r] = "Logout"
       => Owned(sess[r], user[r])
  /\ pc[r] \in {"RevokeAll", "Dispatch"} => \A s \in active[r] : Owned(s, user[r])
  /\ pc[r] = "Dispatch" => \A s \in active[r] : Ended(s)

\* What it was asked to end has ended when it answers 200.
Asked(r) ==
  /\ pc[r] \in {"ValidateSession", "FindByID", "Revoke"} /\ op[r] \in Terminating
       => scope[r] = {sess[r]}
  /\ pc[r] \in {"FindActive", "RevokeAll"} => \A s \in scope[r] : Owned(s, user[r])
  /\ op[r] \in Terminating /\ (pc[r] \in {"Dispatch", "Wait"} \/ out[r] = 200)
       => \A s \in scope[r] : Over(s)

\* In every state, of every request: the handlers establish what they rely on
\* (logout/service.go:92-144, session/service.go:54-89).
IInv ==
  /\ TypeOK
  /\ RowsOwned
  /\ \A s \in dispatched : Ended(s)
  /\ \A r \in Request : Placed(r) /\ Carried(r) /\ Asked(r)

-----------------------------------------------------------------------------
(* What comments of the source say, and the code does not do.              *)

\* "Session is already gone; treat as success" (logout/service.go:100): a
\* logout whose session ended meanwhile is answered with 200.
GoneSessionLogoutSucceeds ==
  \A r \in Request : op[r] = "Logout" /\ pc[r] = "idle" => out[r] = 200

\* RevokeAllUserSessions "returns the list of revoked sessions so the caller
\* can dispatch logout tokens" (session/service.go:73): what its UPDATE revokes
\* is on its list.
RevokeAllReturnsRevoked ==
  [][\A r \in Request : pc[r] = "RevokeAll" /\ pc'[r] = "Dispatch" =>
       {s \in Session : sso_sessions[s].state = "active" /\ sso_sessions'[s].state = "revoked"}
         \subseteq active[r]]_vars
=============================================================================
