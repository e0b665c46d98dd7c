----------------------------- MODULE HubProofs -----------------------------
(***************************************************************************)
(* Theorems about Hub: for any number of overlapping callbacks, requests,  *)
(* people and sessions, each of its halves behaves as its own module says, *)
(* and suspending a user and forcing a logout locks the user out.          *)
(*                                                                         *)
(* The steps of the hub are mapped to those of Sessions and of Login, and  *)
(* what SessionsProofs and LoginProofs prove about a step is used here.    *)
(***************************************************************************)
EXTENDS Hub, TLAPS

SP == INSTANCE SessionsProofs WITH User <- UserId, sso_sessions <- rows

LP == INSTANCE LoginProofs WITH
        Request <- LoginRequest, pc <- step, out <- code, faults <- failures

\* A request that is to lock somebody out has all of the user's usable sessions
\* in its scope.
Pursues(r) ==
  barring[r] # None /\ pc[r] # "idle" =>
    /\ op[r] = "AdminForceLogout"
    /\ Barred(barring[r])
    /\ \A s \in Session : rows[s].user = barring[r] /\ SP!IsActive(s) => s \in scope[r]

\* Deleted rows have no sid.
SidsOfRows ==
  /\ sids \in [Session -> LP!Sid \cup {None}]
  /\ \A s \in Session : rows[s].state = "deleted" => sids[s] = None

LockedOut ==
  \A u \in lockedOut :
    Barred(u) /\ \A s \in Session : rows[s].user = u => SP!Lapsed(s)

\* The inductive invariant: those of the two halves, and what relates them.
IInv ==
  /\ SP!IInv /\ LP!IInv
  /\ SidsOfRows
  /\ barring \in [Request -> UserId \cup {None}]
  /\ lockedOut \subseteq UserId
  /\ \A r \in Request : Pursues(r)
  /\ LockedOut

-----------------------------------------------------------------------------
(* The two halves.                                                         *)

\* The assumptions of Sessions hold in the hub.
LEMMA SessionsApplies == SP!SessionsAssumption
BY HubAssumption DEF SP!SessionsAssumption

\* Those of Login do, too.
LEMMA LoginApplies == LP!LoginAssumption
BY HubAssumption DEF LP!LoginAssumption

\* The instance of the proofs' module is that of the specification.
LEMMA SameSessions ==
  /\ \A r \in Request : /\ S!Accept(r) <=> SP!Accept(r)
                        /\ S!Step(r) <=> SP!Step(r)
                        /\ S!StatementFails(r) <=> SP!StatementFails(r)
  /\ \A u \in UserId, s \in Session : S!CreateSession(u, s) <=> SP!CreateSession(u, s)
  /\ \A s \in Session : (S!IsActive(s) <=> SP!IsActive(s)) /\ (S!Lapsed(s) <=> SP!Lapsed(s))
  /\ S!DeleteExpired <=> SP!DeleteExpired
  /\ S!Crash <=> SP!Crash
  /\ S!Tick <=> SP!Tick
  /\ S!Init <=> SP!Init
  /\ S!Next <=> SP!Next
  /\ UNCHANGED S!vars <=> UNCHANGED SP!vars
BY DEF S!Found, SP!Found, S!IsActive, SP!IsActive, S!DbNow, SP!DbNow, S!Lapsed,
   SP!Lapsed, S!SetState, SP!SetState,
   S!FindActiveByUserID, SP!FindActiveByUserID, S!RevokeByID, SP!RevokeByID,
   S!RevokeAllForUser, SP!RevokeAllForUser, S!NoError, SP!NoError, S!NotFound, SP!NotFound,
   S!SessionExpired, SP!SessionExpired, S!ErrNoRows, SP!ErrNoRows, S!ValidateSession,
   SP!ValidateSession, S!isExpiredOrNotFound, SP!isExpiredOrNotFound, S!Begin, SP!Begin,
   S!Goto, SP!Goto, S!Reply, SP!Reply, S!Logout, SP!Logout, S!ActiveOf, SP!ActiveOf,
   S!LogoutAll, SP!LogoutAll, S!AdminForceLogout, SP!AdminForceLogout, S!ListUserSessions,
   SP!ListUserSessions, S!RevokeSession, SP!RevokeSession, S!GetSession, SP!GetSession,
   S!Abort, SP!Abort, S!Refuse, SP!Refuse, S!LookupSession, SP!LookupSession,
   S!SessionRevoked, SP!SessionRevoked, S!FindByID, SP!FindByID, S!Revoke, SP!Revoke,
   S!AllRevoked, SP!AllRevoked, S!FindActive, SP!FindActive, S!RevokeAll, SP!RevokeAll,
   S!Dispatch, SP!Dispatch, S!Wait, SP!Wait, S!FailureCode, SP!FailureCode, S!StatementFails,
   SP!StatementFails, S!Crash, SP!Crash, S!CreateSession, SP!CreateSession, S!DeleteExpired,
   SP!DeleteExpired, S!Tick, SP!Tick, S!Accept, SP!Accept, S!Step, SP!Step, S!args, SP!args,
   S!table, SP!table, S!local, SP!local, S!vars, SP!vars, S!Next, SP!Next, S!Init, SP!Init

\* So it is with Login.
LEMMA SameLogin ==
  /\ \A r \in LoginRequest :
       /\ \A p \in Person, x \in L!Sid : L!Callback(r, p, x) <=> LP!Callback(r, p, x)
       /\ L!CallbackRefused(r) <=> LP!CallbackRefused(r)
       /\ L!FindByCasdoorID(r) <=> LP!FindByCasdoorID(r)
       /\ L!Save(r) <=> LP!Save(r)
       /\ L!CreateSession(r) <=> LP!CreateSession(r)
       /\ L!UpdateLastLogin(r) <=> LP!UpdateLastLogin(r)
       /\ L!StatementFails(r) <=> LP!StatementFails(r)
  /\ \A u \in UserId : /\ L!SuspendUser(u) <=> LP!SuspendUser(u)
                       /\ L!Delete(u) <=> LP!Delete(u)
  /\ L!Crash <=> LP!Crash
  /\ L!Sid = LP!Sid
  /\ L!Init <=> LP!Init
  /\ L!Next <=> LP!Next
  /\ UNCHANGED L!vars <=> UNCHANGED LP!vars
BY DEF L!Exists, LP!Exists, L!Goto, LP!Goto, L!Reply, LP!Reply, L!Callback, LP!Callback,
   L!CallbackRefused, LP!CallbackRefused, L!Fresh, LP!Fresh, L!FindByCasdoorID,
   LP!FindByCasdoorID, L!CanSave, LP!CanSave, L!EmailMayClash, LP!EmailMayClash, L!Upsert,
   LP!Upsert, L!Save, LP!Save, L!CanInsert, LP!CanInsert, L!Insert, LP!Insert,
   L!CreateSession, LP!CreateSession, L!UpdateLastLogin, LP!UpdateLastLogin, L!StatementFails,
   LP!StatementFails, L!Crash, LP!Crash, L!UpdateStatus, LP!UpdateStatus, L!SuspendUser,
   LP!SuspendUser, L!Delete, LP!Delete, L!EndSessions, LP!EndSessions, L!NoCopy, LP!NoCopy,
   L!tables, LP!tables, L!local, LP!local, L!vars, LP!vars, L!Sid, LP!Sid, L!Step, LP!Step,
   L!Next, LP!Next, L!Init, LP!Init

-----------------------------------------------------------------------------
(* Every step of the hub is one of Sessions, and one of Login.             *)

\* A callback that inserts a session holds a row's id.
LEMMA CopyHasId ==
  ASSUME IInv, NEW r \in LoginRequest, step[r] = "CreateSession"
  PROVE  copy[r].id \in UserId
BY DEF IInv, LP!IInv, LP!Knows, LP!Copy

\* What leaves the table and the requests alone is a stutter of Sessions.
LEMMA SessionsStutter ==
  ASSUME UNCHANGED <<now, rows, requests>> PROVE UNCHANGED SP!vars
BY DEF requests, SP!vars, SP!table, SP!args, SP!local

\* The INSERT of a callback is a CreateSession of Sessions.
LEMMA InsertIsCreate ==
  ASSUME IInv, NEW r \in LoginRequest, step[r] = "CreateSession", InsertRow(r)
  PROVE  SP!Next
BY CopyHasId, SameSessions DEF InsertRow, SP!Next

\* A step of the hub is one of Sessions, or invisible to it.
LEMMA ToSessions == ASSUME IInv, [Next]_vars PROVE [SP!Next]_SP!vars
<1>1. CASE UNCHANGED vars
  BY <1>1, SessionsStutter DEF vars
<1>2. ASSUME NEW r \in Request, Arrive(r) \/ Serve(r) \/ RequestFails(r) PROVE SP!Next
  BY <1>2, SameSessions DEF Arrive, Serve, RequestFails, SP!Next
<1>3. ASSUME NEW r \in LoginRequest, Begin(r) \/ LogIn(r) \/ CreateSession(r) \/ LogInFails(r)
      PROVE  [SP!Next]_SP!vars
  BY <1>3, InsertIsCreate, SessionsStutter DEF Begin, LogIn, CreateSession, LogInFails
<1>4. CASE Administer \/ DeleteExpired \/ Crash \/ Tick
  BY <1>4, SameSessions, SessionsStutter DEF Administer, DeleteExpired, Crash, Tick, SP!Next
<1> QED BY <1>1, <1>2, <1>3, <1>4 DEF Next

\* The table of Login is that of Sessions with the sids.
LEMMA View ==
  /\ sso_sessions = [s \in Session |-> [state |-> rows[s].state, user |-> rows[s].user,
                                        sid |-> sids[s]]]
  /\ sso_sessions' = [s \in Session |-> [state |-> rows'[s].state, user |-> rows'[s].user,
                                         sid |-> sids'[s]]]
BY DEF sso_sessions

\* What leaves both tables and the callbacks alone is a stutter of Login.
LEMMA LoginStutter ==
  ASSUME UNCHANGED <<rows, sids, callbacks>> PROVE UNCHANGED LP!vars
<1>1. sso_sessions' = sso_sessions
  BY View
<1> QED BY <1>1 DEF callbacks, LP!vars, LP!tables, LP!local

\* A statement of a request revokes active rows, or none.
LEMMA StatementRevokes ==
  ASSUME IInv, NEW r \in Request, SP!Step(r) \/ SP!StatementFails(r)
  PROVE  \E R \in SUBSET Session :
           \A s \in Session :
             /\ s \in R => rows[s].state = "active"
             /\ rows'[s].user = rows[s].user
             /\ rows'[s].state = IF s \in R THEN "revoked" ELSE rows[s].state
<1>1. rows \in [Session -> SP!Row]
  BY DEF IInv, SP!IInv, SP!TypeOK
<1>2. CASE UNCHANGED rows
  <2>1. \A s \in Session :
          /\ s \in {} => rows[s].state = "active"
          /\ rows'[s].user = rows[s].user
          /\ rows'[s].state = IF s \in {} THEN "revoked" ELSE rows[s].state
    BY <1>2
  <2> WITNESS {} \in SUBSET Session
  <2> QED BY <2>1
<1>3. ASSUME NEW T \in SUBSET Session, SP!SetState(T, "revoked"),
             \A s \in T : rows[s].state \in {"active", "revoked"}
      PROVE  \E R \in SUBSET Session :
               \A s \in Session :
                 /\ s \in R => rows[s].state = "active"
                 /\ rows'[s].user = rows[s].user
                 /\ rows'[s].state = IF s \in R THEN "revoked" ELSE rows[s].state
  <2> DEFINE R == {s \in T : rows[s].state = "active"}
  <2>1. ASSUME NEW s \in Session
        PROVE  /\ s \in R => rows[s].state = "active"
               /\ rows'[s].user = rows[s].user
               /\ rows'[s].state = IF s \in R THEN "revoked" ELSE rows[s].state
    <3>1. rows[s] \in SP!Row
      BY <1>1
    <3> QED BY <1>3, <3>1 DEF SP!SetState, SP!Row
  <2> QED BY <2>1
<1>4. CASE SP!RevokeByID(sess[r]) /\ pc[r] = "Revoke"
  <2>1. sess[r] \in Session
    BY <1>4 DEF IInv, SP!IInv, SP!Placed
  <2> DEFINE T == {t \in {sess[r]} : SP!Found(t)}
  <2>2. T \in SUBSET Session /\ \A s \in T : rows[s].state \in {"active", "revoked"}
    BY <2>1 DEF SP!Found
  <2>3. SP!SetState(T, "revoked")
    BY <1>4 DEF SP!RevokeByID
  <2> HIDE DEF T
  <2> QED BY <1>3, <2>2, <2>3
<1>5. CASE SP!RevokeAllForUser(user[r])
  <2> DEFINE T == {s \in Session : rows[s].user = user[r] /\ rows[s].state = "active"}
  <2>1. SP!SetState(T, "revoked")
    BY <1>5 DEF SP!RevokeAllForUser
  <2>2. \A s \in T : rows[s].state \in {"active", "revoked"}
    OBVIOUS
  <2> HIDE DEF T
  <2>3. T \in SUBSET Session
    BY DEF T
  <2> QED BY <1>3, <2>1, <2>2, <2>3
<1> QED
  BY <1>2, <1>4, <1>5
  DEF SP!Step, SP!StatementFails, SP!LookupSession, SP!FindByID, SP!Revoke, SP!FindActive,
      SP!RevokeAll, SP!Dispatch, SP!Wait, SP!table

\* That is an EndSessions of Login.
LEMMA StatementIsEndSessions ==
  ASSUME IInv, NEW r \in Request, SP!Step(r) \/ SP!StatementFails(r),
         UNCHANGED <<sids, callbacks>>
  PROVE  [LP!Next]_LP!vars
<1>1. PICK R \in SUBSET Session :
        \A s \in Session :
          /\ s \in R => rows[s].state = "active"
          /\ rows'[s].user = rows[s].user
          /\ rows'[s].state = IF s \in R THEN "revoked" ELSE rows[s].state
  BY StatementRevokes
<1>2. /\ \A s \in R : sso_sessions[s].state = "active"
      /\ sso_sessions' = [s \in Session |->
           IF s \in R THEN [sso_sessions[s] EXCEPT !.state = "revoked"] ELSE sso_sessions[s]]
  BY <1>1, View
<1>3. CASE R = {}
  <2>1. sso_sessions' = sso_sessions
    BY <1>1, <1>3, View
  <2> QED BY <2>1 DEF callbacks, LP!vars, LP!tables, LP!local
<1>4. CASE R # {}
  <2>1. LP!EndSessions(R)
    BY <1>2, <1>4 DEF LP!EndSessions, callbacks, LP!local
  <2> QED BY <2>1 DEF LP!Next
<1> QED BY <1>3, <1>4

\* The cleanup is one as well.
LEMMA CleanupIsEndSessions ==
  ASSUME IInv, DeleteExpired PROVE LP!Next
<1> DEFINE gone == {s \in Session : rows[s].state = "active" /\ rows[s].expires_at < SP!DbNow}
<1>1. SP!DeleteExpired /\ UNCHANGED callbacks
  BY SameSessions DEF DeleteExpired
<1>2. gone # {} /\ SP!SetState(gone, "deleted")
  BY <1>1 DEF SP!DeleteExpired
<1>3. sids' = [s \in Session |-> IF rows'[s].state = "deleted" THEN None ELSE sids[s]]
  BY DEF DeleteExpired
<1>4. ASSUME NEW s \in Session
      PROVE  /\ rows'[s].user = rows[s].user
             /\ rows'[s].state = IF s \in gone THEN "deleted" ELSE rows[s].state
             /\ sids'[s] = IF s \in gone THEN None ELSE sids[s]
  <2>1. rows[s] \in SP!Row
    BY DEF IInv, SP!IInv, SP!TypeOK
  <2>2. /\ rows'[s].user = rows[s].user
        /\ rows'[s].state = IF s \in gone THEN "deleted" ELSE rows[s].state
    BY <1>2, <2>1 DEF SP!SetState, SP!Row
  <2> QED BY <1>3, <2>2 DEF IInv, SidsOfRows
<1>5. \A s \in gone : sso_sessions[s].state = "active"
  BY View
<1> HIDE DEF gone
<1>6. sso_sessions' = [s \in Session |->
        IF s \in gone THEN [sso_sessions[s] EXCEPT !.state = "deleted", !.sid = None]
                      ELSE sso_sessions[s]]
  BY <1>4, View
<1>7. gone \in SUBSET Session
  BY DEF gone
<1>8. LP!EndSessions(gone)
  BY <1>1, <1>2, <1>5, <1>6 DEF LP!EndSessions, callbacks, LP!local
<1> QED BY <1>7, <1>8 DEF LP!Next

\* A step of the hub is one of Login, or invisible to it.
LEMMA ToLogin == ASSUME IInv, [Next]_vars PROVE [LP!Next]_LP!vars
<1>1. CASE UNCHANGED vars
  BY <1>1, LoginStutter DEF vars
<1>2. ASSUME NEW r \in Request, Arrive(r) PROVE [LP!Next]_LP!vars
  <2>1. SP!Accept(r) /\ UNCHANGED <<sids, callbacks>>
    BY <1>2, SameSessions DEF Arrive
  <2>2. SP!TypeOK
    BY DEF IInv, SP!IInv
  <2>3. UNCHANGED SP!table
    BY <2>1, <2>2, SP!AcceptLocal, SessionsApplies
  <2> QED BY <2>1, <2>3, LoginStutter DEF SP!table
<1>3. ASSUME NEW r \in Request, Serve(r) \/ RequestFails(r) PROVE [LP!Next]_LP!vars
  <2>1. (SP!Step(r) \/ SP!StatementFails(r)) /\ UNCHANGED <<sids, callbacks>>
    BY <1>3, SameSessions DEF Serve, RequestFails
  <2> QED BY <2>1, StatementIsEndSessions
<1>4. ASSUME NEW r \in LoginRequest, Begin(r) \/ LogIn(r) \/ CreateSession(r) \/ LogInFails(r)
      PROVE  LP!Next
  BY <1>4, SameLogin DEF Begin, LogIn, CreateSession, LogInFails, LP!Next, LP!Step
<1>5. CASE Administer
  BY <1>5, SameLogin DEF Administer, LP!Next
<1>6. CASE DeleteExpired
  BY <1>6, CleanupIsEndSessions
<1>7. CASE Crash
  <2>1. UNCHANGED rows /\ UNCHANGED sids
    BY <1>7, SameSessions DEF Crash, SP!Crash, SP!table
  <2>2. CASE UNCHANGED callbacks
    BY <2>1, <2>2, LoginStutter
  <2>3. CASE L!Crash
    BY <2>3, SameLogin DEF LP!Next
  <2> QED BY <1>7, <2>2, <2>3 DEF Crash
<1>8. CASE Tick
  BY <1>8, SameSessions, LoginStutter DEF Tick, SP!Tick
<1> QED BY <1>1, <1>2, <1>3, <1>4, <1>5, <1>6, <1>7, <1>8 DEF Next

-----------------------------------------------------------------------------
(* What the two halves say of a barred user, together.                     *)

\* A barred user stays barred, and the usable sessions of the user only get fewer.
LEMMA Fades ==
  ASSUME IInv, [Next]_vars, NEW u \in UserId, Barred(u)
  PROVE  /\ Barred(u)'
         /\ \A s \in Session : rows'[s].user = u =>
              /\ rows[s].user = u
              /\ SP!IsActive(s)' => SP!IsActive(s)
              /\ SP!Lapsed(s) => SP!Lapsed(s)'
<1>1. LP!Shut(u) /\ LP!IInv /\ [LP!Next]_LP!vars
  BY ToLogin DEF Barred, LP!Shut, IInv
<1>2. LP!Shut(u)' /\ LP!NoneGained(u)
  BY <1>1, LP!ShutStep, LoginApplies
<1>3. SP!TypeOK /\ SP!TableStep
  BY ToSessions, SP!NextForward, SessionsApplies DEF IInv, SP!IInv, SP!Forward
<1>4. ASSUME NEW s \in Session, rows'[s].user = u
      PROVE  /\ rows[s].user = u
             /\ SP!IsActive(s)' => SP!IsActive(s)
             /\ SP!Lapsed(s) => SP!Lapsed(s)'
  <2>1. /\ rows[s].user = u
        /\ rows'[s].state = "active" => rows[s].state = "active"
    BY <1>2, <1>4, View DEF LP!NoneGained
  <2>2. now \in Nat /\ now' \in Nat /\ now <= now' /\ rows[s].expires_at \in Nat
    BY <1>3 DEF SP!TypeOK, SP!TableStep, SP!Row
  <2>3. rows[s].state = "active" => rows'[s].expires_at = rows[s].expires_at
    BY <1>3 DEF SP!TableStep
  <2>4. SP!IsActive(s)' => SP!IsActive(s) /\ rows'[s].expires_at = rows[s].expires_at
    BY <2>1, <2>2, <2>3 DEF SP!IsActive
  <2>5. SP!DbNow \in Int /\ SP!DbNow' \in Int /\ SP!DbNow <= SP!DbNow'
    BY <2>2, HubAssumption DEF SP!DbNow
  <2>6. SP!Lapsed(s) => SP!Lapsed(s)'
    BY <2>2, <2>4, <2>5 DEF SP!Lapsed
  <2> QED BY <2>1, <2>4, <2>6
<1> QED BY <1>2, <1>4 DEF Barred, LP!Shut

\* A forced logout starts with all usable sessions of its user in its scope.
LEMMA ArrivePursues ==
  ASSUME IInv, NEW r \in Request, Arrive(r)
  PROVE  barring' \in [Request -> UserId \cup {None}] /\ Pursues(r)'
<1>1. SP!Accept(r) /\ SP!TypeOK /\ UNCHANGED <<sso_users, copy>>
  BY SameSessions DEF IInv, SP!IInv, Arrive, callbacks
<1>2. UNCHANGED <<now, rows>>
  BY <1>1, SP!AcceptLocal, SessionsApplies DEF SP!table
<1>3. barring' = [barring EXCEPT ![r] =
        IF op'[r] = "AdminForceLogout" /\ Barred(user'[r]) THEN user'[r] ELSE None]
  BY DEF Arrive
<1>4. barring \in [Request -> UserId \cup {None}]
  BY DEF IInv
<1>5. op'[r] = "AdminForceLogout" => user'[r] \in UserId /\ scope'[r] = SP!ActiveOf(user'[r])
  BY <1>1 DEF SP!TypeOK, SP!Accept, SP!Logout, SP!LogoutAll, SP!AdminForceLogout,
     SP!ListUserSessions, SP!RevokeSession, SP!GetSession, SP!Refuse, SP!Abort, SP!Begin
<1>6. barring' \in [Request -> UserId \cup {None}]
  BY <1>3, <1>4, <1>5
<1>7. ASSUME barring'[r] # None PROVE Pursues(r)'
  <2>1. op'[r] = "AdminForceLogout" /\ Barred(user'[r]) /\ barring'[r] = user'[r]
    BY <1>3, <1>4, <1>7
  <2>2. \A s \in Session : rows'[s].user = barring'[r] /\ SP!IsActive(s)' => s \in scope'[r]
    BY <1>2, <1>5, <2>1 DEF SP!ActiveOf, SP!IsActive
  <2>3. Barred(barring[r])'
    BY <1>1, <2>1 DEF Barred
  <2> QED BY <2>1, <2>2, <2>3 DEF Pursues
<1> QED BY <1>6, <1>7 DEF Pursues

\* A request that pursues a user goes on doing so while others, or it, move.
LEMMA StillPursues ==
  ASSUME IInv, [Next]_vars, NEW q \in Request, barring'[q] = barring[q],
         pc'[q] = "idle" \/ (pc[q] # "idle" /\ op'[q] = op[q] /\ scope'[q] = scope[q])
  PROVE  Pursues(q)'
<1> SUFFICES ASSUME barring[q] # None, pc[q] # "idle", op'[q] = op[q], scope'[q] = scope[q]
             PROVE  Pursues(q)'
  BY DEF Pursues
<1>1. PICK u \in UserId : u = barring[q]
  BY DEF IInv
<1>2. /\ op[q] = "AdminForceLogout" /\ Barred(u)
      /\ \A s \in Session : rows[s].user = u /\ SP!IsActive(s) => s \in scope[q]
  BY <1>1 DEF IInv, Pursues
<1>3. /\ Barred(u)'
      /\ \A s \in Session : rows'[s].user = u /\ SP!IsActive(s)' => s \in scope'[q]
  BY <1>2, Fades
<1>4. Barred(barring[q])'
  BY <1>1, <1>3 DEF Barred
<1> QED BY <1>1, <1>2, <1>3, <1>4 DEF Pursues

\* A statement leaves the handler and its scope alone, and replies to its own.
LEMMA StepKeepsScope ==
  ASSUME IInv, NEW r \in Request, SP!Step(r)
  PROVE  pc[r] # "idle" /\ op' = op /\ scope' = scope
BY DEF SP!Step, SP!LookupSession, SP!FindByID, SP!SessionRevoked, SP!Revoke, SP!FindActive,
   SP!RevokeAll, SP!AllRevoked, SP!Dispatch, SP!Wait, SP!Goto, SP!Reply, SP!args

\* Every request pursues its user after a step of any.
LEMMA NextPursues ==
  ASSUME IInv, [Next]_vars
  PROVE  /\ barring' \in [Request -> UserId \cup {None}]
         /\ \A q \in Request : Pursues(q)'
<1>1. SP!TypeOK /\ \A r \in Request : SP!Placed(r)
  BY DEF IInv, SP!IInv
<1>2. ASSUME barring' = barring,
             \A q \in Request : \/ pc'[q] = "idle"
                                \/ pc[q] # "idle" /\ op'[q] = op[q] /\ scope'[q] = scope[q]
      PROVE  /\ barring' \in [Request -> UserId \cup {None}]
             /\ \A q \in Request : Pursues(q)'
  BY <1>2, StillPursues DEF IInv
<1>3. ASSUME UNCHANGED <<pc, op, scope, barring>>
      PROVE  /\ barring' \in [Request -> UserId \cup {None}]
             /\ \A q \in Request : Pursues(q)'
  BY <1>2, <1>3
<1>4. CASE UNCHANGED vars
  BY <1>3, <1>4 DEF vars, requests, history
<1>5. ASSUME NEW r \in Request, Arrive(r)
      PROVE  /\ barring' \in [Request -> UserId \cup {None}]
             /\ \A q \in Request : Pursues(q)'
  <2>1. barring' \in [Request -> UserId \cup {None}] /\ Pursues(r)'
    BY <1>5, ArrivePursues
  <2>2. SP!Only(r)
    BY <1>1, <1>5, SameSessions, SP!AcceptLocal, SessionsApplies DEF Arrive
  <2>3. ASSUME NEW q \in Request, q # r PROVE Pursues(q)'
    <3>1. barring'[q] = barring[q]
      BY <1>5, <2>3 DEF Arrive, IInv
    <3>2. pc'[q] = pc[q] /\ op'[q] = op[q] /\ scope'[q] = scope[q]
      BY <2>2, <2>3 DEF SP!Only
    <3> QED BY <3>1, <3>2, StillPursues
  <2> QED BY <2>1, <2>3
<1>6. ASSUME NEW r \in Request, Serve(r)
      PROVE  /\ barring' \in [Request -> UserId \cup {None}]
             /\ \A q \in Request : Pursues(q)'
  <2>1. SP!Step(r) /\ barring' = barring
    BY <1>6, SameSessions DEF Serve
  <2>2. SP!Only(r) /\ pc[r] # "idle" /\ op' = op /\ scope' = scope
    BY <1>1, <2>1, StepKeepsScope, SP!StepLocal, SessionsApplies
  <2>3. \A q \in Request \ {r} : pc'[q] = pc[q]
    BY <2>2 DEF SP!Only
  <2> QED BY <1>2, <2>1, <2>2, <2>3
<1>7. ASSUME NEW r \in Request, RequestFails(r)
      PROVE  /\ barring' \in [Request -> UserId \cup {None}]
             /\ \A q \in Request : Pursues(q)'
  <2>1. SP!StatementFails(r) /\ barring' = barring
    BY <1>7, SameSessions DEF RequestFails, history
  <2>2. SP!Only(r)
    BY <1>1, <2>1, SP!StatementFailsLocal, SessionsApplies
  <2>3. pc'[r] = "idle"
    BY <1>1, <2>1 DEF SP!StatementFails, SP!Reply, SP!Abort, SP!TypeOK
  <2>4. \A q \in Request \ {r} : pc'[q] = pc[q] /\ op'[q] = op[q] /\ scope'[q] = scope[q]
    BY <2>2 DEF SP!Only
  <2> QED BY <1>2, <2>1, <2>3, <2>4
<1>8. ASSUME NEW r \in LoginRequest, Begin(r) \/ LogIn(r) \/ CreateSession(r) \/ LogInFails(r)
      PROVE  UNCHANGED <<pc, op, scope, barring>>
  <2>1. ASSUME InsertRow(r) PROVE UNCHANGED <<pc, op, scope>>
    BY <2>1 DEF InsertRow, S!CreateSession, S!args, S!local
  <2> QED BY <1>8, <2>1 DEF Begin, LogIn, CreateSession, LogInFails, requests, history
<1>9. CASE Administer \/ DeleteExpired \/ Tick
  <2>1. UNCHANGED <<pc, op, scope, barring>>
    BY <1>9 DEF Administer, DeleteExpired, Tick, S!DeleteExpired, S!Tick, S!args, S!local,
       requests, history
  <2> QED BY <1>3, <2>1
<1>10. CASE Crash
  <2>1. barring' = barring
    BY <1>10 DEF Crash, history
  <2>2. CASE UNCHANGED requests
    BY <1>3, <2>1, <2>2 DEF requests
  <2>3. CASE S!Crash
    BY <1>2, <2>1, <2>3 DEF S!Crash
  <2> QED BY <1>10, <2>2, <2>3 DEF Crash
<1> QED BY <1>3, <1>4, <1>5, <1>6, <1>7, <1>8, <1>9, <1>10 DEF Next

\* Only the cleanup deletes rows, and their sids with them.
LEMMA NextSids == ASSUME IInv, [Next]_vars PROVE SidsOfRows'
<1>1. /\ sids \in [Session -> LP!Sid \cup {None}]
      /\ \A s \in Session : rows[s].state = "deleted" => sids[s] = None
  BY DEF IInv, SidsOfRows
<1>2. ASSUME sids' = sids,
             \A s \in Session : rows'[s].state = "deleted" => rows[s].state = "deleted"
      PROVE  SidsOfRows'
  BY <1>1, <1>2 DEF SidsOfRows, LP!Sid
<1>3. ASSUME UNCHANGED <<rows, sids>> PROVE SidsOfRows'
  BY <1>2, <1>3
<1>4. ASSUME NEW r \in Request, Arrive(r) \/ Serve(r) \/ RequestFails(r) PROVE SidsOfRows'
  <2>1. CASE Arrive(r)
    <3>1. SP!Accept(r) /\ SP!TypeOK /\ UNCHANGED sids
      BY <2>1, SameSessions DEF IInv, SP!IInv, Arrive
    <3>2. UNCHANGED SP!table
      BY <3>1, SP!AcceptLocal, SessionsApplies
    <3> QED BY <1>3, <3>1, <3>2 DEF SP!table
  <2>2. CASE Serve(r) \/ RequestFails(r)
    <3>1. (SP!Step(r) \/ SP!StatementFails(r)) /\ UNCHANGED sids
      BY <2>2, SameSessions DEF Serve, RequestFails
    <3>2. PICK R \in SUBSET Session :
            \A s \in Session :
              /\ s \in R => rows[s].state = "active"
              /\ rows'[s].user = rows[s].user
              /\ rows'[s].state = IF s \in R THEN "revoked" ELSE rows[s].state
      BY <3>1, StatementRevokes
    <3> QED BY <1>2, <3>1, <3>2
  <2> QED BY <1>4, <2>1, <2>2
<1>5. ASSUME NEW r \in LoginRequest, step[r] = "CreateSession", InsertRow(r)
      PROVE  SidsOfRows'
  <2>1. PICK s \in Session : /\ SP!CreateSession(copy[r].id, s)
                             /\ sids' = [sids EXCEPT ![s] = sid[r]]
    BY <1>5, CopyHasId, SameSessions DEF InsertRow
  <2>2. sid[r] \in LP!Sid
    BY <1>5 DEF IInv, LP!IInv, LP!Knows
  <2>3. \A t \in Session : rows'[t].state = "deleted" => rows[t].state = "deleted" /\ t # s
    BY <2>1 DEF SP!CreateSession, IInv, SP!IInv, SP!TypeOK
  <2> QED BY <1>1, <2>1, <2>2, <2>3 DEF SidsOfRows, LP!Sid
<1>6. ASSUME NEW r \in LoginRequest, Begin(r) \/ LogIn(r) \/ CreateSession(r) \/ LogInFails(r)
      PROVE  SidsOfRows'
  BY <1>3, <1>5, <1>6 DEF Begin, LogIn, CreateSession, LogInFails
<1>7. CASE DeleteExpired
  BY <1>1, <1>7 DEF DeleteExpired, SidsOfRows, LP!Sid
<1>8. CASE UNCHANGED vars \/ Administer \/ Crash \/ Tick
  <2>1. UNCHANGED <<rows, sids>>
    BY <1>8, SameSessions DEF vars, Administer, Crash, Tick, SP!Crash, SP!Tick, SP!table
  <2> QED BY <1>3, <2>1
<1> QED BY <1>4, <1>6, <1>7, <1>8 DEF Next

\* Whoever is locked out stays so, and a forced logout of a barred user that is
\* answered with 200 locks the user out.
LEMMA NextLockedOut ==
  ASSUME IInv, [Next]_vars
  PROVE  lockedOut' \subseteq UserId /\ LockedOut'
<1>1. ASSUME lockedOut' = lockedOut
      PROVE  lockedOut' \subseteq UserId /\ LockedOut'
  <2>1. ASSUME NEW u \in lockedOut
        PROVE  Barred(u)' /\ \A s \in Session : rows'[s].user = u => SP!Lapsed(s)'
    BY <2>1, Fades DEF IInv, LockedOut
  <2> QED BY <1>1, <2>1 DEF IInv, LockedOut, Barred
<1>2. ASSUME NEW r \in Request, Serve(r)
      PROVE  lockedOut' \subseteq UserId /\ LockedOut'
  <2>1. /\ SP!Step(r) /\ barring' = barring
        /\ \/ lockedOut' = lockedOut
           \/ out'[r] = 200 /\ lockedOut' = lockedOut \cup ({barring[r]} \ {None})
    BY <1>2, SameSessions DEF Serve
  <2>2. CASE lockedOut' = lockedOut
    BY <1>1, <2>2
  <2>3. CASE out'[r] = 200 /\ lockedOut' = lockedOut \cup ({barring[r]} \ {None})
    <3>1. lockedOut' \subseteq UserId
      BY <2>3 DEF IInv
    <3>2. ASSUME NEW u \in lockedOut'
          PROVE  Barred(u)' /\ \A s \in Session : rows'[s].user = u => SP!Lapsed(s)'
      <4>1. CASE u \in lockedOut
        BY <3>2, <4>1, Fades DEF IInv, LockedOut
      <4>2. CASE u = barring[r] /\ u # None
        <5>1. pc[r] # "idle" /\ op'[r] = op[r] /\ scope'[r] = scope[r]
          BY <2>1, StepKeepsScope
        <5>2. /\ op[r] = "AdminForceLogout" /\ Barred(u)
              /\ \A s \in Session : rows[s].user = u /\ SP!IsActive(s) => s \in scope[r]
          BY <4>2, <5>1 DEF IInv, Pursues
        <5>3. SP!IInv'
          BY ToSessions, SP!NextInvariant, SessionsApplies DEF IInv
        <5>4. \A s \in scope'[r] : SP!Lapsed(s)'
          BY <2>3, <5>1, <5>2, <5>3 DEF SP!IInv, SP!Asked, SP!Terminating, SP!Over
        <5>5. u \in UserId
          BY <3>1, <3>2
        <5>6. Barred(u)' /\ \A s \in Session : rows'[s].user = u =>
                              rows[s].user = u /\ (SP!IsActive(s)' => SP!IsActive(s))
          BY <5>2, <5>5, Fades
        <5>7. \A s \in Session : ~SP!IsActive(s)' => SP!Lapsed(s)'
          BY DEF SP!Lapsed, SP!IsActive
        <5> QED BY <5>1, <5>2, <5>4, <5>6, <5>7
      <4> QED BY <2>3, <3>2, <4>1, <4>2
    <3> QED BY <3>1, <3>2 DEF LockedOut, Barred
  <2> QED BY <2>1, <2>2, <2>3
<1>3. CASE UNCHANGED vars
  BY <1>1, <1>3 DEF vars, history
<1>4. CASE \/ \E r \in Request : Arrive(r) \/ RequestFails(r)
           \/ \E r \in LoginRequest : Begin(r) \/ LogIn(r) \/ CreateSession(r) \/ LogInFails(r)
           \/ Administer \/ DeleteExpired \/ Crash \/ Tick
  <2>1. lockedOut' = lockedOut
    BY <1>4 DEF Arrive, RequestFails, Begin, LogIn, CreateSession, LogInFails, Administer,
       DeleteExpired, Crash, Tick, history
  <2> QED BY <1>1, <2>1
<1> QED BY <1>2, <1>3, <1>4 DEF Next

-----------------------------------------------------------------------------
(* The inductive invariant.                                                *)

\* The initial state satisfies the inductive invariant.
LEMMA InitIInv == Init => IInv
<1> SUFFICES ASSUME Init PROVE IInv
  OBVIOUS
<1>1. SP!Init
  BY SameSessions DEF Init
<1>2. SP!IInv
  BY <1>1, SP!InitInvariant, SessionsApplies
<1>3. LP!Init
  BY SameLogin DEF Init
<1>4. LP!IInv
  BY <1>3, LP!InitIInv, LoginApplies
<1>5. SidsOfRows
  BY DEF Init, SidsOfRows
<1>6. \A r \in Request : Pursues(r)
  BY DEF Init, Pursues
<1> QED BY <1>2, <1>4, <1>5, <1>6 DEF Init, IInv, LockedOut

\* Every step keeps it.
LEMMA NextIInv == IInv /\ [Next]_vars => IInv'
<1> SUFFICES ASSUME IInv, [Next]_vars PROVE IInv'
  OBVIOUS
<1>1. SP!IInv'
  BY ToSessions, SP!NextInvariant, SessionsApplies DEF IInv
<1>2. LP!IInv'
  BY ToLogin, LP!NextIInv, LoginApplies DEF IInv
<1>3. SidsOfRows'
  BY NextSids
<1>4. barring' \in [Request -> UserId \cup {None}] /\ \A r \in Request : Pursues(r)'
  BY NextPursues
<1>5. lockedOut' \subseteq UserId /\ LockedOut'
  BY NextLockedOut
<1> QED BY <1>1, <1>2, <1>3, <1>4, <1>5 DEF IInv

\* So it holds in every reachable state.
LEMMA Invariance == Spec => []IInv
BY InitIInv, NextIInv, PTL DEF Spec

-----------------------------------------------------------------------------
(* The theorems.                                                           *)

\* Suspending or deleting a user, waiting for the logins in flight, and a forced
\* logout answered with 200 lock the user out for good, but for the difference of
\* the clocks (identity/service.go:64, logout_handler.go:73).
THEOREM LocksOut == Spec => []ForcedLogoutLocksOut
<1>1. IInv => ForcedLogoutLocksOut
  BY SameSessions DEF IInv, LockedOut, ForcedLogoutLocksOut
<1> QED BY <1>1, Invariance, PTL

\* A barred user stays barred and gets no session, whatever callbacks, logouts,
\* failures and crashes follow (auth/service.go:106-139).
THEOREM StaysBarred == Spec => BarredStaysOut
<1>1. IInv /\ [Next]_vars =>
        [\A u \in UserId : Barred(u) =>
           /\ Barred(u)'
           /\ \A s \in Session : rows'[s].user = u => rows[s].user = u]_vars
  BY Fades
<1> QED BY <1>1, Invariance, PTL DEF Spec, BarredStaysOut

\* What the requests, the cleanup and the crashes of the hub do to the table is
\* what Login allows its environment to do: the callbacks of the hub implement
\* Login (auth/service.go:106-139, session/service.go:54-89).
THEOREM RefinesLogin == Spec => LoginSpec
<1>1. Init => L!Init
  BY DEF Init
<1>2. IInv /\ [Next]_vars => [L!Next]_L!vars
  BY ToLogin, SameLogin
<1> QED BY <1>1, <1>2, Invariance, PTL DEF Spec, LoginSpec, L!Spec

\* So are the callbacks' INSERTs logins of Sessions: the requests of the hub
\* implement Sessions, and what is proved of it holds in the hub
\* (session/service.go:36, session_repo.go:24).
THEOREM RefinesSessions == Spec => S!Spec
<1>1. Init => S!Init
  BY DEF Init
<1>2. IInv /\ [Next]_vars => [S!Next]_S!vars
  BY ToSessions, SameSessions
<1> QED BY <1>1, <1>2, Invariance, PTL DEF Spec, S!Spec

\* The same for the instances of the proof modules.
LEMMA BehavesAsSessions == Spec => SP!Spec
<1>1. Init => SP!Init
  BY SameSessions DEF Init
<1>2. IInv /\ [Next]_vars => [SP!Next]_SP!vars
  BY ToSessions
<1> QED BY <1>1, <1>2, Invariance, PTL DEF Spec, SP!Spec

\* And for the callbacks.
LEMMA BehavesAsLogin == Spec => LP!Spec
<1>1. Init => LP!Init
  BY SameLogin DEF Init
<1>2. IInv /\ [Next]_vars => [LP!Next]_LP!vars
  BY ToLogin
<1> QED BY <1>1, <1>2, Invariance, PTL DEF Spec, LP!Spec

\* With callbacks inserting the sessions, logouts still end what they were asked
\* to end, hand out logout tokens for sessions that are over only and for those of
\* one user, and carry the sessions they end to the fan-out (logout/service.go:91-155).
THEOREM LogoutsInTheHub ==
  Spec => /\ []SP!DispatchedIsDead
          /\ []SP!SuccessfulLogoutTerminates
          /\ []SP!FanOutNamesOneUser
          /\ SP!EndedAreCarried
BY BehavesAsSessions, SessionsApplies, SP!DispatchedSessionsAreDead, SP!LogoutTerminates,
   SP!OneUserPerFanOut, SP!RevocationsAreCarried, PTL

\* The sessions of the composed hub keep the promise of SessionLifecycle: opened
\* once, ended for good, announced when over (session/entity.go:57-67).
THEOREM HubKeepsLifecycle == Spec => SP!LifecycleSpec
BY BehavesAsSessions, SessionsApplies, SP!RefinesLifecycle, PTL

\* With requests, the cleanup and one process around them, callbacks still insert
\* sessions of the right account only, leave a locked-out account without one, and
\* do not let in a person who is shut out (auth/service.go:106-139).
THEOREM LoginsInTheHub ==
  Spec => /\ []LP!SessionForThePerson
          /\ LP!LockoutIsPermanent
          /\ LP!ShutOutStaysOut
BY BehavesAsLogin, LoginApplies, LP!RightPerson, LP!Lockout, LP!NoSecondAccount, PTL
=============================================================================
