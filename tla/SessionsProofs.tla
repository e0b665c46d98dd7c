--------------------------- MODULE SessionsProofs ---------------------------
(***************************************************************************)
(* Proofs about Sessions, for every number of users, sessions, requests    *)
(* and faults.  A step of one request concerns the others only through the *)
(* table, so the argument has three parts: the table only moves forward    *)
(* (TableStep), what a request knows survives such a step (OtherRequests), *)
(* and each statement establishes what its own request knows next.         *)
(***************************************************************************)
EXTENDS Sessions, TLAPS

Known(r) == Placed(r) /\ Carried(r) /\ Asked(r)

\* No row returns to an earlier state, changes owner or gets a later expiry.
TableStep ==
  /\ now \in Nat /\ now' \in Nat /\ now <= now'
  /\ \A s \in Session :
       /\ sso_sessions[s].state # "none" =>
            /\ sso_sessions'[s].state # "none"
            /\ sso_sessions'[s].user = sso_sessions[s].user
            /\ sso_sessions'[s].expires_at = sso_sessions[s].expires_at
       /\ sso_sessions[s].state = "none" /\ sso_sessions'[s].state # "none"
            => sso_sessions'[s].user \in User
       /\ Ended(s) => Ended(s)'

-----------------------------------------------------------------------------
(* The table.                                                              *)

\* An UPDATE or DELETE ends exactly the rows it selects.
LEMMA SetStateMeaning ==
  ASSUME TypeOK, NEW S \in SUBSET Session, NEW st \in {"revoked", "deleted"},
         \A s \in S : sso_sessions[s].state # "none",
         SetState(S, st)
  PROVE  /\ sso_sessions' \in [Session -> Row]
         /\ \A s \in S : sso_sessions'[s].state = st
         /\ \A s \in Session \ S : sso_sessions'[s] = sso_sessions[s]
         /\ \A s \in Session : /\ sso_sessions'[s].user = sso_sessions[s].user
                               /\ sso_sessions'[s].expires_at = sso_sessions[s].expires_at
<1>1. /\ DOMAIN sso_sessions = Session
      /\ \A s \in Session : sso_sessions[s] \in Row
  BY DEF TypeOK
<1>2. sso_sessions' = [s \in Session |-> IF s \in S THEN [sso_sessions[s] EXCEPT !.state = st]
                                                   ELSE sso_sessions[s]]
  BY <1>1 DEF SetState
<1>3. \A s \in S : [sso_sessions[s] EXCEPT !.state = st] \in Row
  BY <1>1 DEF Row
<1>4. sso_sessions' \in [Session -> Row]
  BY <1>1, <1>2, <1>3
<1>5. \A s \in Session \ S : sso_sessions'[s] = sso_sessions[s]
  BY <1>2
<1>6. \A s \in S : /\ sso_sessions'[s].state = st
                   /\ sso_sessions'[s].user = sso_sessions[s].user
                   /\ sso_sessions'[s].expires_at = sso_sessions[s].expires_at
  BY <1>1, <1>2 DEF Row
<1> QED BY <1>4, <1>5, <1>6

\* Such a statement moves the table forward.
LEMMA SetStateForward ==
  ASSUME TypeOK, NEW S \in SUBSET Session, NEW st \in {"revoked", "deleted"},
         \A s \in S : sso_sessions[s].state # "none",
         SetState(S, st), UNCHANGED now
  PROVE  TableStep
<1>1. now \in Nat /\ now' \in Nat /\ now <= now'
  BY DEF TypeOK
<1>2. ASSUME NEW s \in Session
      PROVE  /\ sso_sessions[s].state # "none" =>
                  /\ sso_sessions'[s].state # "none"
                  /\ sso_sessions'[s].user = sso_sessions[s].user
                  /\ sso_sessions'[s].expires_at = sso_sessions[s].expires_at
             /\ sso_sessions[s].state = "none" /\ sso_sessions'[s].state # "none"
                  => sso_sessions'[s].user \in User
             /\ Ended(s) => Ended(s)'
  <2>1. CASE s \in S
    BY <2>1, SetStateMeaning DEF Ended
  <2>2. CASE s \notin S
    BY <2>2, SetStateMeaning DEF Ended
  <2> QED BY <2>1, <2>2
<1> QED BY <1>1, <1>2 DEF TableStep

\* The same for the two UPDATEs of the repository, with what they end.
LEMMA RevokeByIDMeaning ==
  ASSUME TypeOK, NEW s \in Session, RevokeByID(s), UNCHANGED now
  PROVE  /\ TableStep
         /\ sso_sessions' \in [Session -> Row]
         /\ sso_sessions[s].state # "none" => Ended(s)'
         /\ \A t \in Session : sso_sessions[t].state = "active"
               => sso_sessions'[t].state = "active" \/ t = s
<1> DEFINE S == {t \in {s} : Found(t)}
<1>1. S \in SUBSET Session /\ \A t \in S : sso_sessions[t].state # "none"
  BY DEF Found
<1>2. SetState(S, "revoked")
  BY DEF RevokeByID
<1>3. /\ TableStep
      /\ sso_sessions' \in [Session -> Row]
      /\ \A t \in S : sso_sessions'[t].state = "revoked"
      /\ \A t \in Session \ S : sso_sessions'[t] = sso_sessions[t]
  <2> HIDE DEF S
  <2> QED BY <1>1, <1>2, SetStateMeaning, SetStateForward
<1>4. ASSUME sso_sessions[s].state # "none" PROVE Ended(s)'
  <2>1. CASE Found(s)
    BY <1>3, <2>1 DEF Ended
  <2>2. CASE ~Found(s)
    BY <1>3, <1>4, <2>2 DEF Ended, Found, TypeOK, Row
  <2> QED BY <2>1, <2>2
<1> QED BY <1>3, <1>4

\* The bulk UPDATE ends every session of the user, and nobody else's.
LEMMA RevokeAllMeaning ==
  ASSUME TypeOK, NEW u \in User, RevokeAllForUser(u), UNCHANGED now
  PROVE  /\ TableStep
         /\ sso_sessions' \in [Session -> Row]
         /\ \A s \in Session : Owned(s, u) => Ended(s)'
         /\ \A s \in Session : sso_sessions[s].state = "active"
               => sso_sessions'[s].state = "active" \/ sso_sessions[s].user = u
<1> DEFINE S == {s \in Session : sso_sessions[s].user = u /\ sso_sessions[s].state = "active"}
<1>1. S \in SUBSET Session /\ \A s \in S : sso_sessions[s].state # "none"
  OBVIOUS
<1>2. SetState(S, "revoked")
  BY DEF RevokeAllForUser
<1>3. /\ TableStep
      /\ sso_sessions' \in [Session -> Row]
      /\ \A s \in S : sso_sessions'[s].state = "revoked"
      /\ \A s \in Session \ S : sso_sessions'[s] = sso_sessions[s]
  <2> HIDE DEF S
  <2> QED BY <1>1, <1>2, SetStateMeaning, SetStateForward
<1>4. ASSUME NEW s \in Session, Owned(s, u) PROVE Ended(s)'
  <2>1. CASE s \in S
    BY <1>3, <2>1 DEF Ended
  <2>2. CASE s \notin S
    BY <1>3, <1>4, <2>2 DEF Ended, Owned, TypeOK, Row
  <2> QED BY <2>1, <2>2
<1> QED BY <1>3, <1>4

\* The tick of the clock, and every step that leaves the table alone.
LEMMA ClockForward ==
  ASSUME TypeOK, UNCHANGED sso_sessions, now' \in Nat, now <= now'
  PROVE  TableStep
BY DEF TypeOK, TableStep, Ended

\* A login moves the table forward: the row it writes was never used.
LEMMA CreateSessionForward ==
  ASSUME TypeOK, NEW u \in User, NEW s \in Session, CreateSession(u, s)
  PROVE  TableStep /\ sso_sessions' \in [Session -> Row]
<1>1. MaxAge \in Nat /\ now \in Nat
  BY SessionsAssumption DEF TypeOK
<1>2. [state |-> "active", user |-> u, expires_at |-> now + MaxAge] \in Row
  BY <1>1 DEF Row
<1>3. sso_sessions' \in [Session -> Row]
  BY <1>2 DEF CreateSession, TypeOK
<1>4. TableStep
  BY <1>1 DEF CreateSession, TypeOK, TableStep, Ended
<1> QED BY <1>3, <1>4

\* So does the cleanup: what it deletes can never be used again.
LEMMA DeleteExpiredForward ==
  ASSUME TypeOK, DeleteExpired
  PROVE  TableStep /\ sso_sessions' \in [Session -> Row]
<1> DEFINE S == {s \in Session : /\ sso_sessions[s].state = "active"
                                 /\ sso_sessions[s].expires_at < DbNow}
<1>1. S \in SUBSET Session /\ \A s \in S : sso_sessions[s].state # "none"
  OBVIOUS
<1>2. SetState(S, "deleted") /\ UNCHANGED now
  BY DEF DeleteExpired
<1> HIDE DEF S
<1> QED BY <1>1, <1>2, SetStateMeaning, SetStateForward

-----------------------------------------------------------------------------
(* Type correctness.                                                       *)

\* A step of request r leaves what the other requests hold alone.
Only(r) ==
  \A q \in Request \ {r} :
    /\ pc'[q] = pc[q] /\ op'[q] = op[q] /\ sess'[q] = sess[q] /\ user'[q] = user[q]
    /\ active'[q] = active[q] /\ out'[q] = out[q] /\ scope'[q] = scope[q]

PlainTypes ==
  /\ pc' \in [Request -> {"idle", "ValidateSession", "FindByID", "Revoke",
                          "FindActive", "RevokeAll", "Dispatch", "Wait"}]
  /\ op' \in [Request -> Handlers \cup {"none", "refused"}]
  /\ sess' \in [Request -> Session \cup {None}]
  /\ user' \in [Request -> User \cup {None}]
  /\ active' \in [Request -> SUBSET Session]
  /\ out' \in [Request -> {0, 200, 401, 404, 500, 501}]
  /\ scope' \in [Request -> SUBSET Session]

\* Sending a reply, continuing and starting keep the types of the local state.
LEMMA ReplyLocal ==
  ASSUME TypeOK, NEW r \in Request, NEW code \in {200, 401, 404, 500, 501}, Reply(r, code)
  PROVE  PlainTypes /\ Only(r)
BY DEF TypeOK, PlainTypes, Only, Reply

\* Being turned away by RequireSession is a step of one request.
LEMMA AbortLocal ==
  ASSUME TypeOK, NEW r \in Request, NEW code \in {200, 401, 404}, Abort(r, code)
  PROVE  PlainTypes /\ Only(r)
BY DEF TypeOK, PlainTypes, Only, Abort

\* So is going on with a new list.
LEMMA GotoLocal ==
  ASSUME TypeOK, NEW r \in Request,
         NEW next \in {"FindByID", "Revoke", "RevokeAll", "Dispatch", "Wait"}, Goto(r, next),
         NEW list \in SUBSET Session, active' = [active EXCEPT ![r] = list]
  PROVE  PlainTypes /\ Only(r)
BY DEF TypeOK, PlainTypes, Only, Goto, args

\* Going on with the same list is one too.
LEMMA GotoSameLocal ==
  ASSUME TypeOK, NEW r \in Request,
         NEW next \in {"FindByID", "Revoke", "RevokeAll", "Dispatch", "Wait"}, Goto(r, next),
         UNCHANGED active
  PROVE  PlainTypes /\ Only(r)
BY DEF TypeOK, PlainTypes, Only, Goto, args

\* So is taking a request up: the table and the fan-out are untouched.
LEMMA BeginLocal ==
  ASSUME TypeOK, NEW r \in Request, NEW handler \in Handlers,
         NEW s \in Session \cup {None}, NEW u \in User \cup {None},
         NEW first \in {"ValidateSession", "FindByID", "FindActive"},
         NEW must \in SUBSET Session,
         Begin(r, handler, s, u, first, must)
  PROVE  PlainTypes /\ Only(r) /\ UNCHANGED <<table, dispatched, faults>>
BY DEF TypeOK, PlainTypes, Only, Begin, Handlers

\* The owner of a row, as RequireSession puts it into the context.
LEMMA OwnerTyped ==
  ASSUME TypeOK, NEW s \in Session
  PROVE  sso_sessions[s].user \in User \cup {None}
BY DEF TypeOK, Row

\* ValidateSession yields nil, 401 or 404.
LEMMA ValidateSessionCode ==
  ASSUME NEW s
  PROVE  ValidateSession(s).code \in {200, 401, 404}
BY DEF ValidateSession, NotFound, SessionExpired, NoError

\* An error is never answered with 200.
LEMMA ErrorIsNot200 ==
  ASSUME NEW s, ValidateSession(s) # NoError
  PROVE  ValidateSession(s).code # 200
<1>1. NotFound.code \in {401, 404} /\ SessionExpired.code \in {401, 404}
  BY DEF NotFound, SessionExpired
<1>2. ValidateSession(s) = NotFound \/ ValidateSession(s) = SessionExpired
  BY Zenon DEF ValidateSession
<1>3. ValidateSession(s).code \in {401, 404}
  BY <1>1, <1>2
<1> QED BY <1>3

\* isExpiredOrNotFound compares with texts ValidateSession never produces.
LEMMA NeverExpiredOrNotFound ==
  ASSUME NEW s
  PROVE  ~isExpiredOrNotFound(ValidateSession(s))
<1>1. ~isExpiredOrNotFound(NotFound)
  BY DEF isExpiredOrNotFound, NotFound, ErrNoRows
<1>2. ~isExpiredOrNotFound(SessionExpired)
  BY DEF isExpiredOrNotFound, SessionExpired, ErrNoRows
<1>3. ~isExpiredOrNotFound(NoError)
  BY DEF isExpiredOrNotFound, NoError, ErrNoRows
<1>4. \/ ValidateSession(s) = NotFound \/ ValidateSession(s) = SessionExpired
      \/ ValidateSession(s) = NoError
  BY Zenon DEF ValidateSession
<1> QED BY <1>1, <1>2, <1>3, <1>4, Zenon

\* Every handler starts that way, also when RequireSession refuses.
LEMMA AcceptLocal ==
  ASSUME TypeOK, NEW r \in Request, Accept(r)
  PROVE  PlainTypes /\ Only(r) /\ UNCHANGED <<table, dispatched, faults>>
<1> PICK s \in Session :
       \/ Logout(r, s)
       \/ LogoutAll(r, s)
       \/ \E u \in User : AdminForceLogout(r, s, u)
       \/ ListUserSessions(r, s)
       \/ \E t \in Session : RevokeSession(r, s, t)
       \/ GetSession(r, s)
       \/ Refuse(r, s)
  BY DEF Accept
<1>1. CASE Logout(r, s)
  <2>1. {s} \in SUBSET Session /\ sso_sessions[s].user \in User \cup {None}
    BY OwnerTyped
  <2>2. Begin(r, "Logout", s, sso_sessions[s].user, "ValidateSession", {s})
    BY <1>1 DEF Logout
  <2> QED BY <2>1, <2>2, BeginLocal DEF Handlers
<1>2. CASE LogoutAll(r, s)
  <2>1. /\ ActiveOf(sso_sessions[s].user) \in SUBSET Session
        /\ sso_sessions[s].user \in User \cup {None} /\ None \in Session \cup {None}
    BY OwnerTyped DEF ActiveOf
  <2>2. Begin(r, "LogoutAll", None, sso_sessions[s].user, "FindActive",
              ActiveOf(sso_sessions[s].user))
    BY <1>2 DEF LogoutAll
  <2> QED BY <2>1, <2>2, BeginLocal DEF Handlers
<1>3. ASSUME NEW u \in User, AdminForceLogout(r, s, u)
      PROVE  PlainTypes /\ Only(r) /\ UNCHANGED <<table, dispatched, faults>>
  <2>1. /\ ActiveOf(u) \in SUBSET Session
        /\ u \in User \cup {None} /\ None \in Session \cup {None}
    BY DEF ActiveOf
  <2>2. Begin(r, "AdminForceLogout", None, u, "FindActive", ActiveOf(u))
    BY <1>3 DEF AdminForceLogout
  <2> QED BY <2>1, <2>2, BeginLocal DEF Handlers
<1>4. CASE ListUserSessions(r, s)
  <2>1. /\ {} \in SUBSET Session /\ None \in Session \cup {None}
        /\ sso_sessions[s].user \in User \cup {None}
    BY OwnerTyped
  <2>2. Begin(r, "ListUserSessions", None, sso_sessions[s].user, "FindActive", {})
    BY <1>4 DEF ListUserSessions
  <2> QED BY <2>1, <2>2, BeginLocal DEF Handlers
<1>5. ASSUME NEW t \in Session, RevokeSession(r, s, t)
      PROVE  PlainTypes /\ Only(r) /\ UNCHANGED <<table, dispatched, faults>>
  <2>1. {t} \in SUBSET Session /\ t \in Session \cup {None} /\ None \in User \cup {None}
    OBVIOUS
  <2>2. Begin(r, "RevokeSession", t, None, "FindByID", {t})
    BY <1>5 DEF RevokeSession
  <2> QED BY <2>1, <2>2, BeginLocal DEF Handlers
<1>6. CASE GetSession(r, s)
  <2>1. {} \in SUBSET Session /\ s \in Session \cup {None} /\ None \in User \cup {None}
    OBVIOUS
  <2>2. Begin(r, "GetSession", s, None, "ValidateSession", {})
    BY <1>6 DEF GetSession
  <2> QED BY <2>1, <2>2, BeginLocal DEF Handlers
<1>7. CASE Refuse(r, s)
  <2>1. ValidateSession(s).code \in {200, 401, 404}
    BY ValidateSessionCode
  <2> QED BY <1>7, <2>1 DEF Refuse, Abort, TypeOK, PlainTypes, Only
<1> QED BY <1>1, <1>2, <1>3, <1>4, <1>5, <1>6, <1>7

\* The outcomes of the statements, named for the lemmas that follow.
LEMMA SessionRevokedLocal ==
  ASSUME TypeOK, NEW r \in Request, SessionRevoked(r)
  PROVE  PlainTypes /\ Only(r)
BY ReplyLocal, GotoSameLocal DEF SessionRevoked

\* What follows RevokeAllUserSessions concerns its own request only.
LEMMA AllRevokedLocal ==
  ASSUME TypeOK, NEW r \in Request, NEW list \in SUBSET Session, AllRevoked(r, list)
  PROVE  PlainTypes /\ Only(r)
BY ReplyLocal, GotoLocal DEF AllRevoked

\* Every statement of a handler concerns its own request only.
LEMMA StepLocal ==
  ASSUME TypeOK, NEW r \in Request, Placed(r), Step(r)
  PROVE  PlainTypes /\ Only(r)
<1>1. CASE LookupSession(r)
  <2>1. CASE sess[r] \in Session /\ Goto(r, "FindByID") /\ active' = [active EXCEPT ![r] = {sess[r]}]
    <3>1. {sess[r]} \in SUBSET Session
      BY <2>1
    <3> QED BY <2>1, <3>1, GotoLocal
  <2>2. ASSUME NEW code \in {200, 401, 404}, Reply(r, code) PROVE PlainTypes /\ Only(r)
    BY <2>2, ReplyLocal
  <2>3. ValidateSession(sess[r]).code \in {200, 401, 404}
        /\ ~isExpiredOrNotFound(ValidateSession(sess[r]))
    BY ValidateSessionCode, NeverExpiredOrNotFound
  <2>4. sess[r] \in Session
    BY <1>1 DEF LookupSession, Placed
  <2> QED BY <1>1, <2>1, <2>2, <2>3, <2>4 DEF LookupSession
<1>2. CASE FindByID(r)
  BY <1>2, ReplyLocal, SessionRevokedLocal, GotoSameLocal DEF FindByID
<1>3. CASE Revoke(r)
  BY <1>3, SessionRevokedLocal DEF Revoke
<1>4. CASE FindActive(r)
  <2>1. FindActiveByUserID(user[r]) \in SUBSET Session
    BY DEF FindActiveByUserID
  <2> QED BY <1>4, <2>1, AllRevokedLocal, GotoLocal DEF FindActive
<1>5. CASE RevokeAll(r)
  <2>1. active[r] \in SUBSET Session
    BY DEF TypeOK
  <2> QED BY <1>5, <2>1, AllRevokedLocal DEF RevokeAll
<1>6. CASE Dispatch(r)
  BY <1>6, GotoSameLocal DEF Dispatch
<1>7. CASE Wait(r)
  BY <1>7, ReplyLocal DEF Wait
<1> QED BY <1>1, <1>2, <1>3, <1>4, <1>5, <1>6, <1>7 DEF Step

\* So does a failed one.
LEMMA StatementFailsLocal ==
  ASSUME TypeOK, NEW r \in Request, StatementFails(r)
  PROVE  PlainTypes /\ Only(r)
BY ReplyLocal, AbortLocal DEF StatementFails, FailureCode

-----------------------------------------------------------------------------
(* Every step keeps the types and moves the table forward.                 *)

\* The part of the step relation that is the same for every action.
Forward ==
  /\ TypeOK'
  /\ TableStep
  /\ dispatched \subseteq dispatched'

\* Whoever moves, the types are kept and the table moves forward.
LEMMA NextForward ==
  ASSUME TypeOK, \A r \in Request : Placed(r), [Next]_vars
  PROVE  Forward
<1>1. ASSUME PlainTypes, sso_sessions' \in [Session -> Row], now' \in Nat, faults' \in Nat,
             dispatched' \subseteq Session
      PROVE  TypeOK'
  BY <1>1 DEF TypeOK, PlainTypes, Row, Handlers
<1>2. ASSUME PlainTypes, UNCHANGED <<table, dispatched, faults>> PROVE Forward
  BY <1>1, <1>2, ClockForward DEF Forward, table, TypeOK
<1>3. UNCHANGED <<args, local>> => PlainTypes
  BY DEF TypeOK, PlainTypes, args, local
<1>4. ASSUME NEW r \in Request, Accept(r) PROVE Forward
  BY <1>2, <1>4, AcceptLocal
<1>5. ASSUME NEW r \in Request, Step(r) PROVE Forward
  <2>1. PlainTypes
    BY <1>5, StepLocal
  <2>2. CASE Revoke(r)
    <3>1. RevokeByID(sess[r]) /\ sess[r] \in Session /\ UNCHANGED <<now, dispatched, faults>>
      BY <2>2 DEF Revoke, Placed
    <3> QED BY <1>1, <2>1, <3>1, RevokeByIDMeaning DEF TypeOK, Forward
  <2>3. CASE RevokeAll(r)
    <3>1. RevokeAllForUser(user[r]) /\ user[r] \in User /\ UNCHANGED <<now, dispatched, faults>>
      BY <2>3 DEF RevokeAll, Placed
    <3> QED BY <1>1, <2>1, <3>1, RevokeAllMeaning DEF TypeOK, Forward
  <2>4. CASE Dispatch(r)
    <3>1. UNCHANGED table /\ UNCHANGED faults /\ dispatched' = dispatched \cup active[r]
      BY <2>4 DEF Dispatch
    <3>2. dispatched' \subseteq Session
      BY <3>1 DEF TypeOK
    <3> QED BY <1>1, <2>1, <3>1, <3>2, ClockForward DEF TypeOK, Forward, table
  <2>5. CASE LookupSession(r) \/ FindByID(r) \/ FindActive(r) \/ Wait(r)
    BY <1>2, <2>1, <2>5 DEF LookupSession, FindByID, FindActive, Wait
  <2> QED BY <1>5, <2>2, <2>3, <2>4, <2>5 DEF Step
<1>6. ASSUME NEW r \in Request, StatementFails(r) PROVE Forward
  <2>1. PlainTypes
    BY <1>6, StatementFailsLocal
  <2>2. UNCHANGED <<now, dispatched>> /\ faults' = faults + 1
    BY <1>6 DEF StatementFails
  <2>3. CASE UNCHANGED sso_sessions
    BY <1>1, <2>1, <2>2, <2>3, ClockForward DEF TypeOK, Forward
  <2>4. CASE pc[r] = "Revoke" /\ RevokeByID(sess[r])
    <3>1. sess[r] \in Session
      BY <2>4 DEF Placed
    <3> QED BY <1>1, <2>1, <2>2, <2>4, <3>1, RevokeByIDMeaning DEF TypeOK, Forward
  <2>5. CASE pc[r] = "RevokeAll" /\ RevokeAllForUser(user[r])
    <3>1. user[r] \in User
      BY <2>5 DEF Placed
    <3> QED BY <1>1, <2>1, <2>2, <2>5, <3>1, RevokeAllMeaning DEF TypeOK, Forward
  <2> QED BY <1>6, <2>3, <2>4, <2>5 DEF StatementFails
<1>7. ASSUME NEW u \in User, NEW s \in Session, CreateSession(u, s) PROVE Forward
  <2>1. UNCHANGED <<now, args, local, dispatched, faults>>
    BY <1>7 DEF CreateSession
  <2> QED BY <1>1, <1>3, <1>7, <2>1, CreateSessionForward DEF Forward, TypeOK
<1>8. CASE DeleteExpired
  <2>1. UNCHANGED <<now, args, local, dispatched, faults>>
    BY <1>8 DEF DeleteExpired
  <2> QED BY <1>1, <1>3, <1>8, <2>1, DeleteExpiredForward DEF Forward, TypeOK
<1>9. CASE Crash
  <2>1. PlainTypes
    BY <1>9 DEF Crash, TypeOK, PlainTypes
  <2> QED BY <1>1, <1>9, <2>1, ClockForward DEF Crash, Forward, TypeOK, table
<1>10. CASE Tick
  BY <1>1, <1>3, <1>10, ClockForward DEF Tick, Forward, TypeOK
<1>11. CASE UNCHANGED vars
  BY <1>2, <1>3, <1>11 DEF vars
<1> QED BY <1>4, <1>5, <1>6, <1>7, <1>8, <1>9, <1>10, <1>11 DEF Next

-----------------------------------------------------------------------------
(* What the other requests know survives.                                  *)

\* A session that is not, or not any more, usable by the hub's clock.
Dead(s) == sso_sessions[s].state # "none" /\ ~IsActive(s)

\* What has ended stays ended, what is over stays over, rows keep their owners.
LEMMA EndedForward ==
  ASSUME TypeOK, TableStep, NEW s \in Session
  PROVE  /\ Ended(s) => Ended(s)'
         /\ Dead(s) => Dead(s)'
         /\ Ended(s) => Dead(s)
         /\ Over(s) => Over(s)'
         /\ Dead(s) => Over(s)
         /\ \A u : Owned(s, u) => Owned(s, u)'
<1>1. (Ended(s) => Ended(s)') /\ (Ended(s) => Dead(s))
  BY DEF TableStep, Ended, Dead, IsActive
<1>2. \A u : Owned(s, u) => Owned(s, u)'
  BY DEF TableStep, Owned
<1>3. ASSUME Dead(s) PROVE Dead(s)'
  <2>1. CASE Ended(s)
    BY <1>1, <2>1 DEF Dead, IsActive, Ended
  <2>2. CASE sso_sessions[s].state = "active"
    <3>1. sso_sessions[s].expires_at \in Nat
      BY DEF TypeOK, Row
    <3> QED BY <1>3, <2>2, <3>1 DEF TableStep, Dead, IsActive
  <2>3. sso_sessions[s].state \in {"none", "active", "revoked", "deleted"}
    BY DEF TypeOK, Row
  <2> QED BY <1>3, <2>1, <2>2, <2>3 DEF Ended, Dead
<1>4. Dead(s) => Over(s)
  BY DEF Dead, Over, Lapsed
<1>5. ASSUME Over(s) PROVE Over(s)'
  <2>1. CASE IsActive(s)
    <3>1. /\ sso_sessions'[s].state # "none"
          /\ sso_sessions'[s].expires_at = sso_sessions[s].expires_at
          /\ sso_sessions[s].expires_at \in Nat /\ sso_sessions[s].expires_at <= DbNow
      BY <1>5, <2>1 DEF TableStep, Over, Lapsed, TypeOK, Row
    <3>2. DbNow \in Int /\ DbNow' \in Int /\ DbNow <= DbNow'
      BY SessionsAssumption DEF TableStep, DbNow
    <3>3. sso_sessions'[s].expires_at <= DbNow'
      BY <3>1, <3>2
    <3> QED BY <3>1, <3>3 DEF Over, Lapsed
  <2>2. CASE ~IsActive(s)
    BY <1>3, <1>5, <2>2 DEF Over, Lapsed, Dead
  <2> QED BY <2>1, <2>2
<1> QED BY <1>1, <1>2, <1>3, <1>4, <1>5

\* What a request knows survives every forward step that is not its own.
LEMMA OtherRequests ==
  ASSUME TypeOK, TableStep, dispatched \subseteq dispatched',
         NEW q \in Request, Known(q),
         pc'[q] = pc[q], op'[q] = op[q], sess'[q] = sess[q], user'[q] = user[q],
         active'[q] = active[q], out'[q] = out[q], scope'[q] = scope[q]
  PROVE  Known(q)'
<1>0. active[q] \subseteq Session /\ scope[q] \subseteq Session
  BY DEF TypeOK
<1>1. Placed(q)'
  BY DEF Known, Placed
<1>2. Carried(q)'
  <2>1. pc[q] = "Revoke" => sso_sessions'[sess[q]].state # "none"
    BY DEF Known, Carried, Placed, TableStep
  <2>2. pc[q] \in {"FindByID", "Revoke"} /\ op[q] = "Logout" => active[q] = {sess[q]}
    BY DEF Known, Carried
  <2>3. pc[q] \in {"RevokeAll", "Dispatch"} => \A s \in active[q] : Owned(s, user[q])'
    BY <1>0, EndedForward DEF Known, Carried, Owned
  <2>4. pc[q] = "Dispatch" => \A s \in active[q] : Ended(s)'
    BY <1>0, EndedForward DEF Known, Carried
  <2>5. pc[q] \in {"ValidateSession", "FindByID", "Revoke"} /\ op[q] = "Logout"
          => Owned(sess[q], user[q])'
    BY DEF Known, Carried, Placed, Owned, TableStep
  <2> QED BY <2>1, <2>2, <2>3, <2>4, <2>5 DEF Carried, Owned, Ended
<1>3. Asked(q)'
  <2>1. pc[q] \in {"FindActive", "RevokeAll"} => \A s \in scope[q] : Owned(s, user[q])'
    BY <1>0, EndedForward DEF Known, Asked, Owned
  <2>2. op[q] \in Terminating /\ (pc[q] \in {"Dispatch", "Wait"} \/ out[q] = 200)
          => \A s \in scope[q] : Over(s)'
    BY <1>0, EndedForward DEF Known, Asked
  <2>3. pc[q] \in {"ValidateSession", "FindByID", "Revoke"} /\ op[q] \in Terminating
          => scope[q] = {sess[q]}
    BY DEF Known, Asked
  <2> QED BY <2>1, <2>2, <2>3 DEF Asked, Owned, Over, Lapsed, IsActive, DbNow
<1> QED BY <1>1, <1>2, <1>3 DEF Known

-----------------------------------------------------------------------------
(* What the request that steps knows next.                                 *)

\* A reply needs a justification only when it is 200.
LEMMA ReplyKnown ==
  ASSUME TypeOK, NEW r \in Request, NEW code, Reply(r, code),
         code = 200 /\ op[r] \in Terminating => \A s \in scope[r] : Over(s)'
  PROVE  Known(r)'
<1>1. pc'[r] = "idle" /\ out'[r] = code /\ op'[r] = op[r] /\ scope'[r] = scope[r]
  BY DEF Reply, TypeOK
<1>2. Placed(r)' /\ Carried(r)'
  BY <1>1 DEF Placed, Carried
<1>3. Asked(r)'
  BY <1>1 DEF Asked, Over, Lapsed, IsActive, DbNow
<1> QED BY <1>2, <1>3 DEF Known

\* A request that starts knows what its first statement needs.
LEMMA BeginKnown ==
  ASSUME TypeOK, NEW r \in Request, NEW handler, NEW s, NEW u, NEW first, NEW must,
         Begin(r, handler, s, u, first, must),
         \/ first = "ValidateSession" /\ handler \in {"Logout", "GetSession"} /\ s \in Session
         \/ first = "FindByID" /\ handler = "RevokeSession" /\ s \in Session
         \/ /\ first = "FindActive" /\ s = None /\ u \in User
            /\ handler \in {"LogoutAll", "AdminForceLogout", "ListUserSessions"}
            /\ \A t \in must : Owned(t, u),
         handler \in {"Logout", "RevokeSession"} => must = {s},
         handler = "Logout" => Owned(s, u)
  PROVE  Known(r)'
<1>1. /\ pc'[r] = first /\ op'[r] = handler /\ sess'[r] = s /\ user'[r] = u
      /\ scope'[r] = must /\ out'[r] = 0 /\ UNCHANGED sso_sessions
  BY DEF Begin, TypeOK, table
<1>2. Placed(r)' /\ Carried(r)'
  BY <1>1 DEF Placed, Carried, Owned
<1>3. Asked(r)'
  BY <1>1 DEF Asked, Terminating, Owned
<1> QED BY <1>2, <1>3 DEF Known

\* The sessions of a user at admission are rows of that user.
LEMMA ActiveOwned ==
  ASSUME TypeOK, RowsOwned, NEW s \in Session, IsActive(s)
  PROVE  /\ sso_sessions[s].user \in User
         /\ \A u : \A t \in ActiveOf(u) : Owned(t, u)
BY DEF RowsOwned, IsActive, ActiveOf, Owned

\* RequireSession and the handlers pass on arguments of that kind.
LEMMA AcceptKnown ==
  ASSUME TypeOK, RowsOwned, NEW r \in Request, Accept(r)
  PROVE  Known(r)'
<1> PICK s \in Session :
       \/ Logout(r, s)
       \/ LogoutAll(r, s)
       \/ \E u \in User : AdminForceLogout(r, s, u)
       \/ ListUserSessions(r, s)
       \/ \E t \in Session : RevokeSession(r, s, t)
       \/ GetSession(r, s)
       \/ Refuse(r, s)
  BY DEF Accept
<1>1. CASE Logout(r, s)
  <2>1. Begin(r, "Logout", s, sso_sessions[s].user, "ValidateSession", {s})
    BY <1>1 DEF Logout
  <2>2. Owned(s, sso_sessions[s].user)
    BY <1>1 DEF Logout, IsActive, Owned
  <2> QED BY <2>1, <2>2, BeginKnown
<1>2. CASE LogoutAll(r, s)
  <2>1. /\ IsActive(s)
        /\ Begin(r, "LogoutAll", None, sso_sessions[s].user, "FindActive",
                 ActiveOf(sso_sessions[s].user))
    BY <1>2 DEF LogoutAll
  <2> QED BY <2>1, BeginKnown, ActiveOwned
<1>3. ASSUME NEW u \in User, AdminForceLogout(r, s, u) PROVE Known(r)'
  <2>1. /\ IsActive(s)
        /\ Begin(r, "AdminForceLogout", None, u, "FindActive", ActiveOf(u))
    BY <1>3 DEF AdminForceLogout
  <2> QED BY <2>1, BeginKnown, ActiveOwned
<1>4. CASE ListUserSessions(r, s)
  <2>1. /\ IsActive(s)
        /\ Begin(r, "ListUserSessions", None, sso_sessions[s].user, "FindActive", {})
    BY <1>4 DEF ListUserSessions
  <2>2. sso_sessions[s].user \in User
    BY <2>1, ActiveOwned
  <2> QED BY <2>1, <2>2, BeginKnown
<1>5. ASSUME NEW t \in Session, RevokeSession(r, s, t) PROVE Known(r)'
  <2>1. Begin(r, "RevokeSession", t, None, "FindByID", {t})
    BY <1>5 DEF RevokeSession
  <2> QED BY <2>1, BeginKnown
<1>6. CASE GetSession(r, s)
  <2>1. Begin(r, "GetSession", s, None, "ValidateSession", {})
    BY <1>6 DEF GetSession
  <2> QED BY <2>1, BeginKnown
<1>7. CASE Refuse(r, s)
  <2>1. pc'[r] = "idle" /\ op'[r] = "refused"
    BY <1>7 DEF Refuse, Abort, TypeOK
  <2> QED BY <2>1 DEF Known, Placed, Carried, Asked, Terminating
<1> QED BY <1>1, <1>2, <1>3, <1>4, <1>5, <1>6, <1>7

\* RevokeSession (the service) returned nil: the session has ended.
LEMMA SessionRevokedKnown ==
  ASSUME TypeOK, TableStep, NEW r \in Request, Known(r), pc[r] \in {"FindByID", "Revoke"},
         SessionRevoked(r), NEW s \in Session, s = sess[r], Ended(s)'
  PROVE  Known(r)'
<1>1. /\ op[r] \in {"Logout", "RevokeSession"}
      /\ op[r] = "Logout" => active[r] = {s} /\ Owned(s, user[r])
      /\ scope[r] = {s} /\ out[r] = 0
  BY DEF Known, Placed, Carried, Asked, Terminating
<1>2. Over(s)'
  BY DEF Over, Lapsed, Ended, IsActive
<1>3. CASE op[r] = "Logout" /\ Goto(r, "Dispatch") /\ UNCHANGED active
  <2>1. /\ pc'[r] = "Dispatch" /\ op'[r] = "Logout" /\ sess'[r] = s
        /\ active'[r] = {s} /\ scope'[r] = {s} /\ out'[r] = 0
        /\ Owned(s, user[r])' /\ user'[r] = user[r]
    BY <1>1, <1>3 DEF Goto, TypeOK, args, TableStep, Owned
  <2>2. Carried(r)'
    BY <2>1 DEF Carried, Ended, Owned
  <2>3. Asked(r)'
    BY <1>2, <2>1 DEF Asked, Over, Lapsed, IsActive, DbNow
  <2> QED BY <2>1, <2>2, <2>3 DEF Known, Placed
<1>4. CASE op[r] = "RevokeSession" /\ Reply(r, 200)
  BY <1>1, <1>2, <1>4, ReplyKnown
<1> QED BY <1>3, <1>4 DEF SessionRevoked

\* RevokeAllUserSessions returned a list: what is on it has ended.
LEMMA AllRevokedKnown ==
  ASSUME TypeOK, TableStep, NEW r \in Request, Known(r), pc[r] \in {"FindActive", "RevokeAll"},
         NEW list \in SUBSET Session, AllRevoked(r, list),
         \A s \in list : Ended(s)' /\ Owned(s, user[r]),
         op[r] \in Terminating => \A s \in scope[r] : Over(s)'
  PROVE  Known(r)'
<1>1. op[r] \in {"LogoutAll", "AdminForceLogout", "ListUserSessions"} /\ out[r] = 0
  BY DEF Known, Placed
<1>2. CASE op[r] = "ListUserSessions" /\ Reply(r, 501)
  BY <1>2, ReplyKnown
<1>3. CASE /\ op[r] # "ListUserSessions"
           /\ active' = [active EXCEPT ![r] = list]
           /\ Goto(r, "Dispatch")
  <2>1. /\ pc'[r] = "Dispatch" /\ op'[r] = op[r] /\ sess'[r] = sess[r]
        /\ active'[r] = list /\ scope'[r] = scope[r] /\ out'[r] = 0
        /\ user'[r] = user[r] /\ \A s \in list : Owned(s, user[r])'
    BY <1>1, <1>3 DEF Goto, TypeOK, args, TableStep, Owned
  <2>2. Carried(r)'
    BY <2>1 DEF Carried, Ended, Owned
  <2>3. Asked(r)'
    BY <2>1 DEF Asked, Over, Lapsed, IsActive, DbNow
  <2> QED BY <1>1, <1>3, <2>1, <2>2, <2>3 DEF Known, Placed
<1> QED BY <1>2, <1>3 DEF AllRevoked

\* After the second lookup: 200 is answered to GetSession alone, an error never
\* counts as success.
LEMMA LookupSessionKnown ==
  ASSUME TypeOK, TableStep, NEW r \in Request, Known(r), LookupSession(r)
  PROVE  Known(r)'
<1>1. /\ pc[r] = "ValidateSession" /\ sess[r] \in Session /\ out[r] = 0
      /\ op[r] = "Logout" => scope[r] = {sess[r]} /\ Owned(sess[r], user[r])
      /\ UNCHANGED sso_sessions
  BY DEF LookupSession, Known, Placed, Carried, Asked, Terminating, table
<1>2. CASE op[r] = "Logout" /\ active' = [active EXCEPT ![r] = {sess[r]}] /\ Goto(r, "FindByID")
  <2>1. /\ pc'[r] = "FindByID" /\ op'[r] = "Logout" /\ sess'[r] = sess[r]
        /\ active'[r] = {sess[r]} /\ scope'[r] = {sess[r]} /\ out'[r] = 0
        /\ user'[r] = user[r]
    BY <1>1, <1>2 DEF Goto, TypeOK, args
  <2>2. Placed(r)'
    BY <1>1, <2>1 DEF Placed
  <2>3. Owned(sess[r], user[r])'
    BY <1>1, <1>2, <2>1 DEF Owned
  <2>4. Carried(r)'
    BY <2>1, <2>3 DEF Carried
  <2>5. Asked(r)'
    BY <2>1 DEF Asked, Terminating
  <2> QED BY <2>2, <2>4, <2>5 DEF Known
<1>3. CASE op[r] = "GetSession" /\ Reply(r, 200)
  BY <1>3, ReplyKnown DEF Terminating
<1>4. CASE ValidateSession(sess[r]) # NoError /\ Reply(r, ValidateSession(sess[r]).code)
  <2>1. ValidateSession(sess[r]).code # 200
    BY <1>4, ErrorIsNot200
  <2> QED BY <1>4, <2>1, ReplyKnown
<1>5. ~isExpiredOrNotFound(ValidateSession(sess[r]))
  BY NeverExpiredOrNotFound
<1> QED BY <1>2, <1>3, <1>4, <1>5 DEF LookupSession

\* After FindByID the session is known, or has ended already.
LEMMA FindByIDKnown ==
  ASSUME TypeOK, TableStep, NEW r \in Request, Known(r), FindByID(r)
  PROVE  Known(r)'
<1>1. /\ pc[r] = "FindByID" /\ sess[r] \in Session /\ out[r] = 0 /\ UNCHANGED sso_sessions
      /\ op[r] \in {"Logout", "RevokeSession"}
      /\ op[r] = "Logout" => active[r] = {sess[r]} /\ Owned(sess[r], user[r])
      /\ scope[r] = {sess[r]}
  BY DEF FindByID, Known, Placed, Carried, Asked, Terminating, table
<1>2. CASE ~Found(sess[r]) /\ Reply(r, 404)
  BY <1>2, ReplyKnown
<1>3. CASE sso_sessions[sess[r]].state = "revoked" /\ SessionRevoked(r)
  <2>1. PICK s \in Session : s = sess[r]
    BY <1>1
  <2>2. Ended(s)'
    BY <1>1, <1>3, <2>1 DEF Ended
  <2> QED BY <1>1, <1>3, <2>1, <2>2, SessionRevokedKnown
<1>4. CASE sso_sessions[sess[r]].state = "active" /\ Goto(r, "Revoke") /\ UNCHANGED active
  <2>1. /\ pc'[r] = "Revoke" /\ op'[r] = op[r] /\ sess'[r] = sess[r]
        /\ active'[r] = active[r] /\ scope'[r] = scope[r] /\ out'[r] = 0
        /\ user'[r] = user[r] /\ sso_sessions'[sess[r]].state = "active"
    BY <1>1, <1>4 DEF Goto, TypeOK, args
  <2> QED BY <1>1, <2>1 DEF Known, Placed, Carried, Asked, Owned, Terminating
<1> QED BY <1>2, <1>3, <1>4 DEF FindByID

\* After the UPDATE of one row the session has ended.
LEMMA RevokeKnown ==
  ASSUME TypeOK, TableStep, NEW r \in Request, Known(r), Revoke(r)
  PROVE  Known(r)'
<1>1. PICK s \in Session : s = sess[r] /\ sso_sessions[s].state # "none"
  BY DEF Revoke, Known, Placed, Carried
<1>2. Ended(s)'
  BY <1>1, RevokeByIDMeaning DEF Revoke
<1> QED BY <1>1, <1>2, SessionRevokedKnown DEF Revoke

\* After the SELECT: a session that is not on the list is over by the database's
\* clock.
LEMMA FindActiveKnown ==
  ASSUME TypeOK, TableStep, NEW r \in Request, Known(r), FindActive(r)
  PROVE  Known(r)'
<1> DEFINE found == FindActiveByUserID(user[r])
<1>1. /\ pc[r] = "FindActive" /\ sess[r] = None /\ user[r] \in User /\ out[r] = 0
      /\ op[r] \in {"LogoutAll", "AdminForceLogout", "ListUserSessions"}
      /\ scope[r] \subseteq Session /\ \A s \in scope[r] : Owned(s, user[r])
      /\ found \subseteq Session /\ \A s \in found : Owned(s, user[r])
      /\ UNCHANGED sso_sessions /\ UNCHANGED now
  BY DEF FindActive, Known, Placed, Asked, TypeOK, FindActiveByUserID, Owned, table
<1>2. CASE found = {} /\ AllRevoked(r, {})
  <2>1. ASSUME NEW s \in scope[r] PROVE Over(s)'
    <3>1. DbNow \in Int /\ sso_sessions[s].expires_at \in Nat
      BY <1>1, SessionsAssumption DEF TypeOK, Row, DbNow
    <3>2. ~(sso_sessions[s].state = "active" /\ sso_sessions[s].expires_at > DbNow)
      BY <1>1, <1>2 DEF FindActiveByUserID, Owned
    <3>3. Over(s)
      BY <1>1, <3>1, <3>2 DEF Over, Lapsed, IsActive, Owned
    <3> QED BY <1>1, <3>3 DEF Over, Lapsed, IsActive, DbNow
  <2> QED BY <1>1, <1>2, <2>1, AllRevokedKnown
<1>3. CASE active' = [active EXCEPT ![r] = found] /\ Goto(r, "RevokeAll")
  <2>1. /\ pc'[r] = "RevokeAll" /\ op'[r] = op[r] /\ sess'[r] = None /\ user'[r] = user[r]
        /\ active'[r] = found /\ scope'[r] = scope[r] /\ out'[r] = 0
    BY <1>1, <1>3 DEF Goto, TypeOK, args
  <2>2. Placed(r)'
    BY <1>1, <2>1 DEF Placed
  <2>3. Carried(r)' /\ Asked(r)'
    <3> HIDE DEF found
    <3> QED BY <1>1, <2>1 DEF Carried, Asked, Owned
  <2> QED BY <2>2, <2>3 DEF Known
<1> QED BY <1>2, <1>3 DEF FindActive

\* After the bulk UPDATE all sessions of the user have ended, listed or not.
LEMMA RevokeAllKnown ==
  ASSUME TypeOK, TableStep, NEW r \in Request, Known(r), RevokeAll(r)
  PROVE  Known(r)'
<1>1. /\ pc[r] = "RevokeAll" /\ user[r] \in User
      /\ active[r] \in SUBSET Session /\ \A s \in active[r] : Owned(s, user[r])
      /\ scope[r] \subseteq Session /\ \A s \in scope[r] : Owned(s, user[r])
  BY DEF RevokeAll, Known, Placed, Carried, Asked, TypeOK
<1>2. \A s \in Session : Owned(s, user[r]) => Ended(s)'
  <2>1. PICK u \in User : u = user[r]
    BY <1>1
  <2> QED BY <2>1, RevokeAllMeaning DEF RevokeAll
<1>3. \A s \in scope[r] : Over(s)'
  BY <1>1, <1>2 DEF Over, Lapsed, Ended, IsActive
<1> QED BY <1>1, <1>2, <1>3, AllRevokedKnown DEF RevokeAll

\* After the fan-out started, its sessions are among the dispatched ones.
LEMMA DispatchKnown ==
  ASSUME TypeOK, TableStep, NEW r \in Request, Known(r), Dispatch(r)
  PROVE  Known(r)'
<1>1. /\ pc[r] = "Dispatch" /\ op[r] \in {"Logout", "LogoutAll", "AdminForceLogout"}
      /\ out[r] = 0 /\ UNCHANGED sso_sessions /\ UNCHANGED now
      /\ \A s \in scope[r] : Over(s)
  BY DEF Dispatch, Known, Placed, Asked, Terminating, table
<1>2. pc'[r] = "Wait" /\ op'[r] = op[r] /\ scope'[r] = scope[r] /\ out'[r] = 0
  BY <1>1 DEF Dispatch, Goto, TypeOK, args
<1>3. Asked(r)'
  BY <1>1, <1>2 DEF Asked, Over, Lapsed, IsActive, DbNow
<1> QED BY <1>1, <1>2, <1>3 DEF Known, Placed, Carried

\* The answer to a logout says no more than the request knows.
LEMMA WaitKnown ==
  ASSUME TypeOK, TableStep, NEW r \in Request, Known(r), Wait(r)
  PROVE  Known(r)'
<1>1. /\ op[r] \in Terminating => \A s \in scope[r] : Over(s)
      /\ UNCHANGED <<now, sso_sessions>> /\ Reply(r, 200)
  BY DEF Wait, Known, Asked, table
<1>2. op[r] \in Terminating => \A s \in scope[r] : Over(s)'
  BY <1>1 DEF Over, Lapsed, IsActive, DbNow
<1> QED BY <1>1, <1>2, ReplyKnown

\* A lost request, and one answered with an error, know nothing any more.
LEMMA StatementFailsKnown ==
  ASSUME TypeOK, NEW r \in Request, StatementFails(r)
  PROVE  Known(r)'
<1>1. FailureCode(r) \in {404, 500, 501}
  BY DEF FailureCode
<1>2. CASE Reply(r, FailureCode(r))
  BY <1>1, <1>2, ReplyKnown
<1>3. CASE Abort(r, 404)
  BY <1>3 DEF Abort, TypeOK, Terminating, Known, Placed, Carried, Asked
<1> QED BY <1>2, <1>3 DEF StatementFails

-----------------------------------------------------------------------------
(* The inductive invariant.                                                *)

\* The invariant holds of the empty table with no request in flight.
LEMMA InitInvariant == Init => IInv
<1> SUFFICES ASSUME Init PROVE IInv
  OBVIOUS
<1>1. TypeOK
  BY DEF Init, TypeOK, Row
<1>2. RowsOwned
  BY DEF Init, RowsOwned
<1>3. \A r \in Request : Placed(r) /\ Carried(r) /\ Asked(r)
  BY DEF Init, Placed, Carried, Asked, Terminating
<1> QED BY <1>1, <1>2, <1>3 DEF IInv, Init

\* Every statement establishes what its request knows next.
LEMMA StepKnown ==
  ASSUME TypeOK, TableStep, NEW r \in Request, Known(r), Step(r)
  PROVE  Known(r)'
BY LookupSessionKnown, FindByIDKnown, RevokeKnown, FindActiveKnown, RevokeAllKnown,
   DispatchKnown, WaitKnown DEF Step

\* Every request knows what it should after a step of any of them.
LEMMA NextKnown ==
  ASSUME IInv, [Next]_vars, Forward, NEW q \in Request
  PROVE  Known(q)'
<1> USE DEF IInv
<1>1. TypeOK /\ TableStep /\ Known(q) /\ dispatched \subseteq dispatched'
  BY DEF Forward, Known
<1>2. ASSUME NEW r \in Request, Only(r), q # r PROVE Known(q)'
  BY <1>1, <1>2, OtherRequests DEF Only
<1>3. ASSUME NEW r \in Request, Accept(r) PROVE Known(q)'
  BY <1>1, <1>2, <1>3, AcceptLocal, AcceptKnown
<1>4. ASSUME NEW r \in Request, Step(r) PROVE Known(q)'
  <2>1. Known(r)'
    BY <1>1, <1>4, StepKnown DEF Known
  <2> QED BY <1>1, <1>2, <1>4, <2>1, StepLocal
<1>5. ASSUME NEW r \in Request, StatementFails(r) PROVE Known(q)'
  BY <1>1, <1>2, <1>5, StatementFailsLocal, StatementFailsKnown
<1>6. ASSUME UNCHANGED <<args, local>> PROVE Known(q)'
  BY <1>1, <1>6, OtherRequests DEF args, local
<1>7. CASE (\E u \in User, s \in Session : CreateSession(u, s)) \/ DeleteExpired \/ Tick
  BY <1>6, <1>7 DEF CreateSession, DeleteExpired, Tick
<1>8. CASE Crash
  <2>1. pc'[q] = "idle" /\ out'[q] = 0
    BY <1>8 DEF Crash
  <2> QED BY <2>1 DEF Known, Placed, Carried, Asked
<1>9. CASE UNCHANGED vars
  BY <1>6, <1>9 DEF vars
<1> QED BY <1>3, <1>4, <1>5, <1>7, <1>8, <1>9 DEF Next

\* Only the fan-out adds to dispatched, and it adds sessions that have ended.
LEMMA NextDispatched ==
  ASSUME IInv, [Next]_vars, TableStep
  PROVE  \A s \in dispatched' : Ended(s)'
<1>1. \A s \in dispatched : s \in Session /\ Ended(s)'
  BY EndedForward DEF IInv, TypeOK
<1>2. ASSUME NEW r \in Request, Dispatch(r) PROVE \A s \in dispatched' : Ended(s)'
  <2>1. dispatched' = dispatched \cup active[r]
    BY <1>2 DEF Dispatch
  <2>2. \A s \in active[r] : s \in Session /\ Ended(s)
    BY <1>2 DEF IInv, TypeOK, Carried, Dispatch
  <2> QED BY <1>1, <2>1, <2>2, EndedForward DEF IInv
<1>3. CASE ~(\E r \in Request : Dispatch(r))
  <2>1. ASSUME NEW r \in Request, Accept(r) PROVE UNCHANGED dispatched
    BY <2>1, AcceptLocal DEF IInv
  <2>2. UNCHANGED dispatched
    BY <1>3, <2>1 DEF Next, vars, Step, LookupSession, FindByID, Revoke, FindActive, RevokeAll,
       Wait, StatementFails, CreateSession, DeleteExpired, Crash, Tick
  <2> QED BY <1>1, <2>2
<1> QED BY <1>2, <1>3

\* The invariant is inductive.
LEMMA NextInvariant == IInv /\ [Next]_vars => IInv'
<1> SUFFICES ASSUME IInv, [Next]_vars PROVE IInv'
  OBVIOUS
<1>1. Forward
  BY NextForward DEF IInv
<1>2. RowsOwned'
  BY <1>1 DEF IInv, Forward, TableStep, RowsOwned
<1>3. \A s \in dispatched' : Ended(s)'
  BY <1>1, NextDispatched DEF Forward
<1>4. \A q \in Request : Known(q)'
  BY <1>1, NextKnown
<1> QED BY <1>1, <1>2, <1>3, <1>4 DEF IInv, Forward, Known, Ended

\* In every reachable state each request knows what its statement claims
\* (logout/service.go:92-144, session/service.go:54-89).
THEOREM Invariant == Spec => []IInv
<1> QED BY InitInvariant, NextInvariant, PTL DEF Spec

-----------------------------------------------------------------------------
(* The theorems.                                                           *)

\* Every variable keeps its type.
THEOREM TypeCorrect == Spec => []TypeOK
<1>1. IInv => TypeOK
  BY DEF IInv
<1> QED BY <1>1, Invariant, PTL

\* Logout tokens are handed out only for sessions that are over
\* (logout/service.go:91).
THEOREM DispatchedSessionsAreDead == Spec => []DispatchedIsDead
<1>1. IInv => DispatchedIsDead
  BY DEF IInv, DispatchedIsDead, Ended, IsActive
<1> QED BY <1>1, Invariant, PTL

\* A logout answered with 200 has ended all it was asked to end, whatever the
\* difference of the clocks: what is left expires within it (logout_handler.go:23,
\* 49, 73, session_repo.go:93).
THEOREM LogoutTerminates == Spec => []SuccessfulLogoutTerminates
<1>1. IInv => SuccessfulLogoutTerminates
  BY DEF IInv, Asked, SuccessfulLogoutTerminates, Over
<1> QED BY <1>1, Invariant, PTL

\* In particular, nothing it was asked to end is usable when the database's clock
\* is not ahead of the hub's.
THEOREM LogoutEndsAll ==
  ASSUME DbSkew <= 0
  PROVE  Spec => [](\A r \in Request : op[r] \in Terminating /\ out[r] = 200
                                        => \A s \in scope[r] : ~IsActive(s))
<1>1. ASSUME IInv
      PROVE  \A r \in Request : op[r] \in Terminating /\ out[r] = 200
                                  => \A s \in scope[r] : ~IsActive(s)
  <2>1. \A r \in Request : scope[r] \subseteq Session
    BY <1>1 DEF IInv, TypeOK
  <2>2. ASSUME NEW s \in Session, Over(s) PROVE ~IsActive(s)
    <3>1. now \in Nat /\ DbSkew \in Int /\ sso_sessions[s].expires_at \in Nat
      BY <1>1, SessionsAssumption DEF IInv, TypeOK, Row
    <3> QED BY <2>2, <3>1 DEF Over, Lapsed, IsActive, DbNow
  <2> QED BY <1>1, <2>1, <2>2 DEF IInv, Asked
<1> QED BY <1>1, Invariant, PTL

\* The sessions in a fan-out are those of the user it is recorded for
\* (logout/service.go:148-155).
THEOREM OneUserPerFanOut == Spec => []FanOutNamesOneUser
<1>1. IInv => FanOutNamesOneUser
  BY DEF IInv, Carried, Owned, FanOutNamesOneUser
<1> QED BY <1>1, Invariant, PTL

\* A statement that succeeds ends sessions of its own user only, or the one it
\* was given, and a logout carries those it listed to its fan-out
\* (session_repo.go:106, 114, logout/service.go:98-128).
THEOREM RevocationsAreCarried == Spec => EndedAreCarried
<1> DEFINE Justified(s) ==
      sso_sessions[s].state = "active" /\ sso_sessions'[s].state = "revoked"
        => faults' # faults \/ \E r \in Request : RevokedBy(r, s)
<1>1. ASSUME IInv, Next, NEW s \in Session PROVE Justified(s)
  <2>1. TypeOK /\ \A r \in Request : Placed(r) /\ Carried(r)
    BY <1>1 DEF IInv
  <2>2. ASSUME UNCHANGED sso_sessions PROVE Justified(s)
    BY <2>2
  <2>3. ASSUME NEW r \in Request, Revoke(r) PROVE Justified(s)
    <3>1. PICK t \in Session : t = sess[r]
      BY <2>1, <2>3 DEF Placed, Revoke
    <3>2. sso_sessions[s].state = "active" => sso_sessions'[s].state = "active" \/ s = t
      BY <2>1, <2>3, <3>1, RevokeByIDMeaning DEF Revoke
    <3>3. CASE op[r] = "RevokeSession"
      BY <2>3, <3>1, <3>2, <3>3 DEF Revoke, RevokedBy
    <3>4. CASE op[r] = "Logout" /\ Goto(r, "Dispatch") /\ UNCHANGED active
      <4>1. active[r] = {t} /\ user[r] = sso_sessions[t].user
        BY <2>1, <2>3, <3>1, <3>4 DEF Carried, Owned, Revoke
      <4>2. pc'[r] = "Dispatch" /\ active'[r] = {t}
        BY <2>1, <3>4, <4>1 DEF Goto, TypeOK
      <4> QED BY <3>2, <4>1, <4>2 DEF RevokedBy
    <3> QED BY <2>3, <3>3, <3>4 DEF Revoke, SessionRevoked
  <2>4. ASSUME NEW r \in Request, RevokeAll(r) PROVE Justified(s)
    <3>1. PICK u \in User : u = user[r]
      BY <2>1, <2>4 DEF Placed, RevokeAll
    <3>2. sso_sessions[s].state = "active"
            => sso_sessions'[s].state = "active" \/ sso_sessions[s].user = u
      BY <2>1, <2>4, <3>1, RevokeAllMeaning DEF RevokeAll
    <3>3. op[r] # "ListUserSessions" => pc'[r] = "Dispatch" /\ active'[r] = active[r]
      BY <2>1, <2>4 DEF RevokeAll, AllRevoked, Goto, TypeOK
    <3> QED BY <2>4, <3>1, <3>2, <3>3 DEF RevokeAll, RevokedBy
  <2>5. ASSUME NEW r \in Request, StatementFails(r) PROVE Justified(s)
    BY <2>1, <2>5 DEF StatementFails, TypeOK
  <2>6. ASSUME NEW r \in Request, Accept(r) PROVE Justified(s)
    BY <2>1, <2>2, <2>6, AcceptLocal DEF table
  <2>7. ASSUME NEW r \in Request, Step(r) PROVE Justified(s)
    BY <2>2, <2>3, <2>4, <2>7
       DEF Step, LookupSession, FindByID, FindActive, Dispatch, Wait, table
  <2>8. ASSUME NEW u \in User, NEW t \in Session, CreateSession(u, t) PROVE Justified(s)
    BY <2>1, <2>8 DEF CreateSession, TypeOK
  <2>9. CASE DeleteExpired
    BY <2>1, <2>9 DEF DeleteExpired, SetState, TypeOK, Row
  <2>10. CASE Crash \/ Tick
    BY <2>2, <2>10 DEF Crash, Tick, table
  <2> QED BY <1>1, <2>5, <2>6, <2>7, <2>8, <2>9, <2>10 DEF Next
<1>2. IInv /\ [Next]_vars => [\A s \in Session : Justified(s)]_vars
  BY <1>1
<1> QED BY <1>2, Invariant, PTL DEF Spec, EndedAreCarried

-----------------------------------------------------------------------------
(* What the liveness properties rest on: every statement takes its request *)
(* closer to the answer, and only a fault can lose what it carries.        *)

\* How far a request has come.
Rank == [ValidateSession |-> 1, FindByID |-> 2, Revoke |-> 3,
         FindActive |-> 1, RevokeAll |-> 2, Dispatch |-> 4, Wait |-> 5]

\* Request r stays where it is, and has not executed a statement, is answered
\* (or lost), or comes further.
Onward(r) ==
  pc[r] # "idle" => \/ pc'[r] = pc[r] /\ ~Step(r)
                    \/ pc'[r] = "idle"
                    \/ pc'[r] \in DOMAIN Rank /\ Rank[pc[r]] < Rank[pc'[r]]

LEMMA StepOnward ==
  ASSUME TypeOK, NEW r \in Request, Step(r) PROVE Onward(r)
<1> USE DEF Rank
<1>1. ASSUME NEW code, Reply(r, code) PROVE pc'[r] = "idle"
  BY <1>1 DEF Reply, TypeOK
<1>2. ASSUME NEW next, Goto(r, next) PROVE pc'[r] = next
  BY <1>2 DEF Goto, TypeOK
<1>3. SessionRevoked(r) => pc'[r] \in {"idle", "Dispatch"}
  BY <1>1, <1>2 DEF SessionRevoked
<1>4. ASSUME NEW list, AllRevoked(r, list) PROVE pc'[r] \in {"idle", "Dispatch"}
  BY <1>1, <1>2, <1>4 DEF AllRevoked
<1>5. CASE LookupSession(r)
  BY <1>1, <1>2, <1>5 DEF LookupSession, Onward
<1>6. CASE FindByID(r)
  BY <1>1, <1>2, <1>3, <1>6 DEF FindByID, Onward
<1>7. CASE Revoke(r)
  BY <1>3, <1>7 DEF Revoke, Onward
<1>8. CASE FindActive(r)
  BY <1>2, <1>4, <1>8 DEF FindActive, Onward
<1>9. CASE RevokeAll(r)
  BY <1>4, <1>9 DEF RevokeAll, Onward
<1>10. CASE Dispatch(r)
  BY <1>2, <1>10 DEF Dispatch, Onward
<1>11. CASE Wait(r)
  BY <1>1, <1>11 DEF Wait, Onward
<1> QED BY <1>5, <1>6, <1>7, <1>8, <1>9, <1>10, <1>11 DEF Step

\* Handlers do not loop or wait for one another: whatever the others do, each
\* statement of a request takes it closer to its answer, of which it is never
\* more than five statements away (logout/service.go:92-144).
THEOREM RequestsGoOnward == Spec => [][\A r \in Request : Onward(r)]_vars
<1>1. ASSUME IInv, Next, NEW q \in Request PROVE Onward(q)
  <2>1. TypeOK /\ \A r \in Request : Placed(r)
    BY <1>1 DEF IInv
  <2>2. CASE Step(q)
    BY <2>1, <2>2, StepOnward
  <2>3. CASE ~Step(q) /\ pc'[q] = pc[q]
    BY <2>3 DEF Onward
  <2>4. ASSUME NEW r \in Request, Accept(r) PROVE pc[q] # "idle" => pc'[q] = pc[q]
    <3>1. pc[r] = "idle" \/ UNCHANGED pc
      BY <2>4 DEF Accept, Logout, LogoutAll, AdminForceLogout, ListUserSessions, RevokeSession,
         GetSession, Refuse, Begin, Abort
    <3> QED BY <2>1, <2>4, <3>1, AcceptLocal DEF Only
  <2>5. ASSUME NEW r \in Request, Step(r), r # q PROVE pc'[q] = pc[q]
    BY <2>1, <2>5, StepLocal DEF Only
  <2>6. ASSUME NEW r \in Request, StatementFails(r) PROVE pc'[q] \in {pc[q], "idle"}
    BY <2>1, <2>6 DEF StatementFails, Reply, Abort, TypeOK
  <2>7. CASE Crash
    BY <2>7 DEF Crash, Onward
  <2>8. CASE (\E u \in User, s \in Session : CreateSession(u, s)) \/ DeleteExpired \/ Tick
    BY <2>2, <2>3, <2>8 DEF CreateSession, DeleteExpired, Tick, local
  <2> QED BY <1>1, <2>2, <2>3, <2>4, <2>5, <2>6, <2>7, <2>8 DEF Next, Onward
<1>2. IInv /\ [Next]_vars => [\A r \in Request : Onward(r)]_vars
  BY <1>1
<1> QED BY <1>2, Invariant, PTL DEF Spec

\* Request r has session s on its way to the fan-out.
Carries(r, s) ==
  pc[r] \in {"RevokeAll", "Dispatch"} /\ op[r] # "ListUserSessions" /\ s \in active[r]

\* The sessions RevokeAllUserSessions listed are still carried after every step,
\* or have got their logout tokens, unless the step is a fault
\* (session/service.go:74-89, logout/service.go:119).
THEOREM OnlyFaultsLoseTheList ==
  Spec => [][\A r \in Request, s \in Session :
               Carries(r, s) => Carries(r, s)' \/ s \in dispatched' \/ faults' # faults]_vars
<1>1. ASSUME IInv, Next, NEW q \in Request, NEW s \in Session, Carries(q, s), faults' = faults
      PROVE  Carries(q, s)' \/ s \in dispatched'
  <2>1. TypeOK /\ \A r \in Request : Placed(r)
    BY <1>1 DEF IInv
  <2>2. CASE Step(q)
    <3>1. CASE RevokeAll(q)
      BY <1>1, <2>1, <3>1 DEF Carries, RevokeAll, AllRevoked, Goto, TypeOK, args
    <3>2. CASE Dispatch(q)
      BY <1>1, <3>2 DEF Carries, Dispatch
    <3> QED BY <1>1, <2>2, <3>1, <3>2
        DEF Carries, Step, LookupSession, FindByID, Revoke, FindActive, Wait
  <2>3. ASSUME NEW r \in Request, Only(r), r # q PROVE Carries(q, s)'
    BY <1>1, <2>3 DEF Only, Carries
  <2>4. ASSUME NEW r \in Request, Accept(r) PROVE Carries(q, s)'
    <3>1. pc[r] = "idle"
      BY <2>4 DEF Accept, Logout, LogoutAll, AdminForceLogout, ListUserSessions, RevokeSession,
         GetSession, Refuse, Begin, Abort
    <3> QED BY <1>1, <2>1, <2>3, <2>4, <3>1, AcceptLocal DEF Carries
  <2>5. ASSUME NEW r \in Request, Step(r), r # q PROVE Carries(q, s)'
    BY <2>1, <2>3, <2>5, StepLocal
  <2>6. ~(\E r \in Request : StatementFails(r)) /\ ~Crash
    BY <1>1, <2>1 DEF StatementFails, Crash, TypeOK
  <2>7. CASE (\E u \in User, t \in Session : CreateSession(u, t)) \/ DeleteExpired \/ Tick
    BY <1>1, <2>7 DEF CreateSession, DeleteExpired, Tick, args, local, Carries
  <2> QED BY <1>1, <2>2, <2>4, <2>5, <2>6, <2>7 DEF Next
<1>2. IInv /\ [Next]_vars
        => [\A r \in Request, s \in Session :
              Carries(r, s) => Carries(r, s)' \/ s \in dispatched' \/ faults' # faults]_vars
  BY <1>1
<1> QED BY <1>2, Invariant, PTL DEF Spec

-----------------------------------------------------------------------------
(* Refinement of SessionLifecycle.                                         *)

opened == {s \in Session : sso_sessions[s].state # "none"}
usable == {s \in Session : IsActive(s)}

\* Apart from a login, no step brings a row into being or back to life.
LEMMA NothingOpens ==
  ASSUME IInv, Next, Forward,
         \A u \in User, s \in Session : ~CreateSession(u, s)
  PROVE  opened' = opened /\ usable' \subseteq usable
<1>1. ASSUME NEW s \in Session
      PROVE  sso_sessions[s].state = "none" => sso_sessions'[s].state = "none"
  <2> DEFINE Stays == sso_sessions[s].state = "none" => sso_sessions'[s].state = "none"
  <2>1. ASSUME NEW S \in SUBSET Session, NEW st \in {"revoked", "deleted"}, SetState(S, st),
               \A t \in S : sso_sessions[t].state # "none"
        PROVE  Stays
    BY <2>1, SetStateMeaning DEF IInv
  <2>2. ASSUME NEW t, RevokeByID(t), t \in Session PROVE Stays
    <3>1. {x \in {t} : Found(x)} \in SUBSET Session
          /\ \A x \in {x \in {t} : Found(x)} : sso_sessions[x].state # "none"
      BY <2>2 DEF Found
    <3> QED BY <2>1, <2>2, <3>1 DEF RevokeByID
  <2>3. ASSUME NEW u, RevokeAllForUser(u) PROVE Stays
    BY <2>1, <2>3 DEF RevokeAllForUser
  <2>4. ASSUME NEW r \in Request, Step(r) \/ StatementFails(r) PROVE Stays
    <3>1. pc[r] = "Revoke" => sess[r] \in Session
      BY DEF IInv, Placed
    <3> QED BY <2>2, <2>3, <2>4, <3>1
       DEF Step, StatementFails, LookupSession, FindByID, Revoke, FindActive, RevokeAll,
           Dispatch, Wait, table
  <2>5. ASSUME NEW r \in Request, Accept(r) PROVE Stays
    BY <2>5, AcceptLocal DEF IInv, table
  <2>6. CASE DeleteExpired
    BY <2>1, <2>6 DEF DeleteExpired
  <2>7. CASE Crash \/ Tick
    BY <2>7 DEF Crash, Tick, table
  <2> QED BY <2>4, <2>5, <2>6, <2>7 DEF Next
<1>2. opened' = opened
  BY <1>1 DEF opened, Forward, TableStep
<1>3. ASSUME NEW s \in Session, IsActive(s)' PROVE IsActive(s)
  <2>1. sso_sessions[s].state # "none"
    BY <1>1, <1>3 DEF IsActive
  <2>2. ~Dead(s)
    BY <1>3, EndedForward DEF IInv, Forward, Dead
  <2> QED BY <2>1, <2>2 DEF Dead
<1> QED BY <1>2, <1>3 DEF usable

\* The empty table is the initial state of the promise.
LEMMA LifecycleInit == Init => Lifecycle!Init
BY DEF Init, Lifecycle!Init, IsActive

\* Every statement opens one session, ends some, notifies about ended ones, or is
\* invisible to the rest of the hub.
LEMMA LifecycleNext == IInv /\ [Next]_vars => [Lifecycle!Next]_(Lifecycle!vars)
<1> SUFFICES ASSUME IInv, Next PROVE Lifecycle!Next \/ UNCHANGED Lifecycle!vars
  BY DEF vars, table, args, local, Lifecycle!vars, IsActive
<1>0. Forward
  BY NextForward DEF IInv
<1>1. ASSUME NEW u \in User, NEW s \in Session, CreateSession(u, s)
      PROVE  Lifecycle!Open(s)
  <2>1. /\ sso_sessions[s].state = "none"
        /\ sso_sessions'[s] = [state |-> "active", user |-> u, expires_at |-> now + MaxAge]
        /\ \A t \in Session \ {s} : sso_sessions'[t] = sso_sessions[t]
        /\ UNCHANGED <<now, dispatched>>
    BY <1>1 DEF CreateSession, IInv, TypeOK
  <2>2. now < now + MaxAge
    BY SessionsAssumption DEF IInv, TypeOK
  <2>3. opened' = opened \cup {s} /\ s \notin opened
    BY <2>1 DEF opened
  <2>4. usable' = usable \cup {s}
    BY <2>1, <2>2 DEF usable, IsActive
  <2> QED BY <2>1, <2>3, <2>4 DEF Lifecycle!Open, opened, usable
<1>2. CASE \A u \in User, s \in Session : ~CreateSession(u, s)
  <2>1. opened' = opened /\ usable' \subseteq usable
    BY <1>0, <1>2, NothingOpens
  <2>2. ASSUME NEW r \in Request, Dispatch(r)
        PROVE  \E S \in SUBSET (opened \ usable) : Lifecycle!Notify(S)
    <3>1. active[r] \in SUBSET Session /\ \A s \in active[r] : Ended(s)
      BY <2>2 DEF IInv, TypeOK, Carried, Dispatch
    <3>2. active[r] \in SUBSET (opened \ usable)
      BY <3>1 DEF opened, usable, Ended, IsActive
    <3>3. UNCHANGED <<opened, usable>> /\ dispatched' = dispatched \cup active[r]
      BY <2>2 DEF Dispatch, table, opened, usable, IsActive
    <3>4. Lifecycle!Notify(active[r])
      BY <3>2, <3>3 DEF Lifecycle!Notify, opened, usable
    <3> QED BY <3>2, <3>4
  <2>3. ASSUME UNCHANGED dispatched
        PROVE  \E S \in SUBSET usable : Lifecycle!End(S)
    <3>1. usable \ usable' \in SUBSET usable
      OBVIOUS
    <3>2. Lifecycle!End(usable \ usable')
      BY <2>1, <2>3 DEF Lifecycle!End, opened, usable
    <3> QED BY <3>1, <3>2
  <2>4. UNCHANGED dispatched \/ \E r \in Request : Dispatch(r)
    <3>1. ASSUME NEW r \in Request, Accept(r) PROVE UNCHANGED dispatched
      BY <3>1, AcceptLocal DEF IInv
    <3> QED BY <1>2, <3>1 DEF Next, Step, LookupSession, FindByID, Revoke, FindActive, RevokeAll,
        Wait, StatementFails, DeleteExpired, Crash, Tick
  <2> QED BY <2>2, <2>3, <2>4 DEF Lifecycle!Next, opened, usable
<1> QED BY <1>1, <1>2 DEF Lifecycle!Next

\* The table, whatever requests, failures and the cleanup do to it, keeps the
\* promise of SessionLifecycle: usable until it ends, ended for good, and
\* notified about only when it has ended.
THEOREM RefinesLifecycle == Spec => LifecycleSpec
<1> QED BY LifecycleInit, LifecycleNext, Invariant, PTL DEF Spec, LifecycleSpec, Lifecycle!Spec
=============================================================================
