----------------------------- MODULE LoginProofs -----------------------------
(***************************************************************************)
(* Theorems about Login: for any number of overlapping callbacks, people   *)
(* and accounts, a session is inserted for the person who logged in, a     *)
(* locked-out account stays locked out, and a person who is shut out finds *)
(* no second account to come in through.                                   *)
(***************************************************************************)
EXTENDS Login, TLAPS

\* A person has one row, deleted or not.
OneRowPerPerson ==
  \A u, v \in UserId : Exists(u) /\ Exists(v)
    /\ sso_users[u].casdoor_id = sso_users[v].casdoor_id => u = v

\* A stored row is somebody's.
Owned == \A u \in UserId : Exists(u) => sso_users[u].casdoor_id \in Person

\* A new id is held by one callback only.
Unshared ==
  \A q, r \in Request :
    copy[q].id = copy[r].id /\ copy[q].id \in UserId /\ ~Exists(copy[q].id) => q = r

\* What a callback knows.
Knows(r) ==
  /\ pc[r] \in {"idle", "FindByCasdoorID"} => copy[r] = NoCopy
  /\ pc[r] = "idle" => person[r] = None
  /\ pc[r] # "idle" => person[r] \in Person /\ sid[r] \in Sid /\ out[r] = 0
  /\ pc[r] \in {"Save", "CreateSession", "UpdateLastLogin"} =>
       /\ copy[r] \in Copy /\ copy[r].status # "deleted"
       /\ Exists(copy[r].id) => sso_users[copy[r].id].casdoor_id = person[r]
  /\ pc[r] \in {"CreateSession", "UpdateLastLogin"} =>
       Exists(copy[r].id) /\ copy[r].status = "active"

\* The inductive invariant.
IInv == TypeOK /\ OneRowPerPerson /\ Owned /\ Unshared /\ \A r \in Request : Knows(r)

USE DEF tables, local

-----------------------------------------------------------------------------
\* None is nobody's id.
LEMMA NoneIsNone == None \notin UserId /\ None \notin Person
BY LoginAssumption

\* The initial state satisfies the inductive invariant.
LEMMA InitIInv == Init => IInv
<1> SUFFICES ASSUME Init PROVE IInv
  OBVIOUS
<1>1. TypeOK
  BY DEF Init, TypeOK, UserRow, SessionRow, Status
<1>2. \A u \in UserId : ~Exists(u)
  BY DEF Init, Exists
<1>3. Unshared
  BY NoneIsNone DEF Init, Unshared, NoCopy
<1>4. ASSUME NEW r \in Request PROVE Knows(r)
  BY <1>4 DEF Init, Knows
<1> QED BY <1>1, <1>2, <1>3, <1>4 DEF IInv, OneRowPerPerson, Owned

\* Upsert: the row of the callback's copy is stored, as its person's.
LEMMA UpsertStores ==
  ASSUME IInv, NEW r \in Request, pc[r] = "Save", CanSave(r), Upsert(r)
  PROVE  /\ sso_users' \in [UserId -> UserRow] /\ OneRowPerPerson' /\ Owned'
         /\ copy[r].id \in UserId /\ sso_users'[copy[r].id].status # "none"
         /\ sso_users'[copy[r].id].casdoor_id = person[r]
         /\ sso_users'[copy[r].id].status = copy[r].status
         /\ \A u \in UserId \ {copy[r].id} : sso_users'[u] = sso_users[u]
<1> USE DEF IInv
<1>1. /\ copy[r].id \in UserId /\ copy[r].status \in Status /\ copy[r].last_login_at \in Nat
      /\ person[r] \in Person
      /\ Exists(copy[r].id) => sso_users[copy[r].id].casdoor_id = person[r]
  BY DEF Knows, Copy
<1>2. sso_users' = [sso_users EXCEPT ![copy[r].id] =
                      [status |-> copy[r].status, casdoor_id |-> person[r],
                       last_login_at |-> copy[r].last_login_at]]
  <2>1. CASE Exists(copy[r].id)
    BY <1>1, <2>1 DEF Upsert, TypeOK
  <2>2. CASE ~Exists(copy[r].id)
    BY <2>2 DEF Upsert
  <2> QED BY <2>1, <2>2
<1>3. sso_users' \in [UserId -> UserRow]
  BY <1>1, <1>2 DEF TypeOK, UserRow
<1>4. /\ sso_users'[copy[r].id].casdoor_id = person[r]
      /\ sso_users'[copy[r].id].status = copy[r].status
      /\ \A u \in UserId \ {copy[r].id} : sso_users'[u] = sso_users[u]
  BY <1>1, <1>2 DEF TypeOK
<1>5. sso_users'[copy[r].id].status # "none"
  BY <1>1, <1>4 DEF Status
<1>6. OneRowPerPerson'
  BY <1>1, <1>4 DEF OneRowPerPerson, Exists, CanSave
<1>7. Owned'
  BY <1>1, <1>4 DEF Owned, Exists
<1> QED BY <1>1, <1>3, <1>4, <1>5, <1>6, <1>7

\* A step that leaves a callback and the rows alone keeps what it knows.
LEMMA StillKnows ==
  ASSUME NEW q \in Request, Knows(q), TypeOK,
         pc'[q] = pc[q], person'[q] = person[q], sid'[q] = sid[q], copy'[q] = copy[q],
         out'[q] = out[q],
         \A u \in UserId : Exists(u) => /\ sso_users'[u].status # "none"
                                       /\ sso_users'[u].casdoor_id = sso_users[u].casdoor_id,
         copy[q].id \in UserId /\ ~Exists(copy[q].id) => sso_users'[copy[q].id].status = "none"
  PROVE  Knows(q)'
<1>1. copy[q].id \in UserId => (sso_users'[copy[q].id].status # "none" <=> Exists(copy[q].id))
  BY DEF Exists
<1>2. copy[q] \in Copy => copy[q].id \in UserId
  BY DEF Copy
<1> QED BY <1>1, <1>2 DEF Knows, Exists

\* A callback that has answered knows nothing.
LEMMA Answered ==
  ASSUME NEW r \in Request, TypeOK, NEW code, Reply(r, code)
  PROVE  Knows(r)'
BY DEF Reply, TypeOK, Knows

\* When no row is added and only one callback's copy is dropped, or none changes,
\* new ids stay unshared.
LEMMA StillUnshared ==
  ASSUME TypeOK, Unshared,
         \A q \in Request : copy'[q] \in {copy[q], NoCopy},
         \A u \in UserId : Exists(u) => sso_users'[u].status # "none"
  PROVE  Unshared'
<1> SUFFICES ASSUME NEW q \in Request, NEW r \in Request,
                    copy'[q].id = copy'[r].id, copy'[q].id \in UserId, ~Exists(copy[q].id)'
             PROVE q = r
  BY DEF Unshared
<1>1. copy'[q] = copy[q] /\ copy'[r] = copy[r]
  BY NoneIsNone DEF NoCopy
<1>2. ~Exists(copy[q].id)
  BY <1>1 DEF Exists
<1> QED BY <1>1, <1>2 DEF Unshared

\* Callback: a new login.
LEMMA CallbackKeeps ==
  ASSUME IInv, NEW r \in Request, NEW p \in Person, NEW x \in Sid, Callback(r, p, x)
  PROVE  IInv'
<1> USE DEF IInv
<1>1. TypeOK'
  BY DEF Callback, TypeOK
<1>2. OneRowPerPerson' /\ Owned'
  BY DEF Callback, OneRowPerPerson, Owned, Exists
<1>3. Unshared'
  BY StillUnshared DEF Callback, Exists
<1>4. ASSUME NEW q \in Request PROVE Knows(q)'
  <2>1. CASE q = r
    BY <2>1 DEF Callback, TypeOK, Knows
  <2>2. CASE q # r
    BY <2>2 DEF Callback, TypeOK, Knows, Exists
  <2> QED BY <2>1, <2>2
<1> QED BY <1>1, <1>2, <1>3, <1>4

\* CallbackRefused changes nothing but the answer.
LEMMA CallbackRefusedKeeps ==
  ASSUME IInv, NEW r \in Request, CallbackRefused(r) PROVE IInv'
<1> USE DEF IInv
<1>1. TypeOK'
  BY DEF CallbackRefused, TypeOK
<1>2. OneRowPerPerson' /\ Owned'
  BY DEF CallbackRefused, OneRowPerPerson, Owned, Exists
<1>3. Unshared'
  BY StillUnshared DEF CallbackRefused, Exists
<1>4. ASSUME NEW q \in Request PROVE Knows(q)'
  BY DEF CallbackRefused, Knows, Exists
<1> QED BY <1>1, <1>2, <1>3, <1>4

\* FindByCasdoorID: the person's row, or an id nobody holds.
LEMMA FindByCasdoorIDKeeps ==
  ASSUME IInv, NEW r \in Request, FindByCasdoorID(r) PROVE IInv'
<1> USE DEF IInv
<1>1. PICK c \in Copy :
        /\ copy' = [copy EXCEPT ![r] = c] /\ c.status # "deleted"
        /\ \/ Exists(c.id) /\ sso_users[c.id].casdoor_id = person[r]
           \/ Fresh(c.id)
  <2>1. CASE \E u \in UserId :
               /\ sso_users[u].casdoor_id = person[r]
               /\ sso_users[u].status \in {"active", "suspended"}
               /\ copy' = [copy EXCEPT ![r] = [id |-> u, status |-> sso_users[u].status,
                                              last_login_at |-> sso_users[u].last_login_at]]
    <3>1. PICK u \in UserId :
               /\ sso_users[u].casdoor_id = person[r]
               /\ sso_users[u].status \in {"active", "suspended"}
               /\ copy' = [copy EXCEPT ![r] = [id |-> u, status |-> sso_users[u].status,
                                              last_login_at |-> sso_users[u].last_login_at]]
      BY <2>1
    <3>2. Exists(u) /\ [id |-> u, status |-> sso_users[u].status,
                       last_login_at |-> sso_users[u].last_login_at] \in Copy
      BY <3>1 DEF Exists, TypeOK, UserRow, Copy, Status
    <3> QED BY <3>1, <3>2
  <2>2. CASE \E u \in UserId :
               /\ Fresh(u)
               /\ copy' = [copy EXCEPT ![r] = [id |-> u, status |-> "active",
                                              last_login_at |-> 0]]
    <3>1. \A u \in UserId : [id |-> u, status |-> "active", last_login_at |-> 0] \in Copy
      BY DEF Copy, Status
    <3> QED BY <2>2, <3>1
  <2> QED BY <2>1, <2>2 DEF FindByCasdoorID
<1>2. c.id \in UserId /\ copy'[r] = c /\ \A q \in Request \ {r} : copy'[q] = copy[q]
  BY <1>1 DEF Copy, TypeOK
<1>3. TypeOK'
  BY <1>1 DEF FindByCasdoorID, Goto, TypeOK
<1>4. OneRowPerPerson' /\ Owned'
  BY DEF FindByCasdoorID, OneRowPerPerson, Owned, Exists
<1>5. Unshared'
  <2> SUFFICES ASSUME NEW p \in Request, NEW q \in Request,
                      copy'[p].id = copy'[q].id, copy'[p].id \in UserId, ~Exists(copy[p].id)'
               PROVE p = q
    BY DEF Unshared
  <2>1. ~Exists(copy'[p].id)
    BY DEF FindByCasdoorID, Exists
  <2>2. CASE p = r /\ q # r
    BY <1>1, <1>2, <2>1, <2>2 DEF Fresh
  <2>3. CASE q = r /\ p # r
    BY <1>1, <1>2, <2>1, <2>3 DEF Fresh
  <2>4. CASE p # r /\ q # r
    BY <1>2, <2>1, <2>4 DEF Unshared
  <2> QED BY <2>2, <2>3, <2>4
<1>6. ASSUME NEW q \in Request PROVE Knows(q)'
  <2>1. CASE q = r
    BY <1>1, <1>2, <2>1 DEF FindByCasdoorID, Goto, TypeOK, Knows, Exists, Fresh
  <2>2. CASE q # r
    <3>1. pc'[q] = pc[q] /\ person'[q] = person[q] /\ sid'[q] = sid[q] /\ copy'[q] = copy[q]
          /\ out'[q] = out[q] /\ sso_users' = sso_users
      BY <1>2, <2>2 DEF FindByCasdoorID, Goto, TypeOK
    <3> QED BY <3>1, StillKnows DEF Exists
  <2> QED BY <2>1, <2>2
<1> QED BY <1>3, <1>4, <1>5, <1>6

\* A step of callback r on sso_users that is no news to the others.
TableKeeps(r) ==
  /\ sso_users' \in [UserId -> UserRow] /\ OneRowPerPerson' /\ Owned'
  /\ \A u \in UserId : Exists(u) => /\ sso_users'[u].status # "none"
                                    /\ sso_users'[u].casdoor_id = sso_users[u].casdoor_id
  /\ \A q \in Request \ {r} : copy[q].id \in UserId /\ ~Exists(copy[q].id)
                                 => sso_users'[copy[q].id].status = "none"

LEMMA UnchangedTableKeeps ==
  ASSUME IInv, NEW r \in Request, sso_users' = sso_users PROVE TableKeeps(r)
BY DEF IInv, TypeOK, OneRowPerPerson, Owned, Exists, TableKeeps

LEMMA UpsertTableKeeps ==
  ASSUME IInv, NEW r \in Request, pc[r] = "Save", CanSave(r), Upsert(r) PROVE TableKeeps(r)
<1>1. /\ sso_users' \in [UserId -> UserRow] /\ OneRowPerPerson' /\ Owned'
      /\ copy[r].id \in UserId /\ sso_users'[copy[r].id].status # "none"
      /\ sso_users'[copy[r].id].casdoor_id = person[r]
      /\ \A u \in UserId \ {copy[r].id} : sso_users'[u] = sso_users[u]
  BY UpsertStores
<1>2. Exists(copy[r].id) => sso_users[copy[r].id].casdoor_id = person[r]
  BY DEF IInv, Knows
<1>3. \A q \in Request \ {r} :
        copy[q].id \in UserId /\ ~Exists(copy[q].id) => copy[q].id # copy[r].id
  BY DEF IInv, Unshared
<1> QED BY <1>1, <1>2, <1>3 DEF TableKeeps, Exists

\* A callback that is answered leaves the others what they know.
LEMMA ReplyKeeps ==
  ASSUME IInv, NEW r \in Request, NEW code \in {200, 403, 500}, Reply(r, code), TableKeeps(r),
         sso_sessions' \in [Session -> SessionRow], clock' \in Nat, issued' = issued, faults' \in Nat
  PROVE  IInv'
<1> USE DEF IInv
<1>1. TypeOK'
  BY DEF Reply, TypeOK, TableKeeps
<1>2. Unshared'
  <2>1. \A q \in Request : copy'[q] \in {copy[q], NoCopy}
    BY DEF Reply, TypeOK
  <2> QED BY <2>1, StillUnshared DEF TableKeeps
<1>3. ASSUME NEW q \in Request PROVE Knows(q)'
  <2>1. CASE q = r
    BY <2>1, Answered
  <2>2. CASE q # r
    <3>1. pc'[q] = pc[q] /\ person'[q] = person[q] /\ sid'[q] = sid[q] /\ copy'[q] = copy[q]
          /\ out'[q] = out[q]
      BY <2>2 DEF Reply, TypeOK
    <3> QED BY <2>2, <3>1, StillKnows DEF TableKeeps
  <2> QED BY <2>1, <2>2
<1> QED BY <1>1, <1>2, <1>3 DEF TableKeeps

\* Save: the row is there, and the callback goes on with an active copy only.
LEMMA SaveKeeps ==
  ASSUME IInv, NEW r \in Request, Save(r) PROVE IInv'
<1> USE DEF IInv
<1>1. /\ sso_sessions' \in [Session -> SessionRow] /\ clock' \in Nat /\ issued' = issued
      /\ faults' \in Nat /\ pc[r] = "Save"
  BY DEF Save, TypeOK
<1>2. CASE CanSave(r) /\ Upsert(r) /\ copy[r].status # "active" /\ Reply(r, 403)
  BY <1>1, <1>2, UpsertTableKeeps, ReplyKeeps
<1>3. CASE Reply(r, 500) /\ UNCHANGED sso_users
  BY <1>1, <1>3, UnchangedTableKeeps, ReplyKeeps
<1>4. CASE CanSave(r) /\ Upsert(r) /\ copy[r].status = "active" /\ Goto(r, "CreateSession")
           /\ UNCHANGED copy
  <2>1. TableKeeps(r)
    BY <1>1, <1>4, UpsertTableKeeps
  <2>2. TypeOK'
    BY <1>1, <1>4, <2>1 DEF Goto, TypeOK, TableKeeps
  <2>3. Unshared'
    BY <1>4, <2>1, StillUnshared DEF TableKeeps
  <2>4. ASSUME NEW q \in Request PROVE Knows(q)'
    <3>1. CASE q = r
      BY <1>1, <1>4, <3>1, UpsertStores DEF Goto, TypeOK, Knows, Exists
    <3>2. CASE q # r
      <4>1. pc'[q] = pc[q] /\ person'[q] = person[q] /\ sid'[q] = sid[q] /\ copy'[q] = copy[q]
            /\ out'[q] = out[q]
        BY <1>4, <3>2 DEF Goto, TypeOK
      <4> QED BY <2>1, <3>2, <4>1, StillKnows DEF TableKeeps
    <3> QED BY <3>1, <3>2
  <2> QED BY <2>1, <2>2, <2>3, <2>4 DEF TableKeeps
<1> QED BY <1>2, <1>3, <1>4 DEF Save

\* Insert: the new session is that of the row of the copy.
LEMMA InsertType ==
  ASSUME IInv, NEW r \in Request, NEW s \in Session, pc[r] = "CreateSession", Insert(r, s)
  PROVE  sso_sessions' \in [Session -> SessionRow]
<1>1. [state |-> "active", user |-> copy[r].id, sid |-> sid[r]] \in SessionRow
  BY DEF IInv, Knows, Copy, SessionRow
<1> QED BY <1>1 DEF IInv, Insert, TypeOK

LEMMA CreateSessionKeeps ==
  ASSUME IInv, NEW r \in Request, CreateSession(r) PROVE IInv'
<1> USE DEF IInv
<1>1. pc[r] = "CreateSession" /\ clock' \in Nat /\ issued' = issued /\ faults' \in Nat
      /\ sso_users' = sso_users
  BY DEF CreateSession, TypeOK
<1>2. CASE Reply(r, 500) /\ UNCHANGED sso_sessions
  BY <1>1, <1>2, UnchangedTableKeeps, ReplyKeeps DEF TypeOK
<1>3. CASE (\E s \in Session : Insert(r, s)) /\ Goto(r, "UpdateLastLogin") /\ UNCHANGED copy
  <2>1. TypeOK'
    BY <1>1, <1>3, InsertType DEF Goto, CreateSession, TypeOK
  <2>2. OneRowPerPerson' /\ Owned' /\ Unshared'
    BY <1>1, <1>3 DEF OneRowPerPerson, Owned, Unshared, Exists
  <2>3. ASSUME NEW q \in Request PROVE Knows(q)'
    <3>1. CASE q = r
      BY <1>1, <1>3, <3>1 DEF Goto, TypeOK, Knows, Exists
    <3>2. CASE q # r
      BY <1>1, <1>3, <3>2 DEF Goto, TypeOK, Knows, Exists
    <3> QED BY <3>1, <3>2
  <2> QED BY <2>1, <2>2, <2>3
<1> QED BY <1>2, <1>3 DEF CreateSession

\* UpdateLastLogin: only the stamp changes.
LEMMA UpdateLastLoginKeeps ==
  ASSUME IInv, NEW r \in Request, UpdateLastLogin(r) PROVE IInv'
<1> USE DEF IInv
<1>1. copy[r].id \in UserId
  BY DEF UpdateLastLogin, Knows, Copy
<1>2. clock' \in Nat /\ issued' = issued /\ faults' \in Nat
      /\ sso_sessions' \in [Session -> SessionRow]
      /\ sso_users' = [sso_users EXCEPT ![copy[r].id].last_login_at = clock']
  BY DEF UpdateLastLogin, TypeOK
<1>3. /\ sso_users' \in [UserId -> UserRow]
      /\ \A u \in UserId : /\ sso_users'[u].status = sso_users[u].status
                           /\ sso_users'[u].casdoor_id = sso_users[u].casdoor_id
  BY <1>1, <1>2 DEF TypeOK, UserRow
<1>4. TableKeeps(r)
  BY <1>3 DEF OneRowPerPerson, Owned, Exists, TableKeeps
<1> QED BY <1>2, <1>4, ReplyKeeps DEF UpdateLastLogin

\* StatementFails: executed or not, the statement is the callback's last.
LEMMA StatementFailsKeeps ==
  ASSUME IInv, NEW r \in Request, StatementFails(r) PROVE IInv'
<1> USE DEF IInv
<1>1. /\ clock' \in Nat /\ issued' = issued /\ faults' \in Nat
      /\ \E code \in {200, 403, 500} : Reply(r, code)
  BY DEF StatementFails, TypeOK
<1>2. CASE UNCHANGED <<sso_users, sso_sessions>>
  BY <1>1, <1>2, UnchangedTableKeeps, ReplyKeeps DEF TypeOK
<1>3. CASE pc[r] = "Save" /\ CanSave(r) /\ Upsert(r) /\ UNCHANGED sso_sessions
  BY <1>1, <1>3, UpsertTableKeeps, ReplyKeeps DEF TypeOK
<1>4. CASE pc[r] = "CreateSession" /\ (\E s \in Session : Insert(r, s)) /\ UNCHANGED sso_users
  BY <1>1, <1>4, InsertType, UnchangedTableKeeps, ReplyKeeps
<1> QED BY <1>2, <1>3, <1>4 DEF StatementFails

\* Crash: no callback is left.
LEMMA CrashKeeps == ASSUME IInv, Crash PROVE IInv'
<1> USE DEF IInv
<1>1. TypeOK'
  BY DEF Crash, TypeOK
<1>2. OneRowPerPerson' /\ Owned'
  BY DEF Crash, OneRowPerPerson, Owned, Exists
<1>3. Unshared'
  BY NoneIsNone DEF Crash, Unshared, NoCopy
<1>4. ASSUME NEW q \in Request PROVE Knows(q)'
  BY DEF Crash, Knows
<1> QED BY <1>1, <1>2, <1>3, <1>4

\* UpdateStatus: the row stays its person's.
LEMMA UpdateStatusKeeps ==
  ASSUME IInv, NEW u \in UserId, NEW st \in {"suspended", "deleted"}, UpdateStatus(u, st)
  PROVE  IInv'
<1> USE DEF IInv
<1>1. /\ sso_users' \in [UserId -> UserRow]
      /\ \A v \in UserId : /\ sso_users'[v].status # "none" <=> sso_users[v].status # "none"
                           /\ sso_users'[v].casdoor_id = sso_users[v].casdoor_id
  BY DEF UpdateStatus, Exists, TypeOK, UserRow, Status
<1>2. TypeOK'
  BY <1>1 DEF UpdateStatus, TypeOK
<1>3. OneRowPerPerson' /\ Owned'
  BY <1>1 DEF OneRowPerPerson, Owned, Exists
<1>4. Unshared'
  BY <1>1, StillUnshared DEF UpdateStatus, Exists
<1>5. ASSUME NEW q \in Request PROVE Knows(q)'
  BY <1>1, StillKnows DEF UpdateStatus, Exists
<1> QED BY <1>2, <1>3, <1>4, <1>5

\* EndSessions: no row of sso_users, no callback.
LEMMA EndSessionsKeeps ==
  ASSUME IInv, NEW S \in SUBSET Session, EndSessions(S) PROVE IInv'
<1> USE DEF IInv
<1>1. sso_sessions' \in [Session -> SessionRow]
  <2>1. ASSUME NEW s \in Session
        PROVE  /\ [sso_sessions[s] EXCEPT !.state = "revoked"] \in SessionRow
               /\ [sso_sessions[s] EXCEPT !.state = "deleted", !.sid = None] \in SessionRow
    <3>1. sso_sessions[s] \in SessionRow
      BY DEF TypeOK
    <3> QED BY <3>1 DEF SessionRow
  <2>2. \A s \in Session : sso_sessions[s] \in SessionRow
    BY DEF TypeOK
  <2>3. CASE sso_sessions' = [s \in Session |->
               IF s \in S THEN [sso_sessions[s] EXCEPT !.state = "revoked"] ELSE sso_sessions[s]]
    BY <2>1, <2>2, <2>3
  <2>4. CASE sso_sessions' = [s \in Session |->
               IF s \in S THEN [sso_sessions[s] EXCEPT !.state = "deleted", !.sid = None]
                          ELSE sso_sessions[s]]
    BY <2>1, <2>2, <2>4
  <2> QED BY <2>3, <2>4 DEF EndSessions
<1>2. TypeOK'
  BY <1>1 DEF EndSessions, TypeOK
<1>3. OneRowPerPerson' /\ Owned' /\ Unshared'
  BY DEF EndSessions, OneRowPerPerson, Owned, Unshared, Exists
<1>4. ASSUME NEW q \in Request PROVE Knows(q)'
  BY StillKnows DEF EndSessions, Exists
<1> QED BY <1>2, <1>3, <1>4

\* Every step preserves the inductive invariant.
LEMMA NextIInv == IInv /\ [Next]_vars => IInv'
<1> SUFFICES ASSUME IInv, [Next]_vars PROVE IInv'
  OBVIOUS
<1>1. CASE UNCHANGED vars
  BY <1>1 DEF vars, IInv, TypeOK, OneRowPerPerson, Owned, Unshared, Knows, Exists
<1>2. ASSUME NEW r \in Request,
             \/ \E p \in Person, x \in Sid : Callback(r, p, x)
             \/ CallbackRefused(r) \/ Step(r) \/ StatementFails(r)
      PROVE IInv'
  BY <1>2, CallbackKeeps, CallbackRefusedKeeps, FindByCasdoorIDKeeps, SaveKeeps,
     CreateSessionKeeps, UpdateLastLoginKeeps, StatementFailsKeeps DEF Step
<1>3. CASE Crash
  BY <1>3, CrashKeeps
<1>4. CASE \E u \in UserId : SuspendUser(u) \/ Delete(u)
  BY <1>4, UpdateStatusKeeps DEF SuspendUser, Delete
<1>5. CASE \E S \in SUBSET Session : EndSessions(S)
  BY <1>5, EndSessionsKeeps
<1> QED BY <1>1, <1>2, <1>3, <1>4, <1>5 DEF Next

\* Every reachable state satisfies the inductive invariant.
LEMMA Invariance == Spec => []IInv
BY InitIInv, NextIInv, PTL DEF Spec

-----------------------------------------------------------------------------
(* The theorems.                                                           *)

\* Every variable has its type in every reachable state: the statements of the
\* callback keep the columns in their domains (repository/identity_repo.go,
\* repository/session_repo.go).
THEOREM TypeCorrect == Spec => []TypeOK
<1>1. IInv => TypeOK
  BY DEF IInv
<1> QED BY <1>1, Invariance, PTL

\* The row a callback inserts its session for exists and is that of the person
\* whose ID token it validated (auth/service.go:114).
THEOREM RightPerson == Spec => []SessionForThePerson
<1>1. IInv => SessionForThePerson
  BY DEF IInv, Knows, SessionForThePerson
<1> QED BY <1>1, Invariance, PTL

\* An account that is not active, and of which no callback holds an active copy.
Shut(u) ==
  /\ sso_users[u].status \in {"suspended", "deleted"}
  /\ \A r \in Request : copy[r].id = u => copy[r].status # "active"

\* Sessions of u are neither added nor revived.
NoneGained(u) ==
  \A s \in Session : sso_sessions'[s].user = u =>
    /\ sso_sessions[s].user = u
    /\ sso_sessions'[s].state = "active" => sso_sessions[s].state = "active"

\* A shut account stays shut and gets no session.
LEMMA ShutStep ==
  ASSUME IInv, [Next]_vars, NEW u \in UserId, Shut(u)
  PROVE  Shut(u)' /\ NoneGained(u)
<1> USE DEF IInv
<1>1. /\ Exists(u)
      /\ sso_users[u].status \in {"suspended", "deleted"}
      /\ \A r \in Request : copy[r].id = u => copy[r].status # "active"
      /\ u # None
  BY NoneIsNone DEF Shut, Exists
<1>2. CASE UNCHANGED vars
  BY <1>2 DEF vars, Shut, NoneGained
<1>3. ASSUME NEW r \in Request, \E p \in Person, x \in Sid : Callback(r, p, x)
      PROVE  Shut(u)' /\ NoneGained(u)
  BY <1>1, <1>3 DEF Callback, Shut, NoneGained
<1>4. ASSUME NEW r \in Request, CallbackRefused(r) PROVE Shut(u)' /\ NoneGained(u)
  BY <1>1, <1>4 DEF CallbackRefused, Shut, NoneGained
<1>5. ASSUME NEW r \in Request, NEW code, Reply(r, code)
      PROVE  \A q \in Request : copy'[q].id = u => copy'[q].status # "active"
  BY <1>1, <1>5 DEF Reply, TypeOK, NoCopy
<1>6. ASSUME NEW r \in Request, pc[r] = "Save", CanSave(r), Upsert(r)
      PROVE  sso_users'[u].status \in {"suspended", "deleted"}
  <2>1. CASE copy[r].id = u
    BY <1>1, <1>6, <2>1, UpsertStores DEF Status, Knows, Copy
  <2>2. CASE copy[r].id # u
    BY <1>1, <1>6, <2>2, UpsertStores
  <2> QED BY <2>1, <2>2
<1>7. ASSUME NEW r \in Request, FindByCasdoorID(r) PROVE Shut(u)' /\ NoneGained(u)
  <2>1. /\ UNCHANGED <<sso_users, sso_sessions>>
        /\ \E c \in {copy'[r]} :
             /\ \A q \in Request : copy'[q] = IF q = r THEN c ELSE copy[q]
             /\ c.id = u => c.status # "active"
    <3>1. CASE \E v \in UserId :
                 copy' = [copy EXCEPT ![r] = [id |-> v, status |-> sso_users[v].status,
                                              last_login_at |-> sso_users[v].last_login_at]]
      BY <1>1, <1>7, <3>1 DEF FindByCasdoorID, TypeOK
    <3>2. CASE \E v \in UserId :
                 /\ Fresh(v)
                 /\ copy' = [copy EXCEPT ![r] = [id |-> v, status |-> "active",
                                                 last_login_at |-> 0]]
      BY <1>1, <1>7, <3>2 DEF FindByCasdoorID, TypeOK, Fresh
    <3> QED BY <1>7, <3>1, <3>2 DEF FindByCasdoorID
  <2> QED BY <1>1, <2>1 DEF Shut, NoneGained
<1>8. ASSUME NEW r \in Request, Save(r) PROVE Shut(u)' /\ NoneGained(u)
  <2>1. sso_sessions' = sso_sessions
    BY <1>8 DEF Save
  <2>2. sso_users'[u].status \in {"suspended", "deleted"}
    BY <1>1, <1>6, <1>8 DEF Save
  <2>3. \A q \in Request : copy'[q].id = u => copy'[q].status # "active"
    BY <1>1, <1>5, <1>8 DEF Save
  <2> QED BY <2>1, <2>2, <2>3 DEF Shut, NoneGained
<1>9. ASSUME NEW r \in Request, NEW s \in Session, pc[r] = "CreateSession", Insert(r, s)
      PROVE  NoneGained(u)
  <2>1. copy[r].id # u
    BY <1>1, <1>9 DEF Knows
  <2> QED BY <1>9, <2>1 DEF Insert, TypeOK, NoneGained
<1>10. ASSUME NEW r \in Request, CreateSession(r) PROVE Shut(u)' /\ NoneGained(u)
  <2>1. sso_users' = sso_users
    BY <1>10 DEF CreateSession
  <2>2. NoneGained(u)
    <3>1. CASE UNCHANGED sso_sessions
      BY <3>1 DEF NoneGained
    <3> QED BY <1>9, <1>10, <3>1 DEF CreateSession
  <2>3. \A q \in Request : copy'[q].id = u => copy'[q].status # "active"
    BY <1>1, <1>5, <1>10 DEF CreateSession
  <2> QED BY <1>1, <2>1, <2>2, <2>3 DEF Shut
<1>11. ASSUME NEW r \in Request, UpdateLastLogin(r) PROVE Shut(u)' /\ NoneGained(u)
  <2>1. copy[r].id \in UserId
    BY <1>11 DEF UpdateLastLogin, Knows, Copy
  <2>2. sso_users'[u].status = sso_users[u].status /\ sso_sessions' = sso_sessions
    BY <1>11, <2>1 DEF UpdateLastLogin, TypeOK, UserRow
  <2>3. \A q \in Request : copy'[q].id = u => copy'[q].status # "active"
    BY <1>5, <1>11 DEF UpdateLastLogin
  <2> QED BY <1>1, <2>2, <2>3 DEF Shut, NoneGained
<1>12. ASSUME NEW r \in Request, StatementFails(r) PROVE Shut(u)' /\ NoneGained(u)
  <2>1. \A q \in Request : copy'[q].id = u => copy'[q].status # "active"
    BY <1>5, <1>12 DEF StatementFails
  <2>2. sso_users'[u].status \in {"suspended", "deleted"}
    BY <1>1, <1>6, <1>12 DEF StatementFails
  <2>3. NoneGained(u)
    <3>1. CASE UNCHANGED sso_sessions
      BY <3>1 DEF NoneGained
    <3> QED BY <1>9, <1>12, <3>1 DEF StatementFails
  <2> QED BY <2>1, <2>2, <2>3 DEF Shut
<1>13. CASE Crash
  BY <1>1, <1>13 DEF Crash, Shut, NoneGained, NoCopy
<1>14. CASE \E v \in UserId : SuspendUser(v) \/ Delete(v)
  BY <1>1, <1>14 DEF SuspendUser, Delete, UpdateStatus, Shut, NoneGained, TypeOK, UserRow
<1>15. ASSUME NEW S \in SUBSET Session, EndSessions(S) PROVE Shut(u)' /\ NoneGained(u)
  <2>1. ASSUME NEW s \in Session
        PROVE  /\ sso_sessions'[s].user = sso_sessions[s].user
               /\ sso_sessions'[s].state = "active" => sso_sessions[s].state = "active"
    <3>1. sso_sessions[s] \in SessionRow
      BY DEF TypeOK
    <3>2. \/ sso_sessions'[s] = [sso_sessions[s] EXCEPT !.state = "revoked"]
          \/ sso_sessions'[s] = [sso_sessions[s] EXCEPT !.state = "deleted", !.sid = None]
          \/ sso_sessions'[s] = sso_sessions[s]
      BY <1>15 DEF EndSessions
    <3> QED BY <3>1, <3>2 DEF SessionRow
  <2>2. UNCHANGED <<sso_users, copy>>
    BY <1>15 DEF EndSessions
  <2> QED BY <1>1, <2>1, <2>2 DEF Shut, NoneGained
<1> QED BY <1>2, <1>3, <1>4, <1>7, <1>8, <1>10, <1>11, <1>12, <1>13, <1>14, <1>15 DEF Next, Step

\* No step gives a locked-out account its status or a session back.
LEMMA LockoutStep ==
  ASSUME IInv, [Next]_vars, NEW u \in UserId, LockedOut(u)
  PROVE  LockedOut(u)'
<1>1. Shut(u)
  BY DEF LockedOut, Shut
<1>2. Shut(u)' /\ NoneGained(u)
  BY <1>1, ShutStep
<1> QED BY <1>2 DEF LockedOut, Shut, NoneGained

\* A suspension or deletion lasts once the sessions are ended and no login
\* overlaps it: neither a later callback nor a failed statement nor a crash lets
\* the account in (identity/service.go:64, logout_handler.go:73).
THEOREM Lockout == Spec => LockoutIsPermanent
<1>1. IInv /\ [Next]_vars => [\A u \in UserId : LockedOut(u) => LockedOut(u)']_vars
  BY LockoutStep
<1> QED BY <1>1, Invariance, PTL DEF Spec, LockoutIsPermanent

-----------------------------------------------------------------------------
(* The person behind the account.                                          *)

\* No step deletes a row of sso_users or gives it to another person.
RowsStay == \A u \in UserId : Exists(u) => /\ sso_users'[u].status # "none"
                                           /\ sso_users'[u].casdoor_id = sso_users[u].casdoor_id

LEMMA RowsStayStep == ASSUME IInv, [Next]_vars PROVE RowsStay
<1>1. CASE UNCHANGED sso_users
  BY <1>1 DEF RowsStay, Exists
<1>2. ASSUME NEW r \in Request, pc[r] = "Save", CanSave(r), Upsert(r) PROVE RowsStay
  BY <1>2, UpsertTableKeeps DEF TableKeeps, RowsStay
<1>3. ASSUME NEW r \in Request, UpdateLastLogin(r) PROVE RowsStay
  <2>1. copy[r].id \in UserId
    BY <1>3 DEF UpdateLastLogin, IInv, Knows, Copy
  <2>2. sso_users \in [UserId -> UserRow]
    BY DEF IInv, TypeOK
  <2> QED BY <1>3, <2>1, <2>2 DEF UpdateLastLogin, RowsStay, Exists, UserRow
<1>4. ASSUME NEW u \in UserId, NEW st \in {"suspended", "deleted"}, UpdateStatus(u, st)
      PROVE  RowsStay
  <2>1. sso_users \in [UserId -> UserRow]
    BY DEF IInv, TypeOK
  <2> QED BY <1>4, <2>1 DEF UpdateStatus, RowsStay, Exists, UserRow
<1>5. ASSUME NEW r \in Request, Save(r) \/ StatementFails(r) PROVE RowsStay
  BY <1>1, <1>2, <1>5 DEF Save, StatementFails
<1> QED BY <1>1, <1>3, <1>4, <1>5 DEF Next, Step, Callback, CallbackRefused, FindByCasdoorID,
           CreateSession, Crash, SuspendUser, Delete, EndSessions, vars

\* Only the last statement of a callback is followed by 200.
LEMMA Welcomed ==
  ASSUME IInv, [Next]_vars, NEW r \in Request, out[r] = 0, out'[r] = 200
  PROVE  pc[r] = "UpdateLastLogin"
<1>1. out \in [Request -> {0, 200, 401, 403, 500}]
  BY DEF IInv, TypeOK
<1>2. ASSUME NEW q \in Request, NEW code, Reply(q, code), code = 200 => pc[q] = "UpdateLastLogin"
      PROVE  pc[r] = "UpdateLastLogin"
  BY <1>1, <1>2 DEF Reply
<1>3. ASSUME NEW q \in Request, Step(q) PROVE pc[r] = "UpdateLastLogin"
  <2>1. ASSUME out' = out PROVE FALSE
    BY <2>1
  <2> QED BY <1>2, <1>3, <2>1 DEF Step, FindByCasdoorID, Save, CreateSession, UpdateLastLogin, Goto
<1>4. ASSUME NEW q \in Request, StatementFails(q) PROVE pc[r] = "UpdateLastLogin"
  BY <1>2, <1>4 DEF StatementFails
<1>5. ASSUME NEW q \in Request,
             (\E p \in Person, x \in Sid : Callback(q, p, x)) \/ CallbackRefused(q)
      PROVE  out'[r] # 200
  BY <1>1, <1>5 DEF Callback, CallbackRefused
<1>6. CASE Crash
  BY <1>6 DEF Crash
<1>7. CASE \/ UNCHANGED vars
           \/ \E u \in UserId : SuspendUser(u) \/ Delete(u)
           \/ \E S \in SUBSET Session : EndSessions(S)
  <2>1. UNCHANGED vars => out' = out
    BY DEF vars
  <2>2. \A u \in UserId : SuspendUser(u) \/ Delete(u) => out' = out
    BY DEF SuspendUser, Delete, UpdateStatus
  <2>3. \A S \in SUBSET Session : EndSessions(S) => out' = out
    BY DEF EndSessions
  <2>4. out' = out
    BY <1>7, <2>1, <2>2, <2>3
  <2> QED BY <2>4
<1> QED BY <1>3, <1>4, <1>5, <1>6, <1>7 DEF Next

\* The one account of a person who is shut out stays shut.
LEMMA ShutOutStep ==
  ASSUME IInv, [Next]_vars, NEW p \in Person, ShutOut(p)
  PROVE  /\ ShutOut(p)'
         /\ \A r \in Request : person[r] = p => out'[r] # 200
         /\ \A u \in Accounts(p)', s \in Session :
              sso_sessions'[s].user = u => sso_sessions[s].user = u
<1>1. PICK u \in UserId : Exists(u) /\ sso_users[u].casdoor_id = p /\ Shut(u)
  BY DEF ShutOut, Accounts, Shut
<1>2. Shut(u)' /\ NoneGained(u)
  BY <1>1, ShutStep
<1>3. Exists(u)' /\ sso_users'[u].casdoor_id = p
  BY <1>1, RowsStayStep DEF RowsStay, Exists
<1>4. ShutOut(p)'
  BY <1>2, <1>3 DEF ShutOut, Accounts, Shut
<1>5. ASSUME NEW r \in Request, person[r] = p, out'[r] = 200 PROVE FALSE
  <2>1. pc[r] # "idle" /\ out[r] = 0
    BY <1>5, NoneIsNone DEF IInv, Knows
  <2>2. pc[r] = "UpdateLastLogin"
    BY <1>5, <2>1, Welcomed
  <2>3. /\ copy[r].id \in UserId /\ Exists(copy[r].id) /\ copy[r].status = "active"
        /\ sso_users[copy[r].id].casdoor_id = p
    BY <1>5, <2>2 DEF IInv, Knows, Copy
  <2>4. copy[r].id = u
    BY <1>1, <2>3 DEF IInv, OneRowPerPerson
  <2> QED BY <1>1, <2>3, <2>4 DEF Shut
<1>6. Accounts(p)' \subseteq {u}
  <2>1. OneRowPerPerson'
    BY NextIInv DEF IInv
  <2> QED BY <1>3, <2>1 DEF OneRowPerPerson, Accounts, Exists
<1>7. \A s \in Session : sso_sessions'[s].user = u => sso_sessions[s].user = u
  BY <1>2 DEF NoneGained
<1> QED BY <1>4, <1>5, <1>6, <1>7

\* A person whose account is suspended or deleted while no login of it is on the
\* way is not let in again, not even under a second account: the UNIQUE casdoor_id
\* refuses the row that a login of a deleted person would add (identity_repo.go:74,
\* auth/service.go:109).
THEOREM NoSecondAccount == Spec => ShutOutStaysOut
<1>1. IInv /\ [Next]_vars =>
        [\A p \in Person : ShutOut(p) =>
           /\ ShutOut(p)'
           /\ \A r \in Request : person[r] = p => out'[r] # 200
           /\ \A u \in Accounts(p)', s \in Session :
                sso_sessions'[s].user = u => sso_sessions[s].user = u]_vars
  BY ShutOutStep
<1> QED BY <1>1, Invariance, PTL DEF Spec, ShutOutStaysOut
=============================================================================
