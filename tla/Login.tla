------------------------------- MODULE Login --------------------------------
(***************************************************************************)
(* The OIDC callback and the sso_users table: a login looks its user up,   *)
(* writes the whole user back, checks the copy it holds, inserts a session *)
(* and stamps the login, each a statement of its own, while other logins,  *)
(* suspensions, deletions and forced logouts run beside it.  Casdoor and   *)
(* the administrators are the environment.                                 *)
(***************************************************************************)
EXTENDS Integers

CONSTANTS
  Person,      \* Casdoor identities (claims.Id)
  UserId,      \* ids of sso_users rows, drawn from uuid.New()
  Session,     \* ids of sso_sessions rows
  Token,       \* access tokens Casdoor can put into an ID token, one per login
  Request,
  None,
  MaxFaults    \* bound: failed statements and crashes

ASSUME LoginAssumption ==
  /\ MaxFaults \in Nat
  /\ None \notin Person \cup UserId \cup Session \cup Token
  /\ Person \cap Token = {}

VARIABLES
  sso_users,     \* the table, see UserRow
  sso_sessions,  \* the table, see SessionRow
  clock,         \* NOW(), as far as last_login_at is concerned
  pc,            \* the statement a callback executes next, or "idle"
  person,        \* UserInfo.CasdoorID of the callback
  sid,           \* UserInfo.SID of the callback
  copy,          \* the *identity.User the callback holds
  out,           \* the HTTP status last sent, 0 if none
  issued,        \* tokens Casdoor has used
  faults

tables == <<sso_users, sso_sessions, clock>>
local  == <<pc, person, sid, copy, out>>
vars   == <<tables, local, issued, faults>>

Sid        == Person \cup Token
Status     == {"active", "suspended", "deleted"}
UserRow    == [status : Status \cup {"none"}, casdoor_id : Person \cup {None},
               last_login_at : Nat]
SessionRow == [state : {"none", "active", "revoked", "deleted"},
               user : UserId \cup {None}, sid : Sid \cup {None}]
Copy       == [id : UserId, status : Status, last_login_at : Nat]
NoCopy     == [id |-> None, status |-> "deleted", last_login_at |-> 0]

Exists(u) == sso_users[u].status # "none"

-----------------------------------------------------------------------------
(* The callback.                                                           *)

Goto(r, next) == pc' = [pc EXCEPT ![r] = next] /\ UNCHANGED <<person, sid, out>>

Reply(r, code) ==
  /\ pc' = [pc EXCEPT ![r] = "idle"]
  /\ out' = [out EXCEPT ![r] = code]
  /\ person' = [person EXCEPT ![r] = None]
  /\ sid' = [sid EXCEPT ![r] = None]
  /\ copy' = [copy EXCEPT ![r] = NoCopy]

\* Code exchange, ParseIDToken and GetUser.  claims.AccessToken identifies the
\* login; without it the sid falls back to the person's id.
Callback(r, p, x) ==
  /\ pc[r] = "idle"
  /\ x \in {p} \cup (Token \ issued)
  /\ issued' = issued \cup ({x} \cap Token)
  /\ pc' = [pc EXCEPT ![r] = "FindByCasdoorID"]
  /\ person' = [person EXCEPT ![r] = p]
  /\ sid' = [sid EXCEPT ![r] = x]
  /\ out' = [out EXCEPT ![r] = 0]
  /\ UNCHANGED <<tables, copy, faults>>

\* The exchange or the validation of the ID token fails.
CallbackRefused(r) ==
  /\ pc[r] = "idle"
  /\ out' = [out EXCEPT ![r] = 401]
  /\ UNCHANGED <<tables, pc, person, sid, copy, issued, faults>>

\* uuid.New(): neither stored nor held by another callback.
Fresh(u) == ~Exists(u) /\ \A q \in Request : copy[q].id # u

\* Mutants: the WHERE clause forgets the person; the row found is rebuilt by
\* NewUser instead of being read.
FindByCasdoorID_anyone(r) ==
  LET found == {u \in UserId : sso_users[u].status \in {"active", "suspended"}} IN
  /\ pc[r] = "FindByCasdoorID"
  /\ \/ \E u \in found :
          copy' = [copy EXCEPT ![r] = [id |-> u, status |-> sso_users[u].status,
                                       last_login_at |-> sso_users[u].last_login_at]]
     \/ /\ found = {}
        /\ \E u \in UserId :
             /\ Fresh(u)
             /\ copy' = [copy EXCEPT ![r] = [id |-> u, status |-> "active",
                                             last_login_at |-> 0]]
  /\ Goto(r, "Save")
  /\ UNCHANGED <<tables, issued, faults>>

FindByCasdoorID_rebuilds(r) ==
  LET found == {u \in UserId : /\ sso_users[u].casdoor_id = person[r]
                               /\ sso_users[u].status \in {"active", "suspended"}} IN
  /\ pc[r] = "FindByCasdoorID"
  /\ \E u \in UserId :
       /\ u \in found \/ (found = {} /\ Fresh(u))
       /\ copy' = [copy EXCEPT ![r] = [id |-> u, status |-> "active", last_login_at |-> 0]]
  /\ Goto(r, "Save")
  /\ UNCHANGED <<tables, issued, faults>>

FindByCasdoorID(r) ==
  LET found == {u \in UserId : /\ sso_users[u].casdoor_id = person[r]
                               /\ sso_users[u].status \in {"active", "suspended"}} IN
  /\ pc[r] = "FindByCasdoorID"
  /\ \/ \E u \in found :
          copy' = [copy EXCEPT ![r] = [id |-> u, status |-> sso_users[u].status,
                                       last_login_at |-> sso_users[u].last_login_at]]
     \/ /\ found = {}
        /\ \E u \in UserId :
             /\ Fresh(u)
             /\ copy' = [copy EXCEPT ![r] = [id |-> u, status |-> "active",
                                             last_login_at |-> 0]]
  /\ Goto(r, "Save")
  /\ UNCHANGED <<tables, issued, faults>>

\* Mutant: casdoor_id is UNIQUE among the rows that are not deleted.
CanSave_live(r) ==
  \/ Exists(copy[r].id)
  \/ \A u \in UserId : sso_users[u].status \in {"active", "suspended"}
                         => sso_users[u].casdoor_id # person[r]

\* INSERT ... ON CONFLICT (id) DO UPDATE, with casdoor_id UNIQUE.
CanSave(r) ==
  \/ Exists(copy[r].id)
  \/ \A u \in UserId : Exists(u) => sso_users[u].casdoor_id # person[r]

\* email is UNIQUE as well, and a new user can bring one that is in use.
EmailMayClash(r) == ~Exists(copy[r].id) /\ \E u \in UserId : Exists(u)

Upsert(r) ==
  sso_users' = [sso_users EXCEPT ![copy[r].id] =
                  [status        |-> copy[r].status,
                   casdoor_id    |-> IF Exists(copy[r].id) THEN @.casdoor_id ELSE person[r],
                   last_login_at |-> copy[r].last_login_at]]

\* Mutant: the status is not checked.
Save_unchecked(r) ==
  /\ pc[r] = "Save"
  /\ \/ CanSave(r) /\ Upsert(r) /\ Goto(r, "CreateSession") /\ UNCHANGED copy
     \/ (~CanSave(r) \/ EmailMayClash(r)) /\ Reply(r, 500) /\ UNCHANGED sso_users
  /\ UNCHANGED <<sso_sessions, clock, issued, faults>>

\* ProvisionUser's Save, then user.IsActive() of the copy.
Save(r) ==
  /\ pc[r] = "Save"
  /\ \/ /\ CanSave(r) /\ Upsert(r)
        /\ \/ copy[r].status = "active" /\ Goto(r, "CreateSession") /\ UNCHANGED copy
           \/ copy[r].status # "active" /\ Reply(r, 403)
     \/ (~CanSave(r) \/ EmailMayClash(r)) /\ Reply(r, 500) /\ UNCHANGED sso_users
  /\ UNCHANGED <<sso_sessions, clock, issued, faults>>

\* The INSERT of a session, with sid UNIQUE.
CanInsert(r) == \A s \in Session : sso_sessions[s].sid # sid[r]

\* Mutant: the external id in place of the internal one.
Insert_external(r, s) ==
  /\ sso_sessions[s].state = "none"
  /\ sso_sessions' = [sso_sessions EXCEPT ![s] =
                        [state |-> "active", user |-> person[r], sid |-> sid[r]]]

Insert(r, s) ==
  /\ sso_sessions[s].state = "none"
  /\ sso_sessions' = [sso_sessions EXCEPT ![s] =
                        [state |-> "active", user |-> copy[r].id, sid |-> sid[r]]]

CreateSession(r) ==
  /\ pc[r] = "CreateSession"
  /\ \/ CanInsert(r) /\ (\E s \in Session : Insert(r, s))
          /\ Goto(r, "UpdateLastLogin") /\ UNCHANGED copy
     \/ ~CanInsert(r) /\ Reply(r, 500) /\ UNCHANGED sso_sessions
  /\ UNCHANGED <<sso_users, clock, issued, faults>>

UpdateLastLogin(r) ==
  /\ pc[r] = "UpdateLastLogin"
  /\ clock' = clock + 1
  /\ sso_users' = [sso_users EXCEPT ![copy[r].id].last_login_at = clock']
  /\ Reply(r, 200)
  /\ UNCHANGED <<sso_sessions, issued, faults>>

-----------------------------------------------------------------------------
(* Failures: the statement may have been executed; only the last one's     *)
(* error is ignored.                                                       *)

StatementFails(r) ==
  /\ faults < MaxFaults
  /\ pc[r] # "idle"
  /\ \/ UNCHANGED <<sso_users, sso_sessions>>
     \/ pc[r] = "Save" /\ CanSave(r) /\ Upsert(r) /\ UNCHANGED sso_sessions
     \/ /\ pc[r] = "CreateSession" /\ CanInsert(r)
        /\ \E s \in Session : Insert(r, s)
        /\ UNCHANGED sso_users
  /\ Reply(r, IF pc[r] = "UpdateLastLogin" THEN 200 ELSE 500)
  /\ faults' = faults + 1
  /\ UNCHANGED <<clock, issued>>

Crash ==
  /\ faults < MaxFaults
  /\ \E r \in Request : pc[r] # "idle"
  /\ pc' = [r \in Request |-> "idle"]
  /\ out' = [r \in Request |-> 0]
  /\ person' = [r \in Request |-> None]
  /\ sid' = [r \in Request |-> None]
  /\ copy' = [r \in Request |-> NoCopy]
  /\ faults' = faults + 1
  /\ UNCHANGED <<tables, issued>>

-----------------------------------------------------------------------------
(* Account administration.                                                 *)

UpdateStatus(u, st) ==
  /\ Exists(u)
  /\ sso_users' = [sso_users EXCEPT ![u].status = st]
  /\ UNCHANGED <<sso_sessions, clock, local, issued, faults>>

SuspendUser(u) == UpdateStatus(u, "suspended")
Delete(u)      == UpdateStatus(u, "deleted")

\* What logouts, revocations and the cleanup of expired rows do to sessions,
\* one row or all of a user's; Sessions models the requests around it.
EndSessions(S) ==
  /\ S # {} /\ \A s \in S : sso_sessions[s].state = "active"
  /\ \/ sso_sessions' = [s \in Session |->
           IF s \in S THEN [sso_sessions[s] EXCEPT !.state = "revoked"] ELSE sso_sessions[s]]
     \/ sso_sessions' = [s \in Session |->
           IF s \in S THEN [sso_sessions[s] EXCEPT !.state = "deleted", !.sid = None]
                      ELSE sso_sessions[s]]
  /\ UNCHANGED <<sso_users, clock, local, issued, faults>>

-----------------------------------------------------------------------------
Init ==
  /\ sso_users = [u \in UserId |-> [status |-> "none", casdoor_id |-> None, last_login_at |-> 0]]
  /\ sso_sessions = [s \in Session |-> [state |-> "none", user |-> None, sid |-> None]]
  /\ clock = 0
  /\ pc = [r \in Request |-> "idle"]
  /\ person = [r \in Request |-> None]
  /\ sid = [r \in Request |-> None]
  /\ copy = [r \in Request |-> NoCopy]
  /\ out = [r \in Request |-> 0]
  /\ issued = {}
  /\ faults = 0

Step(r) == FindByCasdoorID(r) \/ Save(r) \/ CreateSession(r) \/ UpdateLastLogin(r)

Next ==
  \/ \E r \in Request :
       \/ \E p \in Person, x \in Sid : Callback(r, p, x)
       \/ CallbackRefused(r)
       \/ Step(r)
       \/ StatementFails(r)
  \/ Crash
  \/ \E u \in UserId : SuspendUser(u) \/ Delete(u)
  \/ \E S \in SUBSET Session : EndSessions(S)

Spec == Init /\ [][Next]_vars

-----------------------------------------------------------------------------
(* Properties.                                                             *)

\* Every variable has its type; sessions refer to rows of sso_users.
TypeOK ==
  /\ sso_users \in [UserId -> UserRow]
  /\ sso_sessions \in [Session -> SessionRow]
  /\ clock \in Nat
  /\ pc \in [Request -> {"idle", "FindByCasdoorID", "Save", "CreateSession", "UpdateLastLogin"}]
  /\ person \in [Request -> Person \cup {None}]
  /\ sid \in [Request -> Sid \cup {None}]
  /\ copy \in [Request -> Copy \cup {NoCopy}]
  /\ out \in [Request -> {0, 200, 401, 403, 500}]
  /\ issued \subseteq Token
  /\ faults \in Nat

\* The session a callback is about to insert belongs to the row of the person
\* whose ID token it validated, and that row exists (the foreign key of
\* migrations/002:10), although the copy it works with may be out of date.
SessionForThePerson ==
  \A r \in Request : pc[r] \in {"CreateSession", "UpdateLastLogin"}
    => Exists(copy[r].id) /\ sso_users[copy[r].id].casdoor_id = person[r]

\* An account is locked out when it is not active, has no active session and
\* no callback holds an active copy of it.
LockedOut(u) ==
  /\ sso_users[u].status \in {"suspended", "deleted"}
  /\ \A s \in Session : sso_sessions[s].user = u => sso_sessions[s].state # "active"
  /\ \A r \in Request : copy[r].id = u => copy[r].status # "active"

\* Nothing the hub does on its own lets a locked-out account in again: a
\* suspension lasts once the logins that overlap it are over
\* (identity/service.go:64, logout_handler.go:73).
LockoutIsPermanent == [][\A u \in UserId : LockedOut(u) => LockedOut(u)']_vars

Accounts(p) == {u \in UserId : Exists(u) /\ sso_users[u].casdoor_id = p}

\* A person is shut out when one of the person's accounts is not active and no
\* callback holds an active copy of it.
ShutOut(p) ==
  \E u \in Accounts(p) :
    /\ sso_users[u].status \in {"suspended", "deleted"}
    /\ \A r \in Request : copy[r].id = u => copy[r].status # "active"

\* Who is shut out stays out: no login of the person is answered with 200 or gets
\* a session, neither through the account nor through a second one, although
\* FindByCasdoorID does not see a deleted row and ProvisionUser then makes a new
\* user (identity_repo.go:74, identity/service.go:44, auth/service.go:109).
ShutOutStaysOut ==
  [][\A p \in Person : ShutOut(p) =>
       /\ ShutOut(p)'
       /\ \A r \in Request : person[r] = p => out'[r] # 200
       /\ \A u \in Accounts(p)', s \in Session :
            sso_sessions'[s].user = u => sso_sessions[s].user = u]_vars

-----------------------------------------------------------------------------
(* What comments of the source say, and the code does not do.              *)

\* "SuspendUser locks a user account immediately" (identity/service.go:64):
\* nothing in the hub reactivates a suspended account.
SuspensionSticks ==
  [][\A u \in UserId : sso_users[u].status = "suspended"
                          => sso_users'[u].status # "active"]_vars
=============================================================================
