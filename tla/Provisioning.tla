---------------------------- MODULE Provisioning -----------------------------
(***************************************************************************)
(* Pushing users to a SCIM directory.  A provisioning reads the user from  *)
(* sso_users, asks the directory for a resource with the user's external   *)
(* id, and PUTs or POSTs what it read at first; a deprovisioning patches   *)
(* the resource it finds.  No step is atomic with another one, and the     *)
(* directory is a remote server: it can execute a call whose caller has    *)
(* stopped waiting for it, at once or when other requests have come and    *)
(* gone.                                                                   *)
(***************************************************************************)
EXTENDS Integers

CONSTANTS
  User,        \* rows of sso_users; external ids are as unique as these
  Resource,    \* SCIMUser.ID, assigned by the directory
  Request,
  None,
  MaxFaults    \* bound: failed calls and crashes

ASSUME ProvisioningAssumption == MaxFaults \in Nat /\ None \notin User \cup Resource

VARIABLES
  status,      \* sso_users.status
  directory,   \* the resources: the user they stand for (None: unused id), active
  pc,          \* the call a request makes next, or "idle"
  op,          \* the handler
  user,        \* the user id in the path
  active,      \* the value of active to send: SCIMUser.Active of the user read, or false
  found,       \* existing.ID
  sync,        \* history: how far the last request for a user has brought the directory
  raced,       \* history: users whose requests or POSTs overlapped, or whose resource was not found
  late,        \* calls nobody waits for any more that the directory is yet to execute
  faults

local == <<pc, op, user, active, found>>
vars  == <<status, directory, local, sync, raced, late, faults>>

Status == {"active", "suspended", "deleted"}
Of(u)  == {x \in Resource : directory[x].user = u}
InFlight(u) == {r \in Request : pc[r] # "idle" /\ user[r] = u}

\* A POST, PUT or PATCH: found is None for a POST.
Calls == [by : Request, no : Nat, user : User, found : Resource \cup {None}, active : BOOLEAN]

LatePosts(u) == {c \in late : c.user = u /\ c.found = None}

-----------------------------------------------------------------------------
\* The handlers up to their first call (a malformed user_id is answered with
\* 400 before it and changes nothing).  A request alone since its user's
\* status last changed is "pushing" that status, one that is not is "stale".
Begin(r, handler, u) ==
  /\ pc[r] = "idle"
  /\ pc' = [pc EXCEPT ![r] = "GetUser"]
  /\ op' = [op EXCEPT ![r] = handler]
  /\ user' = [user EXCEPT ![r] = u]
  /\ sync' = [sync EXCEPT ![u] = IF InFlight(u) = {} THEN "pushing" ELSE "stale"]
  /\ raced' = IF InFlight(u) = {} /\ LatePosts(u) = {} THEN raced ELSE raced \cup {u}
  /\ UNCHANGED <<status, directory, active, found, late, faults>>

ProvisionUser(r, u)   == Begin(r, "ProvisionUser", u)
DeprovisionUser(r, u) == Begin(r, "DeprovisionUser", u)

Goto(r, next) == pc' = [pc EXCEPT ![r] = next] /\ UNCHANGED <<op, user, sync>>

\* The answer, an HTTP status, ends the request.
Reply(r, code) ==
  /\ pc' = [pc EXCEPT ![r] = "idle"]
  /\ user' = [user EXCEPT ![r] = None]
  /\ active' = [active EXCEPT ![r] = FALSE]
  /\ found' = [found EXCEPT ![r] = None]
  /\ sync' = [sync EXCEPT ![user[r]] =
                IF @ # "pushing" \/ code # 200 THEN "stale"
                ELSE IF op[r] = "ProvisionUser" THEN "provisioned" ELSE "deprovisioned"]
  /\ op' = [op EXCEPT ![r] = "none"]

\* identity.Service.GetUser; deleted users are not found.
\* Mutant: the active flag is set without looking at the status.
GetUser_active(r) ==
  /\ pc[r] = "GetUser"
  /\ UNCHANGED <<status, directory, raced, late, faults>>
  /\ \/ status[user[r]] = "deleted" /\ Reply(r, 404)
     \/ /\ status[user[r]] # "deleted"
        /\ active' = [active EXCEPT ![r] = (op[r] = "ProvisionUser")]
        /\ Goto(r, "Find") /\ UNCHANGED found

GetUser(r) ==
  /\ pc[r] = "GetUser"
  /\ UNCHANGED <<status, directory, raced, late, faults>>
  /\ \/ status[user[r]] = "deleted" /\ Reply(r, 404)
     \/ /\ status[user[r]] # "deleted"
        /\ active' = [active EXCEPT ![r] = (op[r] = "ProvisionUser" /\ status[user[r]] = "active")]
        /\ Goto(r, "Find") /\ UNCHANGED found

\* findByExternalID had no resource to return, or failed.
NothingFound(r) ==
  \/ op[r] = "ProvisionUser" /\ Goto(r, "Create") /\ UNCHANGED <<active, found>>
  \/ op[r] = "DeprovisionUser" /\ Reply(r, 502)

\* Mutants: the external id in place of the directory's; every provisioning creates.
Find_external(r) ==
  /\ pc[r] = "Find"
  /\ UNCHANGED <<status, directory, raced, late, faults>>
  /\ \/ /\ Of(user[r]) # {}
        /\ found' = [found EXCEPT ![r] = user[r]]
        /\ Goto(r, IF op[r] = "ProvisionUser" THEN "Update" ELSE "Patch")
        /\ UNCHANGED active
     \/ Of(user[r]) = {} /\ NothingFound(r)

Find_nothing(r) ==
  /\ pc[r] = "Find"
  /\ UNCHANGED <<status, directory, raced, late, faults>>
  /\ NothingFound(r)

\* The directory lists the matching resources in an order of its own; the
\* first one is taken.
Find(r) ==
  /\ pc[r] = "Find"
  /\ UNCHANGED <<status, directory, raced, late, faults>>
  /\ \/ /\ \E x \in Of(user[r]) : found' = [found EXCEPT ![r] = x]
        /\ Goto(r, IF op[r] = "ProvisionUser" THEN "Update" ELSE "Patch")
        /\ UNCHANGED active
     \/ Of(user[r]) = {} /\ NothingFound(r)

\* What a request sends.
Call(r) ==
  [by |-> r, no |-> faults, user |-> user[r], found |-> found[r], active |-> active[r]]

\* PUT, and PATCH replace active false.
Put(c) == directory' = [directory EXCEPT ![c.found].active = c.active]

\* POST: a resource of its own.
Post(c) ==
  \E x \in Resource :
    /\ directory[x].user = None
    /\ directory' = [directory EXCEPT ![x] = [user |-> c.user, active |-> c.active]]

\* Whether it refuses a second one for the same external id is up to the directory.
Refused(c) == Of(c.user) # {} /\ UNCHANGED directory

Update(r) ==
  /\ pc[r] = "Update"
  /\ Put(Call(r)) /\ Reply(r, 200)
  /\ UNCHANGED <<status, raced, late, faults>>

Create(r) ==
  /\ pc[r] = "Create"
  /\ \/ Post(Call(r)) /\ Reply(r, 200)
     \/ Refused(Call(r)) /\ Reply(r, 502)
  /\ UNCHANGED <<status, raced, late, faults>>

Patch(r) ==
  /\ pc[r] = "Patch"
  /\ Put(Call(r)) /\ Reply(r, 200)
  /\ UNCHANGED <<status, raced, late, faults>>

-----------------------------------------------------------------------------
Writing(r) == pc[r] \in {"Update", "Create", "Patch"}

\* A call fails; after its 10 s, or a broken connection, the directory may still
\* have it.  The look-up is special: ProvisionUser takes its error for "not found".
CallFails(r) ==
  /\ faults < MaxFaults
  /\ \/ pc[r] = "GetUser" /\ Reply(r, 500) /\ UNCHANGED <<raced, late>>
     \/ /\ pc[r] = "Find" /\ NothingFound(r) /\ UNCHANGED late
        /\ raced' = IF op[r] = "ProvisionUser" /\ Of(user[r]) # {} THEN raced \cup {user[r]}
                    ELSE raced
     \/ /\ Writing(r) /\ Reply(r, 502) /\ UNCHANGED raced
        /\ late' \in {late, late \cup {Call(r)}}
  /\ faults' = faults + 1
  /\ UNCHANGED <<status, directory>>

Crash ==
  /\ faults < MaxFaults
  /\ \E r \in Request : pc[r] # "idle"
  /\ \E sent \in SUBSET {r \in Request : Writing(r)} : late' = late \cup {Call(r) : r \in sent}
  /\ pc' = [r \in Request |-> "idle"]
  /\ op' = [r \in Request |-> "none"]
  /\ user' = [r \in Request |-> None]
  /\ active' = [r \in Request |-> FALSE]
  /\ found' = [r \in Request |-> None]
  /\ sync' = [u \in User |-> IF InFlight(u) = {} THEN sync[u] ELSE "stale"]
  /\ faults' = faults + 1
  /\ UNCHANGED <<status, directory, raced>>

\* The directory gets to a call its caller has given up; a request still on its
\* way to the directory will overwrite what this one does.
LateCall(c) ==
  /\ \/ c.found # None /\ Put(c)
     \/ c.found = None /\ (Post(c) \/ Refused(c))
  /\ late' = late \ {c}
  /\ sync' = [sync EXCEPT ![c.user] = IF @ = "pushing" THEN @ ELSE "stale"]
  /\ UNCHANGED <<status, local, raced, faults>>

\* A suspension, a deletion, or the upsert of a login (see Login).
SetStatus(u, st) ==
  /\ status[u] # st
  /\ status' = [status EXCEPT ![u] = st]
  /\ sync' = [sync EXCEPT ![u] = "stale"]
  /\ UNCHANGED <<directory, local, raced, late, faults>>

-----------------------------------------------------------------------------
Init ==
  /\ status = [u \in User |-> "active"]
  /\ directory = [x \in Resource |-> [user |-> None, active |-> FALSE]]
  /\ pc = [r \in Request |-> "idle"]
  /\ op = [r \in Request |-> "none"]
  /\ user = [r \in Request |-> None]
  /\ active = [r \in Request |-> FALSE]
  /\ found = [r \in Request |-> None]
  /\ sync = [u \in User |-> "stale"]
  /\ raced = {}
  /\ late = {}
  /\ faults = 0

Next ==
  \/ \E r \in Request :
       \/ \E u \in User : ProvisionUser(r, u) \/ DeprovisionUser(r, u)
       \/ GetUser(r) \/ Find(r) \/ Update(r) \/ Create(r) \/ Patch(r)
       \/ CallFails(r)
  \/ Crash
  \/ \E c \in late : LateCall(c)
  \/ \E u \in User, st \in Status : SetStatus(u, st)

Spec == Init /\ [][Next]_vars

-----------------------------------------------------------------------------
(* Properties.                                                             *)

\* Every variable has its type.
TypeOK ==
  /\ status \in [User -> Status]
  /\ directory \in [Resource -> [user : User \cup {None}, active : BOOLEAN]]
  /\ pc \in [Request -> {"idle", "GetUser", "Find", "Update", "Create", "Patch"}]
  /\ op \in [Request -> {"none", "ProvisionUser", "DeprovisionUser"}]
  /\ user \in [Request -> User \cup {None}]
  /\ active \in [Request -> BOOLEAN]
  /\ found \in [Request -> Resource \cup {None}]
  /\ sync \in [User -> {"stale", "pushing", "provisioned", "deprovisioned"}]
  /\ raced \subseteq User
  /\ late \subseteq Calls
  /\ faults \in Nat

\* A user gets a second resource only if requests overlapped, if one began while
\* the directory still had a POST that was given up, or if a provisioning's look-up
\* of the first one failed.  A POST that is executed though its answer is lost does
\* no harm: the next provisioning finds its resource (scim/client.go:65-76).
DuplicatesAreRaced ==
  \A x, y \in Resource : x # y /\ directory[x].user = directory[y].user
    => directory[x].user \in raced \cup {None}

\* A request that was alone and answered 200 has brought the directory in line
\* with the user's status, or made the user inactive there, whatever happened
\* before, until the status changes or the directory executes a call that was
\* given up (provisioning/service.go:34-36, 60-61).
SettledAgrees ==
  \A x \in Resource : LET u == directory[x].user IN
    u # None /\ Of(u) = {x} =>
      /\ sync[u] = "provisioned" => (directory[x].active <=> status[u] = "active")
      /\ sync[u] = "deprovisioned" => ~directory[x].active
=============================================================================
