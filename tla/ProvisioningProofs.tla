------------------------- MODULE ProvisioningProofs -------------------------
(***************************************************************************)
(* Theorems about Provisioning, for any number of users, resources and     *)
(* requests.  Requests for different users never touch the same resource,  *)
(* and what a request knows of its own user is spoiled only by a second    *)
(* one for that user or by a change of the status: raced and sync say when *)
(* that happened.                                                          *)
(***************************************************************************)
EXTENDS Provisioning, TLAPS

Busy(r, u) == pc[r] # "idle" /\ user[r] = u

\* A user that was never raced, or is being pushed, has one request in flight.
Alone ==
  \A u \in User : u \notin raced \/ sync[u] = "pushing" =>
    \A q, r \in Request : Busy(q, u) /\ Busy(r, u) => q = r

\* A call that was given up is for a resource of its user, which stays its user's.
\* If it is a POST and the user was never raced, it is the only one, no request is
\* in flight, and there is no resource yet.
LateCalls ==
  \A c \in late :
    /\ c.found # None => c.found \in Of(c.user)
    /\ c.found = None /\ c.user \notin raced =>
         /\ Of(c.user) = {}
         /\ \A r \in Request : ~Busy(r, c.user)
         /\ \A d \in late : d.user = c.user => d = c

\* A user that is settled has none.
Quiet ==
  \A u \in User : sync[u] \in {"provisioned", "deprovisioned"} => \A r \in Request : ~Busy(r, u)

\* What a request knows at each of its calls.
Knows(r) ==
  /\ pc[r] # "idle" => user[r] \in User /\ op[r] \in {"ProvisionUser", "DeprovisionUser"}
  /\ pc[r] \in {"Update", "Create"} => op[r] = "ProvisionUser"
  /\ pc[r] = "Patch" => op[r] = "DeprovisionUser"
  /\ pc[r] \in {"Update", "Patch"} => found[r] \in Of(user[r])
  /\ pc[r] \in {"idle", "GetUser", "Find", "Create"} => found[r] = None
  /\ pc[r] = "Create" /\ user[r] \notin raced => Of(user[r]) = {}
  /\ pc[r] \in {"Find", "Update", "Create"} /\ op[r] = "ProvisionUser"
       /\ sync[user[r]] = "pushing" => active[r] = (status[user[r]] = "active")
  /\ pc[r] \in {"Find", "Patch"} /\ op[r] = "DeprovisionUser" => ~active[r]

\* The inductive invariant.
IInv ==
  /\ TypeOK
  /\ Alone
  /\ Quiet
  /\ DuplicatesAreRaced
  /\ SettledAgrees
  /\ LateCalls
  /\ \A r \in Request : Knows(r)

USE DEF local

-----------------------------------------------------------------------------
\* None is nobody's id.
LEMMA NoneIsNone == None \notin User /\ None \notin Resource
BY ProvisioningAssumption

\* The initial state satisfies the inductive invariant.
LEMMA InitIInv == Init => IInv
<1> SUFFICES ASSUME Init PROVE IInv
  OBVIOUS
<1>1. TypeOK
  BY DEF Init, TypeOK, Status
<1>2. DuplicatesAreRaced /\ SettledAgrees
  BY NoneIsNone DEF Init, DuplicatesAreRaced, SettledAgrees
<1> QED BY <1>1, <1>2 DEF Init, IInv, Alone, Quiet, LateCalls, Knows, Busy

\* A request starts: it is alone, or from now on its user is raced.
LEMMA BeginKeeps ==
  ASSUME IInv, NEW r \in Request, NEW handler \in {"ProvisionUser", "DeprovisionUser"},
         NEW u \in User, Begin(r, handler, u)
  PROVE  IInv'
<1> USE DEF IInv
<1>1. TypeOK'
  BY DEF Begin, TypeOK
<1>2. /\ UNCHANGED <<status, directory, active, found, late, faults>>
      /\ pc[r] = "idle" /\ pc'[r] = "GetUser" /\ user'[r] = u /\ op'[r] = handler
      /\ \A q \in Request \ {r} : pc'[q] = pc[q] /\ user'[q] = user[q] /\ op'[q] = op[q]
      /\ \A v \in User \ {u} : sync'[v] = sync[v]
      /\ raced' \in {raced, raced \cup {u}}
      /\ sync'[u] = "stale" \/ (sync'[u] = "pushing" /\ \A q \in Request : ~Busy(q, u))
      /\ u \notin raced' => LatePosts(u) = {} /\ \A q \in Request : ~Busy(q, u)
  BY DEF Begin, TypeOK, InFlight, Busy
<1>3. Alone'
  BY <1>2 DEF Alone, Busy
<1>4. Quiet'
  BY <1>2 DEF Quiet, Busy
<1>5. DuplicatesAreRaced'
  BY <1>2 DEF DuplicatesAreRaced
<1>6. SettledAgrees'
  BY <1>2 DEF SettledAgrees, Of, TypeOK
<1>8. LateCalls'
  <2> SUFFICES ASSUME NEW c \in late
               PROVE  /\ c.found # None => c.found \in Of(c.user)'
                      /\ c.found = None /\ c.user \notin raced' =>
                           /\ Of(c.user)' = {}
                           /\ \A q \in Request : ~Busy(q, c.user)'
                           /\ \A d \in late : d.user = c.user => d = c
    BY <1>2 DEF LateCalls
  <2>1. Of(c.user)' = Of(c.user)
    BY <1>2 DEF Of
  <2>2. c.found = None /\ c.user \notin raced' => c.user # u /\ c.user \notin raced
    BY <1>2 DEF LatePosts
  <2>3. ASSUME c.user # u, NEW q \in Request, ~Busy(q, c.user) PROVE ~Busy(q, c.user)'
    BY <1>2, <2>3 DEF Busy
  <2> QED BY <2>1, <2>2, <2>3 DEF LateCalls
<1>7. ASSUME NEW q \in Request PROVE Knows(q)'
  <2>1. CASE q = r
    BY <1>2, <2>1 DEF Knows
  <2>2. CASE q # r
    <3>1. pc[q] # "idle" /\ user[q] = u => sync'[u] = "stale"
      BY <1>2, <2>2 DEF Busy
    <3>2. Of(user[q])' = Of(user[q])
      BY <1>2, <2>2 DEF Of
    <3> QED BY <1>2, <2>2, <3>1, <3>2 DEF Knows
  <2> QED BY <2>1, <2>2
<1> QED BY <1>1, <1>3, <1>4, <1>5, <1>6, <1>7, <1>8

\* A request goes on to its next call, having written nothing.
LEMMA GotoKeeps ==
  ASSUME IInv, NEW r \in Request, NEW next \in {"Find", "Update", "Create", "Patch"},
         pc[r] # "idle", Goto(r, next), UNCHANGED <<status, directory, late>>,
         raced' \in SUBSET User, raced \subseteq raced', faults' \in Nat,
         active' \in [Request -> BOOLEAN], found' \in [Request -> Resource \cup {None}],
         \A q \in Request \ {r} : active'[q] = active[q] /\ found'[q] = found[q],
         Knows(r)'
  PROVE  IInv'
<1> USE DEF IInv
<1>1. TypeOK'
  BY DEF Goto, TypeOK
<1>2. /\ pc'[r] = next /\ \A q \in Request \ {r} : pc'[q] = pc[q]
      /\ UNCHANGED <<user, op, sync>>
  BY DEF Goto, TypeOK
<1>3. Alone' /\ Quiet'
  BY <1>2 DEF Alone, Quiet, Busy
<1>4. DuplicatesAreRaced'
  BY DEF DuplicatesAreRaced, TypeOK
<1>5. SettledAgrees'
  BY <1>2 DEF SettledAgrees, Of
<1>6. ASSUME NEW q \in Request PROVE Knows(q)'
  <2>1. CASE q = r
    BY <2>1
  <2>2. CASE q # r
    <3>1. Of(user[q])' = Of(user[q])
      BY <1>2 DEF Of
    <3> QED BY <1>2, <2>2, <3>1 DEF Knows
  <2> QED BY <2>1, <2>2
<1>7. LateCalls'
  <2>1. \A v : Of(v)' = Of(v)
    BY DEF Of
  <2>2. \A q \in Request, v \in User : Busy(q, v)' => Busy(q, v)
    BY <1>2 DEF Busy
  <2>3. \A c \in late : c.user \in User
    BY DEF TypeOK, Calls
  <2> QED BY <2>1, <2>2, <2>3 DEF LateCalls
<1> QED BY <1>1, <1>3, <1>4, <1>5, <1>6, <1>7

\* What the last call of a request for u may do to the directory.
Touches(u) ==
  /\ directory' \in [Resource -> [user : User \cup {None}, active : BOOLEAN]]
  /\ \A x \in Resource :
       /\ directory[x].user # None => directory'[x].user = directory[x].user
       /\ directory'[x] # directory[x] => directory'[x].user = u

\* What an answer of 200 stands for, if nothing got in between.
Earns(r) ==
  \A x \in Resource : {y \in Resource : directory'[y].user = user[r]} = {x} =>
    /\ op[r] = "ProvisionUser" => (directory'[x].active <=> status[user[r]] = "active")
    /\ op[r] = "DeprovisionUser" => ~directory'[x].active

\* A request is answered.
LEMMA ReplyKeeps ==
  ASSUME IInv, NEW r \in Request, NEW code \in {200, 404, 500, 502},
         pc[r] # "idle", Reply(r, code), UNCHANGED <<status, raced>>,
         faults' \in Nat, late' \subseteq Calls,
         Touches(user[r]), DuplicatesAreRaced', LateCalls',
         code = 200 /\ sync[user[r]] = "pushing" => Earns(r)
  PROVE  IInv'
<1> USE DEF IInv
<1>1. PICK u \in User : u = user[r]
  BY DEF Knows
<1>2. /\ pc'[r] = "idle" /\ found'[r] = None
      /\ \A q \in Request \ {r} : /\ pc'[q] = pc[q] /\ op'[q] = op[q] /\ user'[q] = user[q]
                                  /\ active'[q] = active[q] /\ found'[q] = found[q]
      /\ \A v \in User \ {u} : sync'[v] = sync[v]
      /\ sync'[u] \in {"stale", "provisioned", "deprovisioned"}
      /\ sync'[u] # "stale" => /\ sync[u] = "pushing" /\ code = 200
                               /\ sync'[u] = "provisioned" <=> op[r] = "ProvisionUser"
  BY <1>1 DEF Reply, TypeOK
<1>3. TypeOK'
  BY <1>1 DEF Reply, Touches, TypeOK
<1>4. Alone'
  BY <1>2 DEF Alone, Busy
<1>5. Quiet'
  <2>1. ASSUME sync[u] = "pushing", NEW q \in Request, q # r PROVE ~Busy(q, u)
    BY <1>1, <2>1 DEF Alone, Busy
  <2> QED BY <1>2, <2>1 DEF Quiet, Busy
<1>6. \A v \in User \ {u} : Of(v)' = Of(v) /\ \A x \in Of(v) : directory'[x] = directory[x]
  <2>1. ASSUME NEW v \in User, v # u, NEW x \in Resource
        PROVE  /\ directory'[x].user = v <=> directory[x].user = v
               /\ directory[x].user = v => directory'[x] = directory[x]
    BY <1>1, <2>1, NoneIsNone DEF Touches
  <2> QED BY <2>1 DEF Of
<1>7. SettledAgrees'
  <2> SUFFICES ASSUME NEW x \in Resource, NEW v \in User, v = directory'[x].user, Of(v)' = {x}
               PROVE  /\ sync'[v] = "provisioned" =>
                           (directory'[x].active <=> status[v] = "active")
                      /\ sync'[v] = "deprovisioned" => ~directory'[x].active
    BY <1>3 DEF SettledAgrees, TypeOK, Of
  <2>1. CASE v = u
    <3>1. {y \in Resource : directory'[y].user = user[r]} = {x}
      BY <1>1, <2>1 DEF Of
    <3>2. sync'[u] # "stale" => Earns(r)
      BY <1>1, <1>2
    <3>3. sync'[u] = "deprovisioned" => op[r] = "DeprovisionUser"
      BY <1>2 DEF Knows
    <3> QED BY <1>1, <1>2, <2>1, <3>1, <3>2, <3>3 DEF Earns
  <2>2. CASE v # u
    <3>1. Of(v) = {x} /\ directory'[x] = directory[x] /\ sync'[v] = sync[v]
      BY <1>2, <1>6, <2>2
    <3>2. directory[x].user = v
      BY <3>1
    <3> QED BY <3>1, <3>2, NoneIsNone DEF SettledAgrees
  <2> QED BY <2>1, <2>2
<1>8. ASSUME NEW q \in Request PROVE Knows(q)'
  <2>1. CASE q = r
    BY <1>2, <2>1 DEF Knows
  <2>2. CASE q # r /\ user[q] # u
    <3>1. pc[q] # "idle" => Of(user[q])' = Of(user[q]) /\ sync'[user[q]] = sync[user[q]]
      BY <1>2, <1>6, <2>2 DEF Knows, Of
    <3> QED BY <1>2, <2>2, <3>1 DEF Knows
  <2>3. CASE q # r /\ user[q] = u
    <3>1. pc[q] # "idle" => u \in raced
      BY <1>1, <2>3 DEF Alone, Busy
    <3>2. \A x \in Of(u) : x \in Of(u)'
      BY NoneIsNone DEF Touches, Of
    <3>3. Of(user[q])' = Of(u)'
      BY <1>2, <2>3 DEF Of
    <3> QED BY <1>2, <2>3, <3>1, <3>2, <3>3 DEF Knows
  <2> QED BY <2>1, <2>2, <2>3
<1> QED BY <1>3, <1>4, <1>5, <1>7, <1>8

\* While a request is answered, the calls that were given up stay what they are: if
\* they could add a first resource, the request is another user's.
LEMMA LateStay ==
  ASSUME IInv, NEW r \in Request, NEW code, pc[r] # "idle", Reply(r, code),
         Touches(user[r]), UNCHANGED <<late, raced>>
  PROVE  LateCalls'
<1> USE DEF IInv
<1>1. user[r] \in User
  BY DEF Knows
<1>2. ASSUME NEW c \in late
      PROVE  /\ c.found # None => c.found \in Of(c.user)'
             /\ c.found = None /\ c.user \notin raced =>
                  /\ Of(c.user)' = {}
                  /\ \A q \in Request : ~Busy(q, c.user)'
                  /\ \A d \in late : d.user = c.user => d = c
  <2>1. c.user \in User
    BY DEF TypeOK, Calls
  <2>2. ASSUME c.found # None PROVE c.found \in Of(c.user)'
    BY <2>1, <2>2, NoneIsNone DEF LateCalls, Touches, Of
  <2>3. ASSUME c.found = None, c.user \notin raced
        PROVE  /\ Of(c.user)' = {}
               /\ \A q \in Request : ~Busy(q, c.user)'
               /\ \A d \in late : d.user = c.user => d = c
    <3>1. /\ Of(c.user) = {}
          /\ \A q \in Request : ~Busy(q, c.user)
          /\ \A d \in late : d.user = c.user => d = c
      BY <2>3 DEF LateCalls
    <3>2. c.user # user[r]
      BY <3>1 DEF Busy
    <3>3. Of(c.user)' = {}
      BY <2>1, <3>1, <3>2 DEF Touches, Of
    <3>4. \A q \in Request : ~Busy(q, c.user)'
      BY <3>1, <2>1, NoneIsNone DEF Reply, TypeOK, Busy
    <3> QED BY <3>1, <3>3, <3>4
  <2> QED BY <2>2, <2>3
<1> QED BY <1>2 DEF LateCalls

\* What leaves the directory alone creates no duplicate.
LEMMA NoNews ==
  ASSUME IInv, UNCHANGED <<directory, raced>>
  PROVE  DuplicatesAreRaced' /\ \A u : Touches(u)
BY DEF IInv, TypeOK, DuplicatesAreRaced, Touches

\* An answer to a request that has changed nothing.
LEMMA ReplyNoNews ==
  ASSUME IInv, NEW r \in Request, NEW code \in {404, 500, 502},
         pc[r] # "idle", Reply(r, code), UNCHANGED <<status, directory, raced, late>>,
         faults' \in Nat
  PROVE  IInv'
<1>1. late' \subseteq Calls
  BY DEF IInv, TypeOK
<1> QED BY <1>1, NoNews, LateStay, ReplyKeeps

\* The user is read; from here on a request that is alone carries its status.
LEMMA GetUserKeeps == ASSUME IInv, NEW r \in Request, GetUser(r) PROVE IInv'
<1> USE DEF IInv
<1>1. pc[r] = "GetUser" /\ UNCHANGED <<status, directory, raced, late, faults>>
      /\ faults \in Nat
  BY DEF GetUser, TypeOK
<1>2. CASE Reply(r, 404)
  BY <1>1, <1>2, ReplyNoNews
<1>3. CASE /\ active' = [active EXCEPT ![r] = (op[r] = "ProvisionUser" /\ status[user[r]] = "active")]
           /\ Goto(r, "Find") /\ UNCHANGED found
  <2>1. active' \in [Request -> BOOLEAN] /\ \A q \in Request \ {r} : active'[q] = active[q]
    BY <1>3 DEF TypeOK
  <2>2. active'[r] = (op[r] = "ProvisionUser" /\ status[user[r]] = "active")
    <3>1. r \in DOMAIN active
      BY DEF TypeOK
    <3> QED BY <1>3, <3>1, Zenon
  <2>3. Knows(r)'
    BY <1>1, <1>3, <2>2 DEF Goto, TypeOK, Knows
  <2> QED BY <1>1, <1>3, <2>1, <2>3, GotoKeeps DEF TypeOK
<1> QED BY <1>2, <1>3 DEF GetUser

\* A look-up without a result, which is a failed one or says that there is none.
LEMMA NothingFoundKeeps ==
  ASSUME IInv, NEW r \in Request, pc[r] = "Find", NothingFound(r),
         UNCHANGED <<status, directory, late>>, faults' \in Nat,
         raced' = raced \/ (op[r] = "ProvisionUser" /\ raced' = raced \cup {user[r]}),
         user[r] \notin raced' /\ op[r] = "ProvisionUser" => Of(user[r]) = {}
  PROVE  IInv'
<1> USE DEF IInv
<1>1. CASE op[r] = "ProvisionUser" /\ Goto(r, "Create") /\ UNCHANGED <<active, found>>
  <2>1. /\ user' = user /\ op' = op /\ sync' = sync /\ pc'[r] = "Create"
        /\ Of(user[r])' = Of(user[r])
    BY <1>1 DEF Goto, TypeOK, Of
  <2>2. Knows(r)'
    BY <1>1, <2>1 DEF Knows
  <2>3. raced' \in SUBSET User /\ raced \subseteq raced'
    BY DEF Knows, TypeOK
  <2> QED BY <1>1, <2>2, <2>3, GotoKeeps DEF TypeOK
<1>2. CASE op[r] = "DeprovisionUser" /\ Reply(r, 502)
  BY <1>2, ReplyNoNews
<1> QED BY <1>1, <1>2 DEF NothingFound

\* The look-up.
LEMMA FindKeeps == ASSUME IInv, NEW r \in Request, Find(r) PROVE IInv'
<1> USE DEF IInv
<1>1. /\ pc[r] = "Find" /\ UNCHANGED <<status, directory, raced, late, faults>>
      /\ faults \in Nat /\ raced' \in SUBSET User
  BY DEF Find, TypeOK
<1>2. CASE Of(user[r]) = {} /\ NothingFound(r)
  <2>1. raced' = raced \/ (op[r] = "ProvisionUser" /\ raced' = raced \cup {user[r]})
    BY <1>1
  <2>2. user[r] \notin raced' /\ op[r] = "ProvisionUser" => Of(user[r]) = {}
    BY <1>2
  <2>3. UNCHANGED <<status, directory, late>> /\ faults' \in Nat
    BY <1>1
  <2> QED BY ONLY IInv, <1>1, <1>2, <2>1, <2>2, <2>3, NothingFoundKeeps
<1>3. CASE /\ \E x \in Of(user[r]) : found' = [found EXCEPT ![r] = x]
           /\ Goto(r, IF op[r] = "ProvisionUser" THEN "Update" ELSE "Patch")
           /\ UNCHANGED active
  <2>1. PICK x \in Of(user[r]) : found' = [found EXCEPT ![r] = x]
    BY <1>3
  <2>2. PICK next \in {"Update", "Patch"} :
          /\ Goto(r, next) /\ next = IF op[r] = "ProvisionUser" THEN "Update" ELSE "Patch"
    BY <1>3
  <2>3. /\ found' \in [Request -> Resource \cup {None}]
        /\ \A q \in Request \ {r} : found'[q] = found[q]
    BY <2>1 DEF TypeOK, Of
  <2>4. /\ user' = user /\ op' = op /\ sync' = sync /\ pc'[r] = next /\ found'[r] = x
        /\ Of(user[r])' = Of(user[r])
    BY <1>1, <2>1, <2>2 DEF Goto, TypeOK, Of
  <2>5. Knows(r)'
    BY <1>1, <1>3, <2>2, <2>4 DEF Knows
  <2> QED BY <1>1, <1>3, <2>2, <2>3, <2>5, GotoKeeps DEF TypeOK
<1> QED BY <1>2, <1>3 DEF Find

\* A PUT or PATCH changes the flag of a resource of the call's user.
LEMMA PutTouches ==
  ASSUME IInv, NEW c \in Calls, c.found \in Of(c.user), Put(c), raced' = raced
  PROVE  /\ Touches(c.user) /\ DuplicatesAreRaced'
         /\ \A x \in Resource :
              {y \in Resource : directory'[y].user = c.user} = {x} => directory'[x].active = c.active
<1> USE DEF IInv
<1>1. c.found \in Resource /\ directory[c.found].user = c.user /\ c.active \in BOOLEAN
  BY DEF Of, Calls
<1>2. ASSUME NEW x \in Resource
      PROVE  /\ directory'[x] \in [user : User \cup {None}, active : BOOLEAN]
             /\ directory'[x].user = directory[x].user
             /\ x # c.found => directory'[x] = directory[x]
  <2>1. directory[x] \in [user : User \cup {None}, active : BOOLEAN]
    BY DEF TypeOK
  <2> QED BY <1>1, <2>1 DEF Put, TypeOK
<1>3. directory'[c.found].active = c.active
  BY <1>1 DEF Put, TypeOK
<1>4. Touches(c.user)
  <2>1. directory' \in [Resource -> [user : User \cup {None}, active : BOOLEAN]]
    BY <1>2 DEF Put, TypeOK
  <2> QED BY <1>1, <1>2, <2>1 DEF Touches
<1>5. DuplicatesAreRaced'
  BY <1>2 DEF DuplicatesAreRaced, TypeOK
<1>6. \A x \in Resource : {y \in Resource : directory'[y].user = c.user} = {x} => x = c.found
  BY <1>1, <1>2
<1> QED BY <1>3, <1>4, <1>5, <1>6

\* A POST adds a resource for the user, the only one unless somebody raced.
LEMMA PostTouches ==
  ASSUME IInv, NEW c \in Calls, Post(c), raced' = raced,
         c.user \notin raced => Of(c.user) = {}
  PROVE  /\ Touches(c.user) /\ DuplicatesAreRaced'
         /\ \A x \in Resource :
              {y \in Resource : directory'[y].user = c.user} = {x} => directory'[x].active = c.active
<1> USE DEF IInv
<1>1. PICK x \in Resource :
        /\ directory[x].user = None
        /\ directory' = [directory EXCEPT ![x] = [user |-> c.user, active |-> c.active]]
  BY DEF Post
<1>2. c.user \in User /\ c.active \in BOOLEAN
  BY DEF Calls
<1>3. /\ directory'[x].user = c.user /\ directory'[x].active = c.active
      /\ \A y \in Resource \ {x} : directory'[y] = directory[y]
  BY <1>1 DEF TypeOK
<1>4. Touches(c.user)
  BY <1>1, <1>2, <1>3 DEF Touches, TypeOK
<1>5. DuplicatesAreRaced'
  BY <1>2, <1>3 DEF DuplicatesAreRaced, Of, TypeOK
<1>6. \A y \in Resource : {z \in Resource : directory'[z].user = c.user} = {y} => y = x
  BY <1>3
<1> QED BY <1>3, <1>4, <1>5, <1>6

\* What a request sends is a call for its user.
LEMMA CallTyped ==
  ASSUME IInv, NEW r \in Request, pc[r] # "idle"
  PROVE  /\ Call(r) \in Calls
         /\ Call(r).user = user[r] /\ Call(r).found = found[r] /\ Call(r).active = active[r]
BY DEF IInv, TypeOK, Knows, Call, Calls

\* An answer of 200, after a call with the right flag.
LEMMA DoneKeeps ==
  ASSUME IInv, NEW r \in Request, Writing(r), Reply(r, 200),
         UNCHANGED <<status, raced, late, faults>>, Touches(user[r]), DuplicatesAreRaced',
         \A x \in Resource :
           {y \in Resource : directory'[y].user = user[r]} = {x} => directory'[x].active = active[r]
  PROVE  IInv'
<1> USE DEF IInv
<1>1. pc[r] # "idle" /\ faults' \in Nat /\ late' \subseteq Calls
  BY DEF Writing, TypeOK
<1>2. LateCalls'
  BY <1>1, LateStay
<1>3. ASSUME sync[user[r]] = "pushing" PROVE Earns(r)
  <2>1. op[r] = "ProvisionUser" => active[r] = (status[user[r]] = "active")
    BY <1>3 DEF Knows, Writing
  <2>2. op[r] = "DeprovisionUser" => ~active[r]
    BY DEF Knows, Writing
  <2> QED BY <2>1, <2>2 DEF Earns
<1> QED BY <1>1, <1>2, <1>3, ReplyKeeps

\* PUT.
LEMMA UpdateKeeps == ASSUME IInv, NEW r \in Request, Update(r) PROVE IInv'
<1> USE DEF IInv
<1>1. /\ pc[r] = "Update" /\ Put(Call(r)) /\ Reply(r, 200)
      /\ UNCHANGED <<status, raced, late, faults>> /\ found[r] \in Of(user[r])
  BY DEF Update, Knows
<1>2. /\ Touches(user[r]) /\ DuplicatesAreRaced'
      /\ \A x \in Resource :
           {y \in Resource : directory'[y].user = user[r]} = {x} => directory'[x].active = active[r]
  BY <1>1, CallTyped, PutTouches
<1> QED BY <1>1, <1>2, DoneKeeps DEF Writing

\* POST.
LEMMA CreateKeeps == ASSUME IInv, NEW r \in Request, Create(r) PROVE IInv'
<1> USE DEF IInv
<1>1. /\ pc[r] = "Create" /\ UNCHANGED <<status, raced, late, faults>> /\ faults \in Nat
      /\ user[r] \notin raced => Of(user[r]) = {}
  BY DEF Create, Knows, TypeOK
<1>2. CASE Post(Call(r)) /\ Reply(r, 200)
  <2>1. /\ Touches(user[r]) /\ DuplicatesAreRaced'
        /\ \A x \in Resource :
             {y \in Resource : directory'[y].user = user[r]} = {x}
               => directory'[x].active = active[r]
    BY <1>1, <1>2, CallTyped, PostTouches
  <2> QED BY <1>1, <1>2, <2>1, DoneKeeps DEF Writing
<1>3. CASE Refused(Call(r)) /\ Reply(r, 502)
  BY <1>1, <1>3, ReplyNoNews DEF Refused
<1> QED BY <1>2, <1>3 DEF Create

\* PATCH.
LEMMA PatchKeeps == ASSUME IInv, NEW r \in Request, Patch(r) PROVE IInv'
<1> USE DEF IInv
<1>1. /\ pc[r] = "Patch" /\ Put(Call(r)) /\ Reply(r, 200)
      /\ UNCHANGED <<status, raced, late, faults>> /\ found[r] \in Of(user[r])
  BY DEF Patch, Knows
<1>2. /\ Touches(user[r]) /\ DuplicatesAreRaced'
      /\ \A x \in Resource :
           {y \in Resource : directory'[y].user = user[r]} = {x} => directory'[x].active = active[r]
  BY <1>1, CallTyped, PutTouches
<1> QED BY <1>1, <1>2, DoneKeeps DEF Writing

\* The call of a request that ends is given up: nothing else of its user is under
\* way, unless the user was raced.
LEMMA GivenUp ==
  ASSUME IInv, NEW sent \in SUBSET {r \in Request : Writing(r)},
         late' = late \cup {Call(r) : r \in sent},
         UNCHANGED <<directory, raced>>,
         \A q \in Request, u \in User : Busy(q, u)' => Busy(q, u) /\ q \notin sent
  PROVE  LateCalls' /\ late' \subseteq Calls
<1> USE DEF IInv
<1>1. \A u : Of(u)' = Of(u)
  BY DEF Of
<1>2. ASSUME NEW r \in sent
      PROVE  /\ r \in Request /\ Writing(r) /\ pc[r] # "idle" /\ user[r] \in User
             /\ Busy(r, user[r])
             /\ Call(r) \in Calls /\ Call(r).user = user[r] /\ Call(r).found = found[r]
  BY CallTyped DEF Knows, Writing, Busy
<1>3. late' \subseteq Calls
  BY <1>2 DEF TypeOK
<1>4. ASSUME NEW c \in late', c.found # None PROVE c.found \in Of(c.user)'
  <2>1. CASE c \in late
    BY <1>1, <1>4, <2>1 DEF LateCalls
  <2>2. ASSUME NEW r \in sent, c = Call(r) PROVE c.found \in Of(c.user)'
    BY <1>1, <1>2, <1>4, <2>2 DEF Knows, Writing
  <2> QED BY <2>1, <2>2
<1>5. ASSUME NEW c \in late', c.found = None, c.user \notin raced
      PROVE  /\ Of(c.user)' = {}
             /\ \A q \in Request : ~Busy(q, c.user)'
             /\ \A d \in late' : d.user = c.user => d = c
  <2>0. c.user \in User
    BY <1>3 DEF Calls
  <2>1. CASE c \in late
    <3>1. /\ Of(c.user) = {} /\ \A q \in Request : ~Busy(q, c.user)
          /\ \A d \in late : d.user = c.user => d = c
      BY <1>5, <2>1 DEF LateCalls
    <3>2. \A d \in late' : d.user = c.user => d \in late
      BY <1>2, <3>1
    <3> QED BY <1>1, <2>0, <3>1, <3>2
  <2>2. ASSUME NEW r \in sent, c = Call(r)
        PROVE  /\ Of(c.user)' = {}
               /\ \A q \in Request : ~Busy(q, c.user)'
               /\ \A d \in late' : d.user = c.user => d = c
    <3>1. c.user = user[r] /\ found[r] = None /\ Busy(r, c.user) /\ r \in Request
      BY <1>2, <1>5, <2>2
    <3>2. pc[r] = "Create"
      BY <1>2, <3>1, NoneIsNone DEF Knows, Writing, Of
    <3>3. Of(c.user) = {}
      BY <1>5, <3>1, <3>2 DEF Knows
    <3>4. \A q \in Request : Busy(q, c.user) => q = r
      BY <1>5, <2>0, <3>1 DEF Alone
    <3>5. ASSUME NEW d \in late, d.user = c.user PROVE FALSE
      BY <1>5, <3>1, <3>3, <3>5 DEF LateCalls
    <3>6. ASSUME NEW q \in sent, Call(q).user = c.user PROVE Call(q) = c
      BY <1>2, <2>2, <3>4, <3>6
    <3> QED BY <1>1, <2>0, <3>3, <3>4, <3>5, <3>6
  <2> QED BY <2>1, <2>2
<1> QED BY <1>3, <1>4, <1>5 DEF LateCalls

\* A call fails, and may be executed later.
LEMMA CallFailsKeeps == ASSUME IInv, NEW r \in Request, CallFails(r) PROVE IInv'
<1> USE DEF IInv
<1>1. UNCHANGED <<status, directory>> /\ faults' \in Nat
  BY DEF CallFails, TypeOK
<1>2. CASE pc[r] = "GetUser" /\ Reply(r, 500) /\ UNCHANGED <<raced, late>>
  BY <1>1, <1>2, ReplyNoNews
<1>3. CASE /\ pc[r] = "Find" /\ NothingFound(r) /\ UNCHANGED late
           /\ raced' = IF op[r] = "ProvisionUser" /\ Of(user[r]) # {} THEN raced \cup {user[r]}
                       ELSE raced
  <2>1. raced' = raced \/ (op[r] = "ProvisionUser" /\ raced' = raced \cup {user[r]})
    BY <1>3
  <2>2. user[r] \notin raced' /\ op[r] = "ProvisionUser" => Of(user[r]) = {}
    BY <1>3
  <2>3. UNCHANGED <<status, directory, late>>
    BY <1>1, <1>3
  <2> QED BY ONLY IInv, <1>1, <1>3, <2>1, <2>2, <2>3, NothingFoundKeeps
<1>4. CASE /\ Writing(r) /\ Reply(r, 502) /\ UNCHANGED raced
           /\ late' \in {late, late \cup {Call(r)}}
  <2>1. CASE late' = late
    BY <1>1, <1>4, <2>1, ReplyNoNews DEF Writing
  <2>2. CASE late' = late \cup {Call(r)}
    <3>1. late' = late \cup {Call(q) : q \in {r}} /\ {r} \in SUBSET {q \in Request : Writing(q)}
      BY <1>4, <2>2
    <3>2. \A q \in Request, u \in User : Busy(q, u)' => Busy(q, u) /\ q \notin {r}
      BY <1>4, NoneIsNone DEF Reply, TypeOK, Busy
    <3>3. LateCalls' /\ late' \subseteq Calls
      BY <1>1, <1>4, <3>1, <3>2, GivenUp
    <3>4. pc[r] # "idle"
      BY <1>4 DEF Writing
    <3> QED BY <1>1, <1>4, <3>3, <3>4, NoNews, ReplyKeeps
  <2> QED BY <1>4, <2>1, <2>2
<1> QED BY <1>2, <1>3, <1>4 DEF CallFails

\* The requests in flight are lost: their users are stale.
LEMMA CrashKeeps == ASSUME IInv, Crash PROVE IInv'
<1> USE DEF IInv
<1>1. /\ UNCHANGED <<status, directory, raced>> /\ faults' \in Nat
      /\ \A q \in Request : pc'[q] = "idle" /\ found'[q] = None
      /\ \A u \in User : sync'[u] \in {"stale", sync[u]}
  BY DEF Crash, TypeOK
<1>7. PICK sent \in SUBSET {r \in Request : Writing(r)} :
        late' = late \cup {Call(r) : r \in sent}
  BY DEF Crash
<1>8. LateCalls' /\ late' \subseteq Calls
  BY <1>1, <1>7, GivenUp DEF Busy
<1>2. TypeOK'
  BY <1>8 DEF Crash, TypeOK
<1>3. Alone' /\ Quiet'
  BY <1>1 DEF Alone, Quiet, Busy
<1>4. DuplicatesAreRaced'
  BY <1>1 DEF DuplicatesAreRaced
<1>5. SettledAgrees'
  BY <1>1 DEF SettledAgrees, Of, TypeOK
<1>6. ASSUME NEW q \in Request PROVE Knows(q)'
  BY <1>1 DEF Knows
<1> QED BY <1>2, <1>3, <1>4, <1>5, <1>6, <1>8

\* The directory executes a call that was given up: its user is settled no longer,
\* and a request on its way keeps what it knows.
LEMMA LateCallKeeps == ASSUME IInv, NEW c \in late, LateCall(c) PROVE IInv'
<1> USE DEF IInv
<1>1. /\ c \in Calls /\ c.user \in User
      /\ UNCHANGED <<status, raced, faults, pc, op, user, active, found>>
      /\ late' = late \ {c}
  BY DEF LateCall, TypeOK, Calls
<1>2. /\ \A v \in User \ {c.user} : sync'[v] = sync[v]
      /\ sync'[c.user] = IF sync[c.user] = "pushing" THEN "pushing" ELSE "stale"
  BY <1>1 DEF LateCall, TypeOK
<1>3. Touches(c.user) /\ DuplicatesAreRaced'
  <2>1. CASE c.found # None /\ Put(c)
    BY <1>1, <2>1, PutTouches DEF LateCalls
  <2>2. CASE c.found = None /\ Post(c)
    BY <1>1, <2>2, PostTouches DEF LateCalls
  <2>3. CASE Refused(c)
    BY <1>1, <2>3, NoNews DEF Refused
  <2> QED BY <2>1, <2>2, <2>3 DEF LateCall
<1>4. TypeOK'
  BY <1>1, <1>3 DEF LateCall, Touches, TypeOK
<1>5. Alone' /\ Quiet'
  BY <1>1, <1>2 DEF Alone, Quiet, Busy
<1>6. \A v \in User \ {c.user} : Of(v)' = Of(v) /\ \A x \in Of(v) : directory'[x] = directory[x]
  <2>1. ASSUME NEW v \in User, v # c.user, NEW x \in Resource
        PROVE  /\ directory'[x].user = v <=> directory[x].user = v
               /\ directory[x].user = v => directory'[x] = directory[x]
    BY <1>1, <1>3, <2>1, NoneIsNone DEF Touches
  <2> QED BY <2>1 DEF Of
<1>7. Of(c.user) \subseteq Of(c.user)'
  BY <1>1, <1>3, NoneIsNone DEF Touches, Of
<1>8. SettledAgrees'
  <2> SUFFICES ASSUME NEW x \in Resource, NEW v \in User, v = directory'[x].user, Of(v)' = {x}
               PROVE  /\ sync'[v] = "provisioned" =>
                           (directory'[x].active <=> status[v] = "active")
                      /\ sync'[v] = "deprovisioned" => ~directory'[x].active
    BY <1>1, <1>4 DEF SettledAgrees, TypeOK, Of
  <2>1. CASE v = c.user
    BY <1>2, <2>1
  <2>2. CASE v # c.user
    <3>1. Of(v) = {x} /\ directory'[x] = directory[x] /\ sync'[v] = sync[v]
      BY <1>2, <1>6, <2>2
    <3>2. directory[x].user = v
      BY <3>1
    <3> QED BY <3>1, <3>2, NoneIsNone DEF SettledAgrees
  <2> QED BY <2>1, <2>2
<1>9. ASSUME c.found = None, c.user \notin raced
      PROVE  (\A r \in Request : ~Busy(r, c.user)) /\ (\A d \in late' : d.user # c.user)
  BY <1>1, <1>9 DEF LateCalls
<1>10. c.found # None => Of(c.user)' = Of(c.user)
  <2> SUFFICES ASSUME c.found # None, Put(c) PROVE Of(c.user)' = Of(c.user)
    BY DEF LateCall, Refused, Of
  <2>1. c.found \in Resource /\ directory[c.found].user = c.user
    BY DEF LateCalls, Of
  <2>2. ASSUME NEW x \in Resource PROVE directory'[x].user = directory[x].user
    <3>1. directory[x] \in [user : User \cup {None}, active : BOOLEAN]
      BY DEF TypeOK
    <3> QED BY <2>1, <3>1 DEF Put, TypeOK
  <2> QED BY <2>2 DEF Of
<1>11. LateCalls'
  <2> SUFFICES ASSUME NEW d \in late'
               PROVE  /\ d.found # None => d.found \in Of(d.user)'
                      /\ d.found = None /\ d.user \notin raced =>
                           /\ Of(d.user)' = {}
                           /\ \A q \in Request : ~Busy(q, d.user)'
                           /\ \A e \in late' : e.user = d.user => e = d
    BY <1>1 DEF LateCalls
  <2>1. d \in late /\ d \in Calls /\ d.user \in User
    BY <1>1 DEF TypeOK, Calls
  <2>2. ASSUME d.found # None PROVE d.found \in Of(d.user)'
    BY <1>6, <1>7, <2>1, <2>2 DEF LateCalls
  <2>3. ASSUME d.found = None, d.user \notin raced
        PROVE  /\ Of(d.user)' = {}
               /\ \A q \in Request : ~Busy(q, d.user)'
               /\ \A e \in late' : e.user = d.user => e = d
    <3>1. /\ Of(d.user) = {} /\ \A q \in Request : ~Busy(q, d.user)
          /\ \A e \in late : e.user = d.user => e = d
      BY <2>1, <2>3 DEF LateCalls
    <3>2. d.user # c.user
      BY <1>1, <3>1
    <3> QED BY <1>1, <1>6, <2>1, <3>1, <3>2 DEF Busy
  <2> QED BY <2>2, <2>3
<1>12. ASSUME NEW q \in Request PROVE Knows(q)'
  <2>1. CASE pc[q] = "idle"
    BY <1>1, <2>1 DEF Knows
  <2>2. CASE pc[q] # "idle" /\ user[q] # c.user
    <3>1. Of(user[q])' = Of(user[q]) /\ sync'[user[q]] = sync[user[q]]
      BY <1>1, <1>2, <1>6, <2>2 DEF Knows, Of
    <3> QED BY <1>1, <2>2, <3>1 DEF Knows
  <2>3. CASE pc[q] # "idle" /\ user[q] = c.user
    <3>1. sync'[user[q]] = "pushing" => sync[user[q]] = "pushing"
      BY <1>2, <2>3
    <3>2. Of(user[q])' = Of(c.user)' /\ Of(user[q]) = Of(c.user)
      BY <1>1, <2>3 DEF Of
    <3>3. c.found = None => user[q] \in raced
      BY <1>9, <2>3 DEF Busy
    <3> QED BY <1>1, <1>7, <1>10, <2>3, <3>1, <3>2, <3>3 DEF Knows
  <2> QED BY <2>1, <2>2, <2>3
<1> QED BY <1>3, <1>4, <1>5, <1>8, <1>11, <1>12

\* The status changes: what was read of it is stale.
LEMMA SetStatusKeeps ==
  ASSUME IInv, NEW u \in User, NEW st \in Status, SetStatus(u, st) PROVE IInv'
<1> USE DEF IInv
<1>1. /\ UNCHANGED <<directory, raced, late, faults, pc, op, user, active, found>>
      /\ sync'[u] = "stale"
      /\ \A v \in User \ {u} : sync'[v] = sync[v] /\ status'[v] = status[v]
  BY DEF SetStatus, TypeOK
<1>2. TypeOK'
  BY DEF SetStatus, TypeOK
<1>3. Alone' /\ Quiet'
  BY <1>1 DEF Alone, Quiet, Busy
<1>4. DuplicatesAreRaced'
  BY <1>1 DEF DuplicatesAreRaced
<1>5. SettledAgrees'
  BY <1>1 DEF SettledAgrees, Of, TypeOK
<1>6. ASSUME NEW q \in Request PROVE Knows(q)'
  <2>1. Of(user[q])' = Of(user[q])
    BY <1>1 DEF Of
  <2> QED BY <1>1, <2>1 DEF Knows
<1>7. LateCalls'
  BY <1>1 DEF LateCalls, Of, Busy
<1> QED BY <1>2, <1>3, <1>4, <1>5, <1>6, <1>7

\* Every step keeps the inductive invariant.
LEMMA NextIInv == IInv /\ [Next]_vars => IInv'
<1> SUFFICES ASSUME IInv, [Next]_vars PROVE IInv'
  OBVIOUS
<1>1. CASE UNCHANGED vars
  <2>1. ASSUME NEW q \in Request PROVE Knows(q)'
    BY <1>1 DEF vars, IInv, Knows, Of
  <2> QED BY <1>1, <2>1 DEF vars, IInv, TypeOK, Alone, Quiet, Busy, DuplicatesAreRaced,
                           SettledAgrees, LateCalls, Of
<1>2. ASSUME NEW r \in Request, NEW u \in User, ProvisionUser(r, u) \/ DeprovisionUser(r, u)
      PROVE  IInv'
  BY <1>2, BeginKeeps DEF ProvisionUser, DeprovisionUser
<1>3. ASSUME NEW r \in Request,
             GetUser(r) \/ Find(r) \/ Update(r) \/ Create(r) \/ Patch(r) \/ CallFails(r)
      PROVE  IInv'
  BY <1>3, GetUserKeeps, FindKeeps, UpdateKeeps, CreateKeeps, PatchKeeps, CallFailsKeeps
<1>4. CASE Crash
  BY <1>4, CrashKeeps
<1>5. ASSUME NEW u \in User, NEW st \in Status, SetStatus(u, st) PROVE IInv'
  BY <1>5, SetStatusKeeps
<1>6. ASSUME NEW c \in late, LateCall(c) PROVE IInv'
  BY <1>6, LateCallKeeps
<1> QED BY <1>1, <1>2, <1>3, <1>4, <1>5, <1>6 DEF Next

\* So it holds in every reachable state.
LEMMA Invariance == Spec => []IInv
BY InitIInv, NextIInv, PTL DEF Spec

-----------------------------------------------------------------------------
(* The theorems.                                                           *)

\* Every variable has its type: no handler addresses a resource of the
\* directory by anything but an id the directory gave out (scim/client.go:65-76).
THEOREM TypeCorrect == Spec => []TypeOK
<1>1. IInv => TypeOK
  BY DEF IInv
<1> QED BY <1>1, Invariance, PTL

\* For any number of requests, a user gets a second resource only if requests
\* overlap, if one begins while the directory still has a POST that was given up,
\* or if a look-up fails that had a resource to find; a POST whose answer is lost
\* does not make one (scim/client.go:65-76).
THEOREM NoDuplicates == Spec => []DuplicatesAreRaced
<1>1. IInv => DuplicatesAreRaced
  BY DEF IInv
<1> QED BY <1>1, Invariance, PTL

\* After a request that was alone and answered 200 the directory agrees with
\* the user's status until that changes or the directory executes a call that was
\* given up, however many of those there are (provisioning/service.go:34-36, 60-61).
THEOREM Settles == Spec => []SettledAgrees
<1>1. IInv => SettledAgrees
  BY DEF IInv
<1> QED BY <1>1, Invariance, PTL

-----------------------------------------------------------------------------
(* Deleting before deprovisioning.                                         *)

\* No resource of u is added or changed, and no other one becomes u's.
Kept(u) ==
  \A x \in Resource : directory[x].user = u \/ directory'[x].user = u
                        => directory'[x] = directory[x]

\* A call for another user keeps the resources of u.
LEMMA OthersKeep ==
  ASSUME TypeOK, NEW u \in User, NEW c \in Calls, c.user # u,
         Post(c) \/ (Put(c) /\ c.found \in Of(c.user))
  PROVE  Kept(u)
<1>1. u # None
  BY NoneIsNone
<1>2. CASE Put(c) /\ c.found \in Of(c.user)
  <2>1. c.found \in Resource /\ directory[c.found].user # u
    BY <1>2 DEF Of
  <2>2. directory[c.found] \in [user : User \cup {None}, active : BOOLEAN]
    BY <2>1 DEF TypeOK
  <2>3. /\ directory'[c.found].user = directory[c.found].user
        /\ \A x \in Resource \ {c.found} : directory'[x] = directory[x]
    BY <1>2, <2>1, <2>2 DEF Put, TypeOK
  <2> QED BY <2>1, <2>3 DEF Kept
<1>3. CASE Post(c)
  <2>1. PICK x \in Resource :
          /\ directory[x].user = None
          /\ directory' = [directory EXCEPT ![x] = [user |-> c.user, active |-> c.active]]
    BY <1>3 DEF Post
  <2>2. directory'[x].user = c.user /\ \A y \in Resource \ {x} : directory'[y] = directory[y]
    BY <2>1 DEF TypeOK
  <2> QED BY <1>1, <2>1, <2>2 DEF Kept
<1> QED BY <1>2, <1>3

\* A deleted user whom no request has read before the deletion, and for whom the
\* directory has no call left to execute.
Asks(u)   == \A r \in Request : pc[r] # "idle" /\ user[r] = u => pc[r] = "GetUser"
Spent(u)  == \A c \in late : c.user # u
Unread(u) == status[u] = "deleted" /\ Asks(u) /\ Spent(u)

LEMMA ReplyAsks ==
  ASSUME TypeOK, NEW u, Asks(u), NEW r \in Request, NEW code, Reply(r, code)
  PROVE  Asks(u)'
<1>1. pc' = [pc EXCEPT ![r] = "idle"] /\ user' = [user EXCEPT ![r] = None]
  BY DEF Reply
<1> QED BY <1>1 DEF Asks, TypeOK

\* The resources of a deleted user are out of the hub's reach, active as they may
\* be: requests that look the user up after the deletion are answered with 404, and
\* nothing but a change of the status changes that (provisioning/service.go:63,
\* identity_repo.go:59-66).
THEOREM DeletedIsOutOfReach ==
  Spec => [][\A u \in User :
               Unread(u) => Kept(u) /\ (status'[u] = "deleted" => Unread(u)')]_vars
<1>1. ASSUME IInv, Next, NEW u \in User, Unread(u)
      PROVE  Kept(u) /\ (status'[u] = "deleted" => Unread(u)')
  <2> USE DEF IInv
  <2>0. IInv /\ TypeOK
    BY <1>1
  <2>1. Asks(u)' /\ Spent(u)' /\ status'[u] = "deleted" => Unread(u)'
    BY DEF Unread
  <2>2. ASSUME directory' = directory PROVE Kept(u)
    BY <2>2 DEF Kept
  <2>3. Asks(u) /\ Spent(u)
    BY <1>1 DEF Unread
  <2>4. ASSUME NEW r \in Request, NEW code, Reply(r, code) PROVE Asks(u)'
    BY <2>0, <2>3, <2>4, ReplyAsks
  <2>5. ASSUME NEW r \in Request, NEW next, Goto(r, next), user[r] # u PROVE Asks(u)'
    BY <2>0, <2>3, <2>5 DEF Goto, TypeOK, Asks
  <2>6. ASSUME NEW r \in Request, pc[r] \notin {"idle", "GetUser"} PROVE user[r] # u
    BY <2>3, <2>6 DEF Asks
  <2>15. ASSUME late' = late PROVE Spent(u)'
    BY <2>3, <2>15 DEF Spent
  <2>7. ASSUME NEW r \in Request, NEW v \in User, ProvisionUser(r, v) \/ DeprovisionUser(r, v)
        PROVE  Kept(u) /\ Asks(u)' /\ Spent(u)'
    <3>1. /\ pc' = [pc EXCEPT ![r] = "GetUser"] /\ user' = [user EXCEPT ![r] = v]
          /\ directory' = directory /\ late' = late
      BY <2>7 DEF ProvisionUser, DeprovisionUser, Begin
    <3> QED BY <2>0, <2>2, <2>3, <2>15, <3>1 DEF Asks, TypeOK
  <2>8. ASSUME NEW r \in Request, GetUser(r) PROVE Kept(u) /\ Asks(u)' /\ Spent(u)'
    <3>1. user[r] = u => Reply(r, 404)
      BY <1>1, <2>8 DEF GetUser, Unread
    <3> QED BY <2>2, <2>4, <2>5, <2>8, <2>15, <3>1 DEF GetUser
  <2>9. ASSUME NEW r \in Request, pc[r] = "Find", NothingFound(r) PROVE Asks(u)'
    BY <2>4, <2>5, <2>6, <2>9 DEF NothingFound
  <2>10. ASSUME NEW r \in Request, Find(r) PROVE Kept(u) /\ Asks(u)' /\ Spent(u)'
    BY <2>2, <2>5, <2>6, <2>9, <2>10, <2>15 DEF Find
  <2>16. ASSUME NEW r \in Request, Writing(r) PROVE Call(r) \in Calls /\ Call(r).user # u
    BY <2>0, <2>6, <2>16, CallTyped DEF Writing
  <2>11. ASSUME NEW r \in Request, Update(r) \/ Create(r) \/ Patch(r)
         PROVE  Kept(u) /\ Asks(u)' /\ Spent(u)'
    <3>1. Writing(r) /\ late' = late
      BY <2>11 DEF Update, Create, Patch, Writing
    <3>2. \/ Put(Call(r)) /\ Call(r).found \in Of(Call(r).user)
          \/ Post(Call(r))
          \/ directory' = directory
      BY <2>0, <2>11, <3>1, CallTyped DEF Update, Create, Patch, Refused, Knows, Writing
    <3>3. Kept(u)
      BY <2>0, <2>2, <2>16, <3>1, <3>2, OthersKeep
    <3> QED BY <2>4, <2>11, <2>15, <3>1, <3>3 DEF Update, Create, Patch
  <2>12. ASSUME NEW r \in Request, CallFails(r) PROVE Kept(u) /\ Asks(u)' /\ Spent(u)'
    <3>1. Asks(u)'
      BY <2>4, <2>9, <2>12 DEF CallFails
    <3>2. directory' = directory /\ (late' = late \/ (Writing(r) /\ late' = late \cup {Call(r)}))
      BY <2>12 DEF CallFails
    <3>3. Spent(u)'
      BY <2>3, <2>16, <3>2 DEF Spent
    <3> QED BY <2>2, <3>1, <3>2, <3>3
  <2>13. ASSUME Crash PROVE Kept(u) /\ Asks(u)' /\ Spent(u)'
    <3>1. pc' = [r \in Request |-> "idle"] /\ directory' = directory
      BY <2>13 DEF Crash
    <3>2. PICK sent \in SUBSET {r \in Request : Writing(r)} :
            late' = late \cup {Call(r) : r \in sent}
      BY <2>13 DEF Crash
    <3>3. Spent(u)'
      BY <2>3, <2>16, <3>2 DEF Spent
    <3> QED BY <2>2, <3>1, <3>3 DEF Asks
  <2>17. ASSUME NEW c \in late, LateCall(c) PROVE Kept(u) /\ Asks(u)' /\ Spent(u)'
    <3>1. c \in Calls /\ c.user # u /\ (c.found # None => c.found \in Of(c.user))
      BY <2>0, <2>3 DEF Spent, TypeOK, LateCalls
    <3>2. /\ \/ Put(c) /\ c.found \in Of(c.user)
             \/ Post(c)
             \/ directory' = directory
          /\ UNCHANGED <<pc, user>> /\ late' = late \ {c}
      BY <2>17, <3>1 DEF LateCall, Refused
    <3>3. Kept(u)
      BY <2>0, <2>2, <3>1, <3>2, OthersKeep
    <3> QED BY <2>3, <3>2, <3>3 DEF Asks, Spent
  <2>14. ASSUME NEW v \in User, NEW st \in Status, SetStatus(v, st)
         PROVE  Kept(u) /\ Asks(u)' /\ Spent(u)'
    BY <2>2, <2>3, <2>14, <2>15 DEF SetStatus, Asks
  <2> QED BY <1>1, <2>1, <2>7, <2>8, <2>10, <2>11, <2>12, <2>13, <2>14, <2>17 DEF Next
<1>2. IInv /\ [Next]_vars =>
        [\A u \in User : Unread(u) => Kept(u) /\ (status'[u] = "deleted" => Unread(u)')]_vars
  BY <1>1
<1> QED BY <1>2, Invariance, PTL DEF Spec
=============================================================================
