# sso-identity-hub: TLA+ models, checks and proofs

The hub is a Go server that sits between Casdoor (OIDC), downstream
applications and a SCIM directory: it keeps users and sessions in PostgreSQL,
logs people in, and ends their sessions everywhere. This directory holds TLA+
modules that model it, the TLC configurations that check them on small
instances, and proofs for TLAPS. Paths below are relative to `src/internal`
unless they start with `src/`.

## 1. Inventory

| Component | State | Operations | Hard behaviour | What makes it correct |
|---|---|---|---|---|
| **Session store**: `domain/session`, `repository/session_repo.go`, table `sso_sessions` | one row per session: user, state, expiry | create, validate, revoke one, revoke all of a user, delete expired | every operation is one or two SQL statements with no transaction around them; activity is judged by two clocks | an ended session never becomes usable again; "revoke all" leaves nothing usable |
| **Logout and session handlers**, `RequireSession`: `handlers/logout_handler.go`, `session_handler.go`, `middleware/auth.go`, `application/logout` | the request: who, which session, the list to notify about | logout, logout-all, admin force logout, list, revoke, get | the session is read by the middleware, again by the service, again by the domain service; others act in between | 200 means ended; tokens only for ended sessions, of one user; a logout ends its own user's sessions and tells about those it listed (`RevokeSession` ends the session it is given, whoever's that is: section 5) |
| **Back-channel fan-out**: `application/logout`, `src/pkg/jwt`, table `backchannel_logout_log` | a goroutine per session and endpoint, its attempt, the audit row | mint, log, POST, pause, retry, mark; `wg.Wait` | timeouts, lost and late answers, ignored audit errors, shutdown in the middle | one earned verdict per pair, all in before the request goes on; bounded wait |
| **Login and accounts**: `application/auth`, `domain/identity`, `repository/identity_repo.go`, table `sso_users` | one row per user: status, Casdoor id, last login | callback (look-up, upsert, status check, session, stamp), suspend, delete | read-modify-write of a whole row, first logins that race, UNIQUE columns | a session goes to the person validated; a lock-out lasts, and is not got round by a second account |
| **SCIM provisioning**: `application/provisioning`, `infrastructure/scim`, `handlers/scim_handler.go` | none of its own; the remote directory | provision (find, then PUT or POST), deprovision (find, then PATCH) | find-then-create without atomicity, lost answers, calls executed after they were given up, status read early and pushed late | the directory agrees after a push; it is known what makes a duplicate resource |
| **MS Graph client**: `infrastructure/msgraph` | `cachedToken`, `tokenExpiry`, shared by all requests without a lock | revoke tokens of a user, refresh the cache | refreshes that overlap (torn and mixed writes), answers without a token, a token that expires on its way | a token taken from an undisturbed cache is valid when it arrives; the cache recovers |
| **Wiring, start and shutdown**: `src/cmd/server`, `interfaces/http/router.go`, `database/postgres.go` | the stage of `main`; the schema version, which outlives the process | load, connect, migrate, wire, serve, drain for 15 s, stop | a crash in the middle of a migration, a restart with another configuration, a handler that never returns | no migration twice or skipped; nobody serves on half a schema; a stop ends |
| **Rate limiter**: `middleware/ratelimit.go` | a counter per client and window (ulule/limiter) | admit or 429 | windows that meet, restarts | a bound on any minute, not only on windows |
| **Configuration**: `config` | none | bind and validate the environment | a multiplication that wraps before the range check; values nobody validates (retries <= 0, timeout 0, limit <= 0) | the session lifetime that is used is in range |
| Tokens: `src/pkg/jwt`, `src/pkg/crypto`, `domain/token` | keys | load, mint, verify, JWKS, PKCE | none | claims, lifetime |
| PostgreSQL pool, logging, health, deployment scripts | - | - | - | - |

How they interact: every HTTP request is a goroutine. Handlers call application
services, these call domain services, these call repositories; the shared state
is the three tables. A login (`Login`) inserts the sessions that a logout
(`Sessions`) ends; a logout hands its sessions to the fan-out (`BackChannel`)
and afterwards, for a forced logout, calls MS Graph (`GraphToken`), whose
failure it only logs. `Hub` puts logins and logouts over one sessions table.
`Server` is the process around all of them: what must have happened before a
request is served, and what happens to requests when it stops. Provisioning
(`Provisioning`) reads the status that logins and suspensions write.
`SuspendUser`, the soft delete of a user and `DeleteExpired` exist in the code
but nothing in the server calls them; they are modelled as things an operator
or a scheduled job does at any time.

## 2. Modules

| Module | Models | State and actions |
|---|---|---|
| `SessionLifecycle` | what the session store promises (abstract) | sessions open once, end for good, and are announced only after they ended |
| `Sessions` | store, session and logout handlers, middleware | `sso_sessions` is the table; per request slot: `pc` (the next SQL statement), `op` (handler), `sess`/`user` (its arguments), `active` (list for the fan-out), `out` (status sent). One action per handler entry (`Logout`, `LogoutAll`, ..., including the middleware's look-up) and one per statement (`LookupSession`, `FindByID`, `Revoke`, `FindActive`, `RevokeAll`), then `Dispatch` and `Wait`; `StatementFails`, `Crash`, `DeleteExpired`, `CreateSession`, `Tick` |
| `SessionsProofs` | theorems about `Sessions` | - |
| `Notification` | what the fan-out promises (abstract) | one verdict per (session, endpoint), earned, and the request resumes after the last |
| `BackChannel`, `BackChannelProofs` | the fan-out, endpoints, network and shutdown | per delivery: `phase`, `attempt`, `due` (timer), `iat` (mint time), `wire` (fate of every POST), `result`, `audit` (the row) |
| `Login`, `LoginProofs` | the callback and the users table | `sso_users`, `sso_sessions` (user and sid only); per callback: `pc`, `person`, `sid`, `copy` (the `*User` held while others write), `out` |
| `Provisioning`, `ProvisioningProofs` | both SCIM handlers, the service and the client | `status`, `directory` (external); per request: `pc` (next call), `user`, `active` (the flag mapped from what was read), `found`; `late`: the calls whose caller has given up and which the directory may still execute (`LateCall`), in any order and whenever it likes |
| `Hub`, `HubProofs` | `Sessions` and `Login` over one table | the variables of both (`rows` is the table of `Sessions`, `sids` its column `sid`); an action is one of `Sessions`, one of `Login`, or, for the INSERT, the DELETE and a crash, one of each; `lockedOut` remembers who was suspended and forced out |
| `GraphToken`, `GraphTokenProofs` | the token cache of the MS Graph client | `len`, `ptr`: the two words of the Go string `cachedToken`; `expiry`: what is left until `tokenExpiry`; per request: `pc`, `resp` (the token endpoint's answer), `sent` (what it presents to Graph), `wait` (its HTTP timeout); `left`: what is left of each token's life |
| `Server`, `ServerProofs` | the life of the process, migrations, configuration, rate limiter | `proc`: the stage of `main`, one action per stage (`Load`, `Connect`, `Up`, `ApplyFile`, `RecordVersion`, `Wire`); `version`, `dirty`: the table `schema_migrations`; `window`: the limiter's counters; `Signal`, `Shutdown`, `Crash`, and an operator's `Repair` |
| `MC*` | instances for TLC | symmetry sets, a negative constant, the configurations `Server` is started with |

An action is one SQL statement or one remote call together with the Go code up
to the next one: that is where goroutines interleave. Errors keep what decides
behaviour: for sessions, the text and the HTTP status, because
`isExpiredOrNotFound` compares the text. UUIDs are model values that are never
drawn twice. Malformed path parameters are answered with 400 before any
statement and are left out.

A fault (`MaxFaults`) is a statement or call that fails, before or after it took
effect (a cancelled context, a lost answer), or a crash, which loses every
request in flight and keeps the tables. A PUT, PATCH or POST to the directory
that fails is either lost or put into `late`.

Definitions named `X_something` next to a definition `X`, marked "Mutant", are
broken variants of it. They are not part of any specification; each property has
one that makes it fail, which shows that the property can fail.

## 3. What the runs check

| Run | Question | Result |
|---|---|---|
| `sessions_safety` | Two users, two sessions, two concurrent requests, one fault, a database clock one tick ahead, the cleanup deleting rows: `DispatchedIsDead`, `SuccessfulLogoutTerminates`, `FanOutNamesOneUser`, `EndedAreCarried` (a session that ends gets into the fan-out of the logout that ended it, with the exceptions named there), `IInv` (the proofs' invariant), refinement of `SessionLifecycle` | hold |
| `sessions_live` | Fair scheduling, a database clock one tick behind: every request returns (`RequestsReturn`); listed sessions get tokens unless a fault intervenes (`ListedAreDispatched`) | hold |
| `fanout` | Two endpoints, two attempts, late and lost answers, failing audit statements, a shutdown at any time: `OutcomesAreEarned`, `ReturnCapturesAll`, `TokenFreshWhenPosted`, `WaitIsBounded`, `NoDeliveryCutShort`, refinement of `Notification`, and the call ends (`CallEnds`), by returning or with the process | hold |
| `login_safety` | Two persons, racing first logins, suspensions, deletions, forced logouts, a fault: `SessionForThePerson`, `LockoutIsPermanent`, `ShutOutStaysOut` (no way in through a second account) | hold |
| `hub` | Callbacks and requests over one table, a database clock one tick ahead: suspend, let earlier logins finish, force a logout, and the user is out for good (`ForcedLogoutLocksOut`, `BarredStaysOut`); `Login` is an abstraction of the composition (`LoginSpec`) | hold |
| `provisioning` | A user, three resources, two concurrent requests, two faults, status changes, calls executed after they were given up: `DuplicatesAreRaced`, `SettledAgrees` | hold |
| `graph` | Two requests over one token cache, overlapping refreshes, answers without a token or a lifetime, restarts: `CleanReadsAreValid`, `CacheIsHonest` | hold |
| `server` | Nine configurations, three migrations, crashes at every point, an operator's repairs, several rate-limit windows: `AppliedInOrder`, `ServesWhenReady`, `SlidingMinute`, `ShutdownEnds` | hold |
| `sessions_gone` | "Session is already gone; treat as success" | violated: answered with 401 or 404 |
| `sessions_returned` | "Returns the list of revoked sessions" | violated: a login between SELECT and UPDATE is revoked unlisted |
| `login_suspend` | "locks a user account immediately" | violated: a login that read the row earlier writes the old status back |
| `graph_race` | "getAccessToken returns a valid client-credentials access token" | violated: overlapping refreshes pair one token with the other's expiry |

Bounds. Two requests are enough for a pair of handlers to interleave in every
order. In `sessions_safety`, `MaxAge` 2 and `MaxTime` 3 let every session expire
at the earliest and latest points, a database that is one tick ahead overlook a
session the hub still accepts, and its cleanup delete one; `hub` has the same
clocks, and `sessions_live` a database that lags. `sessions_returned` has
the session that appears between the list and the UPDATE. One fault already
splits any two statements; two let provisioning give up
two POSTs, or lose an answer and then a look-up. `provisioning` has one user,
since requests for different users never write the same resource (proved:
`Touches`, section 4); three resources are what two given-up POSTs and a third
one can make. In `fanout`, one session and two endpoints make two goroutines; more
pairs add only copies, since they share nothing but the `WaitGroup`. Two
attempts have the retry, its pause and the last failure; what three attempts and
other timeouts add is proved (section 4). Its drain (2) is shorter than the
worst case, so the process may exit in the middle. In `login_safety` one access
token and the fallback sid give both kinds of sid, and three row ids are one more
than the two persons need. `hub` has one callback and one request at a time: the
races of two callbacks are those of `login_safety`, those of two requests those
of `sessions_safety`; it adds the pair of one each. It bounds sessions by the ids
left (`IdsLeft`), so that a callback never lacks an id to insert. In `graph` a
tick is 15 s; lifetimes of 5 and 10 ticks stand for the 60 to 90 minutes of
Entra ID (only longer than the margin, and different, matters), four tokens are
enough for the cache, two answers and two tokens on their way to be distinct
when it matters, and a token is used again only when nobody holds it, which
keeps the state finite without a bound on time. Its `VIEW` leaves out what no
action reads again: how long a token lives that nobody holds. `graph_race` takes lifetimes 4
and 10, so that a mixed pair outlives its token soon. In `server`,
`int64` has nine bits (`Word` 256) and a second three nanoseconds: 180 "seconds"
wrap into the valid range as 18,446,750,000 do in 64 bits. `MaxHits` bounds the requests
counted in a window at one more than the largest limit. Where the system may stop
for good (a fan-out that has returned), deadlock checking is off: `fanout` only.

Time in `BackChannel`. `Tick` may not pass a timer that is due, nor a goroutine
that is about to mint, log or mark: goroutines are prompt, so the bounds are
those of the code on an unloaded machine, with statements that take no time. The
15.5 s that the default configuration can take (three timeouts of 5 s, pauses of
0.1 s and 0.4 s) exceed the 15 s that `main` allows the shutdown to drain;
`NoDeliveryCutShort` says that a delivery is cut short only if the drain does not
exceed the bound. A forced logout then waits for MS Graph, up to 30 s more (two
calls with 15 s each), while the server's write timeout is 30 s: a logout that
took effect can lose its answer. `GraphToken` treats time the same way.

Memory in `GraphToken`. The race on `cachedToken` is one the Go memory model
leaves open; the model admits what a 64-bit build does: each word is written at
once, the two words of the string in either of the mixtures that follow. A
torn string (`Torn`) is presented to Graph and refused, or is out of bounds of
its data; the model does not follow it further.

Fairness. `Sessions!FairSpec` is weak fairness of each request's next step:
goroutines are scheduled and SQL statements return. Nothing obliges anybody to
send a request, to log in or to run the cleanup. `BackChannel!FairSpec` is weak
fairness of each goroutine, of the return from `wg.Wait`, of the exit after a
drain and of time. Endpoints owe nothing: the client's timeout alone must end
an attempt. `Server!FairSpec` is weak fairness of `srv.Shutdown` returning once
it can and of time during a drain. Handlers owe nothing, and nobody has to
start, signal or repair anything.

## 4. What is proved

For every value of the constants that satisfies the modules' assumptions:

| Module | Theorems |
|---|---|
| `SessionsProofs` | `Invariant`, `TypeCorrect`, `DispatchedSessionsAreDead`, `LogoutTerminates`, `OneUserPerFanOut`, `RevocationsAreCarried`, `RefinesLifecycle` (the store implements `SessionLifecycle`), for clocks that differ by anything; `LogoutEndsAll` (nothing usable is left) under the further assumption `DbSkew <= 0`, the database's clock not ahead of the hub's, which is necessary (section 5); `RequestsGoOnward` and `OnlyFaultsLoseTheList`, the safety halves of the two liveness properties |
| `BackChannelProofs` | `TypeCorrect`, `VerdictsAreEarned`, `AuditIsComplete`, `WaitBound`, `DrainSuffices`, `Refinement` (the fan-out implements `Notification`); `TokensAreFresh` under the further assumption that the worst case is shorter than a token's lifetime (15.5 s against 2 minutes by default; neither setting is validated); `NothingIsSent` for `MaxRetries <= 0`, which nothing forbids; `DeliveriesGoOnward`, the safety half of `CallEnds` |
| `LoginProofs` | `TypeCorrect`, `RightPerson`, `Lockout`, `NoSecondAccount` |
| `HubProofs` | `RefinesSessions`, `RefinesLogin` (the composition implements both of its parts), `StaysBarred`, `LocksOut`; and therefore in the composition what each part promises alone: `LogoutsInTheHub`, `HubKeepsLifecycle`, `LoginsInTheHub` |
| `ProvisioningProofs` | `TypeCorrect`, `NoDuplicates`, `Settles`, `DeletedIsOutOfReach` |
| `GraphTokenProofs` | `Invariant`, `TypeCorrect`, `CleanReads`, `HonestCache`, `OptimismIsBounded` |
| `ServerProofs` | `TypeCorrect`, `MigrationsInOrder`, `ReadyToServe`, `LifetimeInRange`, `MinuteIsBounded` |

The arguments. None of the properties is inductive, because each relies on what
somebody learnt steps ago; the invariants say what that is.

*Sessions.* `IInv` says what each request knows at each statement: which handler
can be there with which arguments (`Placed`), which sessions it carries
(`Carried`), which of those it was asked to end have ended (`Asked`); and
that what has been dispatched has ended. Every step moves the rows of the table forward
only: an ended session stays ended, an owner stays the owner, and a dead session
stays dead (`NextForward`, `EndedForward`), so what the *other* requests know
survives any step (`OtherRequests`). What the moving request knows afterwards is
one lemma per action. `Carried` also says whose the sessions in a request's hands
are, which is `OneUserPerFanOut`. `RevocationsAreCarried` goes through the steps
that can end a session: an UPDATE that names one, which the next step hands to the
fan-out, an UPDATE that names a user, which does so with the sessions listed before,
and the two handlers that tell nobody. The exception for an unlisted session is
the finding of `sessions_returned`, the one for a lost answer is in section 5.
`NeverExpiredOrNotFound` states what is behind `sessions_gone`: the comparison meant
to absorb a vanished session matches no error it is given. What a request knows of a session it
was asked to end is that it is `Lapsed`: the hub accepts it no more, or only until
its clock is where the database's is. That is the most two clocks allow, and it
is stable, since time and the table only move forward; `LogoutEndsAll` is the case
in which nothing remains. `Rank` orders the statements of a handler: each step of
a request takes it to a higher one or to its answer, and no step of another
request moves it (`Onward`); with the fairness of the scheduler that is
`RequestsReturn`. Sessions that were listed stay in a request's hands (`Carries`)
until the fan-out has them, unless the step is a fault.

*BackChannel.* `IInv` ties each delivery's phase to its attempts on the wire, its
result and its audit row (`Earned`, `Recorded`), the call to the deliveries
(`Called`), and the clock to what a delivery may still need: `Timely` says that
the timer of a delivery in attempt `k` is due no later than `k` timeouts and the
pauses `1, 4, 9, ...` before it add up to (`Latest(k)`, six times that sum, since
its closed form divides by six); `Ceiling` that the clock has not passed the
last attempt's. The step from `k` to `k + 1` is arithmetic on products
(`LatestGrows`). `WaitIsBounded` is the ceiling (`CeilingIsWorstCase`);
`DrainSuffices` and `TokensAreFresh` follow from it. Without a positive number of
retries the ceiling is 0 and there is no attempt to be in (`NothingIsSent`). `Progress` numbers the steps of a
delivery, two per attempt and three more: each of its own steps takes it to a higher
number, and nobody else's moves it.

*Login.* `IInv` adds to the properties that every row is somebody's (`Owned`),
that an id drawn by `uuid.New()` and not yet stored is held by one callback
(`Unshared`), and what a callback knows (`Knows`): its copy is of its person's
row if there is such a row, the row exists from the upsert on, and the copy is
active when a session is about to be inserted. Rows keep their person and never
vanish, so callbacks cannot spoil each other's knowledge (`StillKnows`), and
`Unshared` is what makes an upsert no news to the others. `Lockout` is a step
invariant on top of it (`LockoutStep`): a callback that could insert a session
holds an active copy, and a locked-out account has none. `NoSecondAccount` is about
the person behind it. `FindByCasdoorID` does not see a deleted row, so a login of
that person builds a new user, and only the upsert finds out. Rows stay and keep
their person (`RowsStay`), one row per person is part of `IInv`, so the account
that is shut is the person's only one; whoever is about to be answered with 200
(`Welcomed`) has an active copy of it, and there is none.

*Hub.* Every step is mapped to a step or a stutter of `Sessions` (`ToSessions`) and
of `Login` (`ToLogin`): a statement that revokes or deletes rows is an
`EndSessions` of `Login`'s environment, an INSERT is a `CreateSession` of both. So
the invariants of both hold, and what each says of a step is available: `Login`
that a barred user gains no row and that no row comes back to `active`
(`ShutStep`), `Sessions` that owners and expiry times stay (`TableStep`). Together
(`Fades`) a barred user's usable sessions only get fewer, so those that a forced
logout recorded in its scope when it was admitted remain all there are
(`Pursues`) until its 200, which says that each of them has lapsed (`Asked`). What
`Sessions` and `Login` promise holds in the composition because it implements them.
`SameSessions` and `SameLogin` are bookkeeping: the instances of the proof modules
and of the specifications have the same definitions.

*Provisioning.* Requests for different users never write the same resource
(`Touches`), since what a request found is its user's (`Knows`) and resources do
not change hands. A user that was never raced, or whose request is still pushing,
has one request in flight (`Alone`), so no other request can create a resource
between its look-up and its POST. A call that was given up is for a resource of
its user; if it is a POST and the user was never raced, it is the user's only one,
no request is in flight and there is no resource yet (`LateCalls`): the next
request begins with it outstanding, and that makes the user raced. What a late
call does to a user who is being pushed is overwritten by the push. The flag a pushing request carries is that of the status, because a
change of the status ends the pushing. A settled user has none (`Quiet`), so the
agreement `Earns` establishes with the answer lasts. `DeletedIsOutOfReach` is an
action property about users who were deleted before any request read them
and for whom the directory has no late call (`Unread`): only a request that read
the user can write his resources, and none can read him, so his resources stay as they are (`Kept`), active ones included,
until the status changes.

*GraphToken.* `IInv` counts age: the answer a request holds is at most as old as
the time its call has taken (`Answered`), so the expiry it writes is at most one
timeout too optimistic (`CacheIsHonest`); a writer nobody overlaps finds both
words of the cache its own (`Alone`); who then reads finds a token that outlives
one timeout (`Reading`), because the margin is at least two, and presents it
within that time (`Presented`), unless the answer had no token and there is the
empty string to present, which the invariant has to allow. The assumption `Margin >= 2 * Timeout` is what
the proof needs of 60 s and 15 s. Where refreshes do overlap, they overlap within
an instant (the writes of a refresh take no time), so the token of one and the
expiry of another come from answers of almost the same age: their ends differ by
one timeout and the difference of two lifetimes at most (`Paired`). That bounds
the damage of the race for any lifetimes (`OptimismIsBounded`): with Entra ID's
60 to 90 minutes by half an hour and 15 s, far more than the margin, and
`graph_race` shows what happens then. Torn strings are outside of the statement.

*Server.* `IInv` adds to `AppliedInOrder` what each stage of `main` knows of the
schema (`StageKnows`) and of its configuration (`Validated`). The order of the
stages does the rest: nothing after `Up` touches the schema, and an interrupted
file leaves the flag that stops the next start. `SlidingMinute` needs to know how
an open window and the requests of the last minute relate. `recent[c][k]` counts
those of the current and the last `k` ticks, and `Remembers` bounds it for every
`k`: ticks that lie within the open window hold fewer requests than it counted,
and what is older fits into the window before, so a full minute holds fewer than
the two together. A window may have expired and the next one not be opened yet,
or the process may have been restarted and have forgotten all (`Windows`).
`LifetimeInRange` is arithmetic: without a wrap, `validate` compares the seconds.

Only model-checked: liveness (`RequestsReturn`, `ListedAreDispatched`,
`CallEnds`, `ShutdownEnds`), since reasoning about ENABLED and fairness is
beyond the installed prover; of the first three, the safety halves are proved. Every
invariant and action property of a run that holds is proved. No module declares a
RECURSIVE operator, so all of them can be proved about.

## 5. Where code and comments part

Four disagreements have a run of their own (section 3). Others were met while
modelling and are part of the models:

- `session_handler.go:46-55`: `GET /sessions`, documented as a listing, revokes
  all sessions of the caller and answers 501.
- `session_handler.go:69-70`: "Users may only revoke their own sessions; verify
  ownership via context". The user id is read from the context and discarded, and
  the session named in the path is ended whoever's it is (`RevokeSession`;
  `RevokedBy` lists it as what it is). Unlike a logout it hands out no tokens.
- `session/service.go:65-89`: when the UPDATE was executed and its answer lost, the
  caller sees 500 and no logout token is sent; a repeated logout finds the session
  gone. A crash between the UPDATE and the end of the fan-out loses the tokens in
  the same way: the list is in memory only, and nothing looks for it at the next
  start (`StatementFails`, `Crash`; `EndedAreCarried` excuses the lost answer).
- `session_repo.go:93` and `entity.go:58` judge expiry by different clocks. With
  the database ahead, the SELECT of a logout-all overlooks a session that the
  hub still accepts, `RevokeAllUserSessions` returns early, and 200 is answered
  while the session stays usable until it expires. The runs have
  `DbSkew = 1`; `Lapsed` says exactly what may remain (`LogoutTerminates`).
- `logout/service.go:116-118` says the response does not wait for endpoints
  "beyond the client timeout"; it waits for all attempts and pauses
  (`WorstCase` in `BackChannel`).
- `src/cmd/server/main.go:95` passes no audit logger, and none exists: the table
  "for every back-channel logout attempt" stays empty (`HasAudit = FALSE`).
- A login whose status check precedes a suspension creates its session after
  it, and an overlapping login overwrites a newer `last_login_at` (`Login`);
  hence the condition in `Barred`.
- `casdoor/client.go:79`: without an access token in the ID token's claims the
  `sid` is the person's id, the same for every login; the column is UNIQUE and
  revoked rows stay, so a second login, from another browser or after a logout, is
  answered with 500 as long as the row is there (nothing in the server calls the
  cleanup), although
  `src/migrations/002_create_sessions.up.sql:2` speaks of "per-browser
  authenticated sessions" (`Sid`, `CanInsert`). No property states it as wanted.
- A deleted user still owns the UNIQUE `casdoor_id`, and the look-up does not see
  the row (`identity_repo.go:74`): the person's next logins are answered with 500 for
  good instead of a refusal (`CanSave`). That it keeps the person out all the same is
  `ShutOutStaysOut`.
- `provisioning/service.go:61` says deprovisioning is "called when a user is
  suspended or deleted"; for a deleted user `GetUser` finds nothing and the
  answer is 404 (`Provisioning!GetUser`), and the user stays active in the
  directory (`DeletedIsOutOfReach`).
- `auth/service.go:65` lists "Enforces MFA requirement if configured"; the branch
  at 86-97 rejects nobody.
- `scim/client.go:173` puts the filter into the URL unencoded and does not look
  at the status of the answer; a directory that refuses such a URL makes every
  look-up fail, which `ProvisionUser` takes for "not found". In `Provisioning`
  that is `CallFails` at `Find`, and it is one of the three ways to a second resource
  that `DuplicatesAreRaced` leaves.
- `scim/client.go:61`: after 10 s the client stops waiting, and so does everybody
  when the process dies; the directory may still execute the PUT, PATCH or POST,
  after later requests were answered with 200. Nothing in the code (a version, an
  ETag, a second look) stands against it: a late PUT undoes a deprovisioning, a late
  POST makes a second resource. `SettledAgrees` and `DuplicatesAreRaced` name it
  as the exception it is; `LateCall` in `Provisioning`.
- `postgres.go:46` speaks of "atomic, versioned schema evolution". A file and the
  record of its version are separate transactions: a crash between them leaves
  `dirty` set although the file was applied, and no process starts again until an
  operator repairs it (`Repair` in `Server`, on which nothing but an operator acts).
- `config.go:213-216` multiplies the seconds into an `int64` of nanoseconds before
  `validate` looks at the range, so some values far beyond 86,400 wrap into it
  and are accepted. The duration that is used is in range all the same, which is
  what `ServesWhenReady` claims; the configured number is unless it wrapped
  (`LifetimeInRange`).
- `config.go:89-90`: "Both values should be equal" is not checked, and the refresh
  lifetime is used nowhere.
- `src/pkg/crypto/rsa.go:12-14` relies on "the corresponding public key"; that the two
  files correspond is not checked at start (`keys` only says both can be loaded).
- `router.go:38` says "panics are always caught". Those of the fan-out's
  goroutines are not (`logout/service.go:123`): they end the process, which the
  models see as a crash. A request that panics is not logged either, since
  `RequestLogger` logs after the handler has returned.
- `msgraph/client.go:109-120` decodes a 200 without looking whether it holds an
  `access_token` or an `expires_in`. Without the first, `""` is returned with a nil
  error, where line 77 says "returns a valid client-credentials access token", and
  presented to Graph, which refuses it; the next call asks again. Without the second
  the token counts as expired at once and every call fetches one (`TokenIssued`).
- `msgraph/client.go:36` speaks of a 15 s timeout against blocking the logout; it
  is per call, and a refresh makes two.
- A limit of 0 or less (`RATE_LIMIT_REQUESTS_PER_MINUTE` set to it, or not a
  number) answers every request with 429, `/healthz` included; `SlidingMinute`
  includes the case.

## 6. Not modelled

JWKS and PKCE (pure functions; nothing in the server calls the PKCE verifier),
the connection pool's limits, `HealthCheck` of the database (no caller), logging,
the health check, deployment scripts. Within the modelled parts: profile fields,
e-mail addresses (a clash is a choice, `EmailMayClash`), IP addresses and user
agents, `revoked_at`, log messages, response bodies and headers. Of the
configuration: defaults and the splitting of lists; timeouts and retries are
constants of `BackChannel`, which excludes a timeout of 0 (no timeout in
`net/http`) and admits `MaxRetries <= 0` (no attempt; the delivery fails: `NothingIsSent`). The
write timeout of the server is not an action: it ends the connection, not the
handler.

## 7. Plan

Done: all modules of section 2, and a proof of every invariant and action
property the passing runs check. Left: `Hub` with `BackChannel` in place
of `Sessions`' `Dispatch` and `Wait`, which at present meet only through
`dispatched` and `Notification`.
