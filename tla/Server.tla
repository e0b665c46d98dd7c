------------------------------- MODULE Server -------------------------------
(***************************************************************************)
(* The life of the hub's process: reading the configuration, connecting,   *)
(* migrating the schema, loading the keys, serving behind the middleware,  *)
(* draining on a signal, exiting, crashing at any point and starting again *)
(* with a configuration that may have changed.  The schema outlives the    *)
(* process; the counters of the rate limiter do not.                       *)
(***************************************************************************)
EXTENDS Integers

CONSTANTS
  Last,       \* number of files in ./migrations
  Client,     \* IP addresses
  Request,    \* goroutines that serve a request
  Settings,   \* the configurations the process can be started with
  Period,     \* the minute of the rate limiter, in ticks
  Drain,      \* the 15 s of main, in ticks
  Second,     \* nanoseconds in a second
  Hour,       \* seconds in an hour
  Word,       \* int64 takes the values -Word .. Word - 1
  MaxHits     \* bound: requests of a client counted in one window

ASSUME ServerAssumption ==
  /\ Last \in Nat /\ Drain \in Nat /\ MaxHits \in Nat
  /\ {Period, Second, Hour, Word} \subseteq Nat \ {0}
  /\ 24 * Hour * Second < Word
  /\ \A s \in Settings :
       /\ DOMAIN s = {"required", "maxAge", "limit", "keys"}
       /\ s.required \in BOOLEAN /\ s.keys \in BOOLEAN
       /\ s.maxAge \in Int /\ s.limit \in Int

VARIABLES
  proc,      \* where main is
  cfg,       \* the configuration it was started with
  version,   \* schema_migrations: the version, and
  dirty,     \*   whether a file was begun and not finished
  applied,   \* history: how often each file was applied
  inflight,  \* requests whose handler runs
  window,    \* per client: requests counted in the current window, and what is left of it
  drain,     \* what is left of the drain
  recent     \* history, per client: requests this process admitted in the last k ticks and since

schema  == <<version, dirty, applied>>
limiter == <<window, recent>>
vars    == <<proc, cfg, schema, inflight, limiter, drain>>

File   == 1 .. Last
Closed == [count |-> 0, left |-> 0]
Quiet  == [k \in 0 .. Period - 1 |-> 0]

-----------------------------------------------------------------------------
(* Starting.                                                               *)

\* time.Duration(n) * time.Second, in 64 bits.
Duration(n) == ((n * Second + Word) % (2 * Word)) - Word

\* Mutant: the range is checked before the conversion, and from below only.
validate_seconds(s) == s.required /\ s.maxAge >= Hour

\* required: the ten variables without which Load fails are not blank.  maxAge:
\* TOKEN_MAX_AGE_SECONDS, 0 when it is not a number.
validate(s) ==
  /\ s.required
  /\ Duration(s.maxAge) >= Duration(Hour) /\ Duration(s.maxAge) <= Duration(24 * Hour)

\* os.Exit, logger.Fatal, or the end of main.
Stop ==
  /\ proc' = "down"
  /\ inflight' = {}
  /\ window' = [c \in Client |-> Closed]
  /\ recent' = [c \in Client |-> Quiet]
  /\ drain' = 0
  /\ UNCHANGED <<cfg, schema>>

Fatal(stage) == proc = stage /\ Stop

Load(s) ==
  /\ proc = "down"
  /\ validate(s)
  /\ cfg' = s
  /\ proc' = "connect"
  /\ UNCHANGED <<schema, inflight, limiter, drain>>

Enter(stage) == proc' = stage /\ UNCHANGED <<cfg, inflight, limiter, drain>>

\* The ping succeeds, or main gives up.
Connect ==
  \/ proc = "connect" /\ Enter("migrate") /\ UNCHANGED schema
  \/ Fatal("connect")

\* Mutant: a file that was interrupted is applied again.
Up_again ==
  \/ /\ proc = "migrate" /\ version = Last /\ ~dirty
     /\ Enter("wire") /\ UNCHANGED schema
  \/ /\ proc = "migrate" /\ (version < Last \/ dirty)
     /\ version' = IF dirty THEN version ELSE version + 1
     /\ dirty' = TRUE
     /\ Enter("apply") /\ UNCHANGED applied

\* Mutant: one file is looked for too many.
Up_pastLast ==
  /\ proc = "migrate" /\ ~dirty /\ version <= Last
  /\ version' = version + 1 /\ dirty' = TRUE
  /\ Enter("apply") /\ UNCHANGED applied

\* migrate.Up: ErrDirty is fatal, ErrNoChange is not; otherwise the next file is
\* begun by recording its version as dirty.
Up ==
  \/ dirty /\ Fatal("migrate")
  \/ /\ proc = "migrate" /\ ~dirty /\ version = Last
     /\ Enter("wire") /\ UNCHANGED schema
  \/ /\ proc = "migrate" /\ ~dirty /\ version < Last
     /\ version' = version + 1 /\ dirty' = TRUE
     /\ Enter("apply") /\ UNCHANGED applied

\* The file is one multi-statement query, which PostgreSQL runs as a transaction.
ApplyFile ==
  \/ /\ proc = "apply"
     /\ applied' = [applied EXCEPT ![version] = @ + 1]
     /\ Enter("record") /\ UNCHANGED <<version, dirty>>
  \/ Fatal("apply")

RecordVersion ==
  \/ proc = "record" /\ dirty' = FALSE /\ Enter("migrate") /\ UNCHANGED <<version, applied>>
  \/ Fatal("record")

\* The Casdoor client, the RSA keys, the services, the router; then the port.
Wire ==
  \/ proc = "wire" /\ cfg.keys /\ Enter("serve") /\ UNCHANGED schema
  \/ Fatal("wire")

-----------------------------------------------------------------------------
(* Serving.                                                                *)

Hits(c) == IF window[c].left = 0 THEN 1 ELSE window[c].count + 1

\* Mutant: a zero is missing in the period.
Count_short(c) ==
  window' = [window EXCEPT ![c] =
    [count |-> Hits(c), left |-> IF window[c].left = 0 THEN 1 ELSE window[c].left]]

\* The store's counter: the first request opens a window of one period.
Count(c) ==
  window' = [window EXCEPT ![c] =
    [count |-> Hits(c), left |-> IF window[c].left = 0 THEN Period ELSE window[c].left]]

\* ctx.Reached: 429, and the request was counted all the same.
RateLimiter(r, c) ==
  /\ Count(c)
  /\ \/ /\ Hits(c) > cfg.limit
        /\ UNCHANGED <<inflight, recent>>
     \/ /\ Hits(c) <= cfg.limit
        /\ inflight' = inflight \cup {r}
        /\ recent' = [recent EXCEPT ![c] = [k \in 0 .. Period - 1 |-> @[k] + 1]]

\* A request reaches the middleware, of public and protected routes alike; while
\* the server drains, only on a connection it had accepted before.
Arrive(r, c) ==
  /\ proc \in {"serve", "drain"} /\ r \notin inflight
  /\ Hits(c) <= MaxHits
  /\ RateLimiter(r, c)
  /\ UNCHANGED <<proc, cfg, schema, drain>>

\* The handler returns, or panics and Recovery answers with 500.
Answer(r) ==
  /\ r \in inflight
  /\ inflight' = inflight \ {r}
  /\ UNCHANGED <<proc, cfg, schema, limiter, drain>>

-----------------------------------------------------------------------------
(* Stopping.                                                               *)

\* SIGINT or SIGTERM: the listener is closed, handlers go on; a second signal is
\* buffered and never read.
Signal ==
  /\ proc = "serve"
  /\ proc' = "drain" /\ drain' = Drain
  /\ UNCHANGED <<cfg, schema, inflight, limiter>>

\* Mutant: Shutdown(context.Background()).
Shutdown_patient == inflight = {} /\ Fatal("drain")

\* srv.Shutdown returns: everything is answered, or the time is up.
Shutdown == (inflight = {} \/ drain = 0) /\ Fatal("drain")

Crash == proc # "down" /\ Stop

\* An operator finds out whether the dirty file was applied (its transaction
\* was committed or not) and forces the version accordingly.
Repair ==
  /\ proc = "down" /\ dirty
  /\ dirty' = FALSE
  /\ version' = IF applied[version] > 0 THEN version ELSE version - 1
  /\ UNCHANGED <<proc, cfg, applied, inflight, limiter, drain>>

Tick ==
  /\ proc \in {"serve", "drain"}
  /\ proc = "drain" => drain > 0
  /\ drain' = IF drain = 0 THEN 0 ELSE drain - 1
  /\ window' = [c \in Client |->
       IF window[c].left <= 1 THEN Closed ELSE [window[c] EXCEPT !.left = @ - 1]]
  /\ recent' = [c \in Client |-> [k \in 0 .. Period - 1 |-> IF k = 0 THEN 0 ELSE recent[c][k - 1]]]
  /\ UNCHANGED <<proc, cfg, schema, inflight>>

-----------------------------------------------------------------------------
Init ==
  /\ proc = "down"
  /\ cfg \in Settings
  /\ version = 0 /\ dirty = FALSE
  /\ applied = [v \in File |-> 0]
  /\ inflight = {}
  /\ window = [c \in Client |-> Closed]
  /\ recent = [c \in Client |-> Quiet]
  /\ drain = 0

Start == Connect \/ Up \/ ApplyFile \/ RecordVersion \/ Wire

Next ==
  \/ \E s \in Settings : Load(s)
  \/ Start
  \/ \E r \in Request, c \in Client : Arrive(r, c)
  \/ \E r \in Request : Answer(r)
  \/ Signal \/ Shutdown
  \/ Crash \/ Repair
  \/ Tick

Spec == Init /\ [][Next]_vars

\* Time passes while main drains, and Shutdown returns once it can; handlers owe
\* nothing, and nobody has to start, stop or repair anything.
FairSpec == Spec /\ WF_vars(Shutdown) /\ WF_vars(proc = "drain" /\ Tick)

-----------------------------------------------------------------------------
(* Properties.                                                             *)

Stage == {"down", "connect", "migrate", "apply", "record", "wire", "serve", "drain"}

\* Every variable has its type; a closed window has counted nothing.
TypeOK ==
  /\ proc \in Stage
  /\ cfg \in Settings
  /\ version \in 0 .. Last /\ dirty \in BOOLEAN
  /\ applied \in [File -> Nat]
  /\ inflight \subseteq Request
  /\ window \in [Client -> [count : Nat, left : 0 .. Period]]
  /\ \A c \in Client : window[c].left = 0 => window[c].count = 0
  /\ drain \in 0 .. Drain
  /\ recent \in [Client -> [0 .. Period - 1 -> Nat]]

\* However often the process crashes, and on whichever side of a migration, no
\* file is applied twice or out of order, and only the file that is flagged as
\* dirty can be missing from those the recorded version stands for
\* (postgres.go:45-59).
AppliedInOrder ==
  \A v \in File :
    /\ v < version => applied[v] = 1
    /\ v = version => applied[v] = 1 \/ (dirty /\ applied[v] = 0)
    /\ v > version => applied[v] = 0

\* Whoever serves requests does so on the complete schema, with a session
\* lifetime of 1 to 24 hours and with its keys loaded, whatever happened to the
\* processes before it (main.go:39-80).
ServesWhenReady ==
  proc \in {"serve", "drain"} =>
    /\ ~dirty /\ \A v \in File : applied[v] = 1
    /\ cfg.required /\ cfg.keys /\ Duration(cfg.maxAge) \in Duration(Hour) .. Duration(24 * Hour)

\* Within any minute, wherever it begins, one process admits fewer than twice
\* the configured number of requests of a client, and none if it is not
\* positive: two windows can meet in that minute, but the first request of the
\* earlier one is then before it (ratelimit.go:16-46).
SlidingMinute ==
  \A c \in Client :
    LET admitted == recent[c][Period - 1]
    IN  IF cfg.limit > 0 THEN admitted < 2 * cfg.limit ELSE admitted = 0

\* A process that was told to stop is gone in the end, even if a handler never
\* returns (main.go:131-138).
ShutdownEnds == (proc = "drain") ~> (proc = "down")
=============================================================================
