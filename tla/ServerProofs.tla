---------------------------- MODULE ServerProofs ----------------------------
(***************************************************************************)
(* Theorems about Server: for any number of migrations and any settings,   *)
(* crashes and restarts leave no file skipped or applied twice, only a     *)
(* migrated, validated process with its keys serves requests, and the rate *)
(* limiter bounds what any sliding minute admits.                          *)
(***************************************************************************)
EXTENDS Server, TLAPS

\* What each stage of main knows of the schema.
StageKnows ==
  /\ dirty => version > 0
  /\ proc = "apply" => dirty /\ applied[version] = 0
  /\ proc = "record" => dirty /\ applied[version] = 1
  /\ proc \in {"wire", "serve", "drain"} => ~dirty /\ version = Last

\* What each stage of main knows of its configuration.
Validated ==
  /\ proc # "down" => validate(cfg)
  /\ proc \in {"serve", "drain"} => cfg.keys

\* What a client's window, with n requests counted and left ticks to go, says of
\* the totals f when m requests are allowed.  While it is open, what came since
\* any tick after its first request is less than it counted, and what came
\* before it was opened is less than the limit.
Remembers(m, n, left, f) ==
  /\ \A j, k \in 0 .. Period - 1 : j <= k => f[j] <= f[k]
  /\ m <= 0 => f[Period - 1] = 0
  /\ m > 0 /\ left = 0 => f[Period - 1] < m
  /\ m > 0 /\ left > 0 =>
       /\ n > 0
       /\ \A k \in 0 .. Period - 1 : k < Period - left => f[k] < n /\ f[k] < m
       /\ f[Period - 1] < n + m /\ f[Period - 1] < 2 * m

\* A new process has forgotten every window, and starts with a limit of its own.
Windows ==
  \A c \in Client :
    /\ proc \notin {"serve", "drain"} => window[c] = Closed /\ recent[c] = Quiet
    /\ Remembers(cfg.limit, window[c].count, window[c].left, recent[c])

\* The inductive invariant.
IInv == TypeOK /\ AppliedInOrder /\ StageKnows /\ Validated /\ Windows

USE DEF schema, limiter

-----------------------------------------------------------------------------
\* The assumptions, one by one.
LEMMA Parameters ==
  /\ Last \in Nat /\ Drain \in Nat
  /\ Period \in Nat /\ Period > 0 /\ Hour \in Nat
  /\ Second \in Nat /\ Second > 0
  /\ Word \in Nat /\ Word > 0
  /\ \A s \in Settings : s.maxAge \in Int /\ s.limit \in Int
BY ServerAssumption

\* An empty limiter has its type.
LEMMA QuietType ==
  /\ [c \in Client |-> Closed] \in [Client -> [count : Nat, left : 0 .. Period]]
  /\ [c \in Client |-> Quiet] \in [Client -> [0 .. Period - 1 -> Nat]]
BY Parameters DEF Closed, Quiet

-----------------------------------------------------------------------------
(* The rate limiter, one window at a time.                                 *)

Totals == [0 .. Period - 1 -> Nat]

\* An empty window, whatever the limit.
LEMMA QuietRemembers == ASSUME NEW m \in Int PROVE Remembers(m, 0, 0, Quiet)
BY Parameters DEF Remembers, Quiet

\* A request that is admitted: the window it counts in is open afterwards.
LEMMA AdmitRemembers ==
  ASSUME NEW m \in Int, NEW n \in Nat, NEW left \in 0 .. Period, NEW f \in Totals,
         Remembers(m, n, left, f), left = 0 => n = 0,
         NEW hits \in Nat, hits = IF left = 0 THEN 1 ELSE n + 1, hits <= m
  PROVE  Remembers(m, hits, IF left = 0 THEN Period ELSE left,
                   [k \in 0 .. Period - 1 |-> f[k] + 1])
<1> DEFINE g == [k \in 0 .. Period - 1 |-> f[k] + 1]
           open == IF left = 0 THEN Period ELSE left
<1>1. \A k \in 0 .. Period - 1 : f[k] \in Nat /\ g[k] = f[k] + 1
  BY DEF Totals
<1>2. Period - 1 \in 0 .. Period - 1 /\ m > 0 /\ open > 0 /\ open \in 1 .. Period
  BY Parameters
<1>3. \A j, k \in 0 .. Period - 1 : j <= k => g[j] <= g[k]
  BY <1>1 DEF Remembers
<1>4. \A k \in 0 .. Period - 1 : k < Period - open => g[k] < hits /\ g[k] < m
  <2>1. CASE left = 0
    BY <2>1, Parameters
  <2>2. CASE left # 0
    <3>1. \A k \in 0 .. Period - 1 : k < Period - left => f[k] < n
      BY <2>2, <1>2 DEF Remembers
    <3> QED BY <2>2, <3>1, <1>1
  <2> QED BY <2>1, <2>2
<1>5. g[Period - 1] < hits + m /\ g[Period - 1] < 2 * m
  <2>1. CASE left = 0
    <3>1. f[Period - 1] < m
      BY <2>1, <1>2 DEF Remembers
    <3> QED BY <2>1, <3>1, <1>1, <1>2
  <2>2. CASE left # 0
    <3>1. f[Period - 1] < n + m
      BY <2>2, <1>2 DEF Remembers
    <3> QED BY <2>2, <3>1, <1>1, <1>2
  <2> QED BY <2>1, <2>2
<1> HIDE DEF g, open
<1>6. Remembers(m, hits, open, g)
  BY <1>2, <1>3, <1>4, <1>5, Parameters DEF Remembers
<1> QED BY <1>6 DEF g, open

\* A request that is turned away: only the counter moves.
LEMMA RefuseRemembers ==
  ASSUME NEW m \in Int, NEW n \in Nat, NEW left \in 0 .. Period, NEW f \in Totals,
         Remembers(m, n, left, f), left = 0 => n = 0,
         NEW hits \in Nat, hits = IF left = 0 THEN 1 ELSE n + 1, hits > m
  PROVE  Remembers(m, hits, IF left = 0 THEN Period ELSE left, f)
<1>1. \A k \in 0 .. Period - 1 : f[k] \in Nat
  BY DEF Totals
<1>2. Period - 1 \in 0 .. Period - 1
  BY Parameters
<1>3. CASE m <= 0
  BY <1>3, Parameters DEF Remembers
<1>4. CASE m > 0
  <2>1. left > 0 /\ hits = n + 1
    BY <1>4
  <2> QED BY <1>1, <1>2, <1>4, <2>1 DEF Remembers
<1> QED BY <1>3, <1>4

\* A tick: what the window had not yet forgotten moves back by one.
LEMMA TickRemembers ==
  ASSUME NEW m \in Int, NEW n \in Nat, NEW left \in 0 .. Period, NEW f \in Totals,
         Remembers(m, n, left, f)
  PROVE  Remembers(m, IF left <= 1 THEN 0 ELSE n, IF left <= 1 THEN 0 ELSE left - 1,
                   [k \in 0 .. Period - 1 |-> IF k = 0 THEN 0 ELSE f[k - 1]])
<1> DEFINE g == [k \in 0 .. Period - 1 |-> IF k = 0 THEN 0 ELSE f[k - 1]]
           rest == IF left <= 1 THEN 0 ELSE left - 1
           held == IF left <= 1 THEN 0 ELSE n
           last == Period - 1
<1>1. \A k \in 0 .. last : f[k] \in Nat
  BY DEF Totals
<1>2. last \in 0 .. last /\ last \in Nat
  BY Parameters
<1>3. /\ g[0] = 0
      /\ \A k \in 1 .. last : k - 1 \in 0 .. last /\ g[k] = f[k - 1]
      /\ \A k \in 0 .. last : g[k] \in Nat /\ g[k] <= f[k]
  <2>1. 0 \in 0 .. last /\ g[0] = 0
    BY <1>2
  <2>2. ASSUME NEW k \in 1 .. last PROVE k - 1 \in 0 .. last /\ k \in 0 .. last /\ g[k] = f[k - 1]
    BY <1>2
  <2>3. ASSUME NEW k \in 0 .. last PROVE g[k] \in Nat /\ g[k] <= f[k]
    <3>1. CASE k = 0
      BY <1>1, <2>1, <3>1
    <3>2. CASE k # 0
      <4>1. k \in 1 .. last /\ k - 1 <= k
        BY <3>2
      <4>2. k - 1 \in 0 .. last /\ g[k] = f[k - 1]
        BY <2>2, <4>1
      <4>3. f[k - 1] <= f[k]
        BY <4>1, <4>2 DEF Remembers
      <4> QED BY <1>1, <4>2, <4>3
    <3> QED BY <3>1, <3>2
  <2> QED BY <2>1, <2>2, <2>3
<1>4. f[last] \in Nat /\ g[last] \in Nat /\ g[last] <= f[last]
  BY <1>1, <1>2, <1>3
<1>5. \A j, k \in 0 .. last : j <= k => g[j] <= g[k]
  <2> SUFFICES ASSUME NEW j \in 0 .. last, NEW k \in 0 .. last, j <= k PROVE g[j] <= g[k]
    OBVIOUS
  <2>1. CASE j = 0
    BY <1>3, <2>1
  <2>2. CASE j # 0
    <3>1. j \in 1 .. last /\ k \in 1 .. last /\ j - 1 <= k - 1
      BY <2>2
    <3>2. f[j - 1] <= f[k - 1]
      BY <1>3, <3>1 DEF Remembers
    <3> QED BY <1>3, <3>1, <3>2
  <2> QED BY <2>1, <2>2
<1>6. ASSUME m <= 0 PROVE g[last] = 0
  <2>1. f[last] = 0
    BY <1>6 DEF Remembers
  <2> QED BY <1>4, <2>1
<1>7. m > 0 /\ rest = 0 => g[last] < m
  <2> SUFFICES ASSUME m > 0, left <= 1 PROVE g[last] < m
    BY <1>2
  <2>1. CASE left = 0
    <3>1. f[last] < m
      BY <2>1 DEF Remembers
    <3> QED BY <1>4, <3>1
  <2>2. CASE left = 1 /\ last = 0
    BY <1>3, <2>2
  <2>3. CASE left = 1 /\ last # 0
    <3>1. last \in 1 .. last /\ last - 1 \in 0 .. last /\ last - 1 < Period - left
      BY <1>2, <2>3, Parameters
    <3>2. f[last - 1] < m
      BY <2>3, <3>1 DEF Remembers
    <3> QED BY <1>3, <3>1, <3>2
  <2> QED BY <2>1, <2>2, <2>3
<1>8. m > 0 /\ rest > 0 =>
        /\ held > 0
        /\ \A k \in 0 .. last : k < Period - rest => g[k] < held /\ g[k] < m
        /\ g[last] < held + m /\ g[last] < 2 * m
  <2> SUFFICES ASSUME m > 0, left > 1
               PROVE /\ n > 0
                     /\ \A k \in 0 .. last : k < Period - (left - 1) => g[k] < n /\ g[k] < m
                     /\ g[last] < n + m /\ g[last] < 2 * m
    OBVIOUS
  <2>1. /\ n > 0
        /\ \A k \in 0 .. last : k < Period - left => f[k] < n /\ f[k] < m
        /\ f[last] < n + m /\ f[last] < 2 * m
    BY DEF Remembers
  <2>2. ASSUME NEW k \in 0 .. last, k < Period - (left - 1) PROVE g[k] < n /\ g[k] < m
    <3>1. CASE k = 0
      BY <1>3, <2>1, <3>1
    <3>2. CASE k # 0
      <4>1. k \in 1 .. last /\ k - 1 \in 0 .. last /\ k - 1 < Period - left
        BY <2>2, <3>2, Parameters
      <4> QED BY <1>3, <2>1, <4>1
    <3> QED BY <3>1, <3>2
  <2>3. g[last] < n + m /\ g[last] < 2 * m
    BY <1>4, <2>1
  <2> QED BY <2>1, <2>2, <2>3
<1> HIDE DEF g, rest, held
<1>9. Remembers(m, held, rest, g)
  BY <1>5, <1>6, <1>7, <1>8 DEF Remembers
<1> QED BY <1>9 DEF g, rest, held

-----------------------------------------------------------------------------
(* The inductive invariant, one action at a time.                          *)

\* Most actions leave the limiter alone.
LEMMA SameWindows ==
  ASSUME Windows, UNCHANGED <<cfg, limiter>>,
         proc \in {"serve", "drain"} => proc' \in {"serve", "drain"}
  PROVE  Windows'
BY DEF Windows, Remembers

\* The initial state satisfies the inductive invariant.
LEMMA InitIInv == Init => IInv
<1> SUFFICES ASSUME Init PROVE IInv
  OBVIOUS
<1>1. TypeOK
  <2>1. version \in 0 .. Last /\ drain \in 0 .. Drain
    BY Parameters DEF Init
  <2>2. window \in [Client -> [count : Nat, left : 0 .. Period]]
        /\ recent \in [Client -> [0 .. Period - 1 -> Nat]]
    BY QuietType DEF Init
  <2>3. \A c \in Client : window[c].count = 0
    BY DEF Init, Closed
  <2> QED BY <2>1, <2>2, <2>3 DEF Init, TypeOK, Stage
<1>2. AppliedInOrder
  BY Parameters DEF Init, AppliedInOrder, File
<1>3. Windows
  <2>1. \A c \in Client : window[c] = Closed /\ recent[c] = Quiet
    BY DEF Init
  <2>2. cfg.limit \in Int
    BY Parameters DEF Init
  <2> QED BY <2>1, <2>2, QuietRemembers DEF Windows, Closed
<1> QED BY <1>1, <1>2, <1>3 DEF IInv, Init, StageKnows, Validated

\* Stop: whatever ends the process leaves the schema as it is.
LEMMA StopKeeps == ASSUME IInv, Stop PROVE IInv'
<1> USE DEF IInv
<1>1. TypeOK'
  BY QuietType, Parameters DEF Stop, TypeOK, Stage, Closed
<1>2. AppliedInOrder'
  BY DEF Stop, AppliedInOrder
<1>3. Windows'
  <2>1. \A c \in Client : window'[c] = Closed /\ recent'[c] = Quiet
    BY DEF Stop
  <2>2. cfg'.limit \in Int
    BY Parameters DEF Stop, TypeOK
  <2> QED BY <2>1, <2>2, QuietRemembers DEF Windows, Closed
<1> QED BY <1>1, <1>2, <1>3 DEF Stop, StageKnows, Validated

\* Load: the configuration was validated.
LEMMA LoadKeeps == ASSUME IInv, NEW s \in Settings, Load(s) PROVE IInv'
<1> USE DEF IInv
<1>1. TypeOK'
  BY DEF Load, TypeOK, Stage
<1>2. AppliedInOrder'
  BY DEF Load, AppliedInOrder
<1>3. Validated'
  BY DEF Load, Validated, validate, Duration
<1>4. Windows'
  <2>1. \A c \in Client : window'[c] = Closed /\ recent'[c] = Quiet
    BY DEF Load, Windows
  <2>2. cfg'.limit \in Int
    BY Parameters DEF Load
  <2> QED BY <2>1, <2>2, QuietRemembers DEF Windows, Closed
<1> QED BY <1>1, <1>2, <1>3, <1>4 DEF Load, StageKnows

\* Connect changes nothing but the stage.
LEMMA ConnectKeeps == ASSUME IInv, Connect PROVE IInv'
<1> USE DEF IInv
<1>1. CASE Fatal("connect")
  BY <1>1, StopKeeps DEF Fatal
<1>2. CASE proc = "connect" /\ Enter("migrate") /\ UNCHANGED schema
  <2>1. TypeOK' /\ AppliedInOrder'
    BY <1>2 DEF Enter, TypeOK, Stage, AppliedInOrder
  <2>2. Validated'
    BY <1>2 DEF Enter, Validated, validate, Duration
  <2>3. Windows'
    BY <1>2, SameWindows DEF Enter
  <2> QED BY <1>2, <2>1, <2>2, <2>3 DEF Enter, StageKnows
<1> QED BY <1>1, <1>2 DEF Connect

\* Up: a file is begun only when all before it are applied and recorded.
LEMMA UpKeeps == ASSUME IInv, Up PROVE IInv'
<1> USE DEF IInv
<1>1. CASE dirty /\ Fatal("migrate")
  BY <1>1, StopKeeps DEF Fatal
<1>2. CASE proc = "migrate" /\ ~dirty /\ version = Last /\ Enter("wire") /\ UNCHANGED schema
  <2>1. TypeOK' /\ AppliedInOrder'
    BY <1>2 DEF Enter, TypeOK, Stage, AppliedInOrder
  <2>2. Validated'
    BY <1>2 DEF Enter, Validated, validate, Duration
  <2>3. Windows'
    BY <1>2, SameWindows DEF Enter
  <2> QED BY <1>2, <2>1, <2>2, <2>3 DEF Enter, StageKnows
<1>3. CASE /\ proc = "migrate" /\ ~dirty /\ version < Last
           /\ version' = version + 1 /\ dirty' = TRUE
           /\ Enter("apply") /\ UNCHANGED applied
  <2>1. TypeOK'
    BY <1>3, Parameters DEF Enter, TypeOK, Stage
  <2>2. AppliedInOrder' /\ applied'[version'] = 0
    BY <1>3, Parameters DEF Enter, TypeOK, AppliedInOrder, File
  <2>3. Validated'
    BY <1>3 DEF Enter, Validated, validate, Duration
  <2>4. Windows'
    BY <1>3, SameWindows DEF Enter
  <2> QED BY <1>3, <2>1, <2>2, <2>3, <2>4 DEF Enter, StageKnows, TypeOK
<1> QED BY <1>1, <1>2, <1>3 DEF Up

\* ApplyFile: the file was not applied before.
LEMMA ApplyFileKeeps == ASSUME IInv, ApplyFile PROVE IInv'
<1> USE DEF IInv
<1>1. CASE Fatal("apply")
  BY <1>1, StopKeeps DEF Fatal
<1>2. CASE /\ proc = "apply"
           /\ applied' = [applied EXCEPT ![version] = @ + 1]
           /\ Enter("record") /\ UNCHANGED <<version, dirty>>
  <2>1. version \in File
    BY <1>2, Parameters DEF TypeOK, StageKnows, File
  <2>2. TypeOK'
    BY <1>2, <2>1 DEF Enter, TypeOK, Stage
  <2>3. AppliedInOrder' /\ applied'[version] = 1
    BY <1>2, <2>1 DEF Enter, TypeOK, AppliedInOrder, StageKnows
  <2>4. Validated'
    BY <1>2 DEF Enter, Validated, validate, Duration
  <2>5. Windows'
    BY <1>2, SameWindows DEF Enter
  <2> QED BY <1>2, <2>2, <2>3, <2>4, <2>5 DEF Enter, StageKnows
<1> QED BY <1>1, <1>2 DEF ApplyFile

\* RecordVersion: the version that loses its flag is that of an applied file.
LEMMA RecordVersionKeeps == ASSUME IInv, RecordVersion PROVE IInv'
<1> USE DEF IInv
<1>1. CASE Fatal("record")
  BY <1>1, StopKeeps DEF Fatal
<1>2. CASE proc = "record" /\ dirty' = FALSE /\ Enter("migrate") /\ UNCHANGED <<version, applied>>
  <2>1. TypeOK'
    BY <1>2 DEF Enter, TypeOK, Stage
  <2>2. AppliedInOrder'
    BY <1>2 DEF Enter, TypeOK, AppliedInOrder, StageKnows
  <2>3. Validated'
    BY <1>2 DEF Enter, Validated, validate, Duration
  <2>4. Windows'
    BY <1>2, SameWindows DEF Enter
  <2> QED BY <1>2, <2>1, <2>2, <2>3, <2>4 DEF Enter, StageKnows
<1> QED BY <1>1, <1>2 DEF RecordVersion

\* Wire: no server without its keys.
LEMMA WireKeeps == ASSUME IInv, Wire PROVE IInv'
<1> USE DEF IInv
<1>1. CASE Fatal("wire")
  BY <1>1, StopKeeps DEF Fatal
<1>2. CASE proc = "wire" /\ cfg.keys /\ Enter("serve") /\ UNCHANGED schema
  <2>1. TypeOK' /\ AppliedInOrder'
    BY <1>2 DEF Enter, TypeOK, Stage, AppliedInOrder
  <2>2. Validated'
    BY <1>2 DEF Enter, Validated, validate, Duration
  <2>3. Windows'
    BY <1>2, SameWindows DEF Enter
  <2> QED BY <1>2, <2>1, <2>2, <2>3 DEF Enter, StageKnows
<1> QED BY <1>1, <1>2 DEF Wire

\* Arrive touches the limiter and the handlers only.
LEMMA ArriveKeeps ==
  ASSUME IInv, NEW r \in Request, NEW c \in Client, Arrive(r, c) PROVE IInv'
<1> USE DEF IInv
<1>1. window' \in [Client -> [count : Nat, left : 0 .. Period]]
      /\ \A d \in Client : window'[d].left = 0 => window'[d].count = 0
  <2>1. window[c].count \in Nat /\ window[c].left \in 0 .. Period
    BY DEF TypeOK
  <2>2. Hits(c) \in Nat
    BY <2>1 DEF Hits
  <2>3. PICK w \in [count : Nat, left : 1 .. Period] : window' = [window EXCEPT ![c] = w]
    <3> DEFINE left == IF window[c].left = 0 THEN Period ELSE window[c].left
    <3>1. left \in 1 .. Period
      BY <2>1, Parameters
    <3>2. window' = [window EXCEPT ![c] = [count |-> Hits(c), left |-> left]]
      BY DEF Arrive, RateLimiter, Count
    <3> HIDE DEF left
    <3> QED BY <2>2, <3>1, <3>2
  <2>4. w \in [count : Nat, left : 0 .. Period] /\ w.left # 0
    BY <2>3, Parameters
  <2>5. window' \in [Client -> [count : Nat, left : 0 .. Period]]
    BY <2>3, <2>4 DEF TypeOK
  <2>6. window'[c] = w /\ \A d \in Client \ {c} : window'[d] = window[d]
    BY <2>3 DEF TypeOK
  <2>7. \A d \in Client : window[d].left = 0 => window[d].count = 0
    BY DEF TypeOK
  <2>8. ASSUME NEW d \in Client PROVE window'[d].left = 0 => window'[d].count = 0
    <3>1. CASE d = c
      BY <2>4, <2>6, <3>1
    <3>2. CASE d # c
      BY <2>6, <2>7, <3>2
    <3> QED BY <3>1, <3>2
  <2> QED BY <2>5, <2>8
<1>2. inflight' \subseteq Request
  BY DEF Arrive, RateLimiter, TypeOK
<1>3. recent' \in [Client -> [0 .. Period - 1 -> Nat]]
  <2>1. \A k \in 0 .. Period - 1 : recent[c][k] + 1 \in Nat
    <3>1. recent[c] \in [0 .. Period - 1 -> Nat]
      BY DEF TypeOK
    <3>2. \A k \in 0 .. Period - 1 : recent[c][k] \in Nat
      BY <3>1
    <3> QED BY <3>2
  <2>2. \/ recent' = recent
        \/ recent' = [recent EXCEPT ![c] = [k \in 0 .. Period - 1 |-> recent[c][k] + 1]]
    BY DEF Arrive, RateLimiter
  <2>3. [k \in 0 .. Period - 1 |-> recent[c][k] + 1] \in [0 .. Period - 1 -> Nat]
    BY <2>1
  <2> QED BY <2>2, <2>3 DEF TypeOK
<1>4. TypeOK'
  BY <1>1, <1>2, <1>3 DEF Arrive, TypeOK
<1>5. AppliedInOrder'
  BY DEF Arrive, AppliedInOrder
<1>6. Validated'
  BY DEF Arrive, Validated, validate, Duration
<1>7. Windows'
  <2>1. cfg.limit \in Int /\ cfg' = cfg /\ proc' = proc /\ proc \in {"serve", "drain"}
    BY Parameters DEF Arrive, TypeOK
  <2>2. ASSUME NEW d \in Client, d # c
        PROVE  Remembers(cfg'.limit, window'[d].count, window'[d].left, recent'[d])
    <3>1. window'[d] = window[d] /\ recent'[d] = recent[d]
      BY <2>2 DEF Arrive, RateLimiter, Count, TypeOK
    <3> QED BY <2>1, <3>1 DEF Windows
  <2>3. Remembers(cfg'.limit, window'[c].count, window'[c].left, recent'[c])
    <3> DEFINE n == window[c].count
               left == window[c].left
               open == IF left = 0 THEN Period ELSE left
    <3>1. n \in Nat /\ left \in 0 .. Period /\ (left = 0 => n = 0) /\ recent[c] \in Totals
      BY DEF TypeOK, Totals
    <3>2. Hits(c) \in Nat /\ Hits(c) = IF left = 0 THEN 1 ELSE n + 1
      BY <3>1 DEF Hits
    <3>3. window'[c].count = Hits(c) /\ window'[c].left = open
      BY DEF Arrive, RateLimiter, Count, TypeOK
    <3>4. Remembers(cfg.limit, n, left, recent[c])
      BY DEF Windows
    <3>5. CASE Hits(c) > cfg.limit /\ recent' = recent
      <4> HIDE DEF n, left
      <4>1. Remembers(cfg.limit, Hits(c), open, recent[c])
        BY <2>1, <3>1, <3>2, <3>4, <3>5, RefuseRemembers
      <4> QED BY <2>1, <3>3, <3>5, <4>1
    <3>6. CASE /\ Hits(c) <= cfg.limit
               /\ recent' = [recent EXCEPT ![c] = [k \in 0 .. Period - 1 |-> @[k] + 1]]
      <4>1. recent'[c] = [k \in 0 .. Period - 1 |-> recent[c][k] + 1]
        BY <3>6 DEF TypeOK
      <4> HIDE DEF n, left
      <4>2. Remembers(cfg.limit, Hits(c), open, [k \in 0 .. Period - 1 |-> recent[c][k] + 1])
        BY <2>1, <3>1, <3>2, <3>4, <3>6, AdmitRemembers
      <4> QED BY <2>1, <3>3, <4>1, <4>2
    <3> QED BY <3>5, <3>6 DEF Arrive, RateLimiter
  <2> QED BY <2>1, <2>2, <2>3 DEF Windows
<1> QED BY <1>4, <1>5, <1>6, <1>7 DEF Arrive, StageKnows

\* Answer and Signal: nothing but a handler or the stage changes.
LEMMA AnswerOrSignalKeeps ==
  ASSUME IInv, (\E r \in Request : Answer(r)) \/ Signal PROVE IInv'
<1> USE DEF IInv
<1>1. CASE \E r \in Request : Answer(r)
  <2>1. TypeOK' /\ AppliedInOrder'
    BY <1>1 DEF Answer, TypeOK, AppliedInOrder
  <2>2. Validated'
    BY <1>1 DEF Answer, Validated, validate, Duration
  <2>3. Windows'
    BY <1>1, SameWindows DEF Answer
  <2> QED BY <1>1, <2>1, <2>2, <2>3 DEF Answer, StageKnows
<1>2. CASE Signal
  <2>1. TypeOK' /\ AppliedInOrder'
    BY <1>2, Parameters DEF Signal, TypeOK, Stage, AppliedInOrder
  <2>2. Validated'
    BY <1>2 DEF Signal, Validated, validate, Duration
  <2>3. Windows'
    BY <1>2, SameWindows DEF Signal
  <2> QED BY <1>2, <2>1, <2>2, <2>3 DEF Signal, StageKnows
<1> QED BY <1>1, <1>2

\* Repair: the flag is cleared to agree with the file's transaction.
LEMMA RepairKeeps == ASSUME IInv, Repair PROVE IInv'
<1> USE DEF IInv
<1>1. version \in File
  BY Parameters DEF Repair, TypeOK, StageKnows, File
<1>2. TypeOK'
  <2>1. version' \in 0 .. Last
    BY <1>1, Parameters DEF Repair, File
  <2> QED BY <2>1 DEF Repair, TypeOK
<1>3. AppliedInOrder'
  <2>1. CASE applied[version] > 0
    BY <1>1, <2>1, Parameters DEF Repair, TypeOK, AppliedInOrder, File
  <2>2. CASE ~(applied[version] > 0)
    BY <1>1, <2>2, Parameters DEF Repair, TypeOK, AppliedInOrder, File
  <2> QED BY <2>1, <2>2
<1>4. Windows'
  BY SameWindows DEF Repair
<1> QED BY <1>2, <1>3, <1>4 DEF Repair, StageKnows, Validated

\* Tick moves the clocks only.
LEMMA TickKeeps == ASSUME IInv, Tick PROVE IInv'
<1> USE DEF IInv
<1>1. window' \in [Client -> [count : Nat, left : 0 .. Period]]
      /\ \A d \in Client : window'[d].left = 0 => window'[d].count = 0
  <2>1. ASSUME NEW d \in Client
        PROVE window'[d] \in [count : Nat, left : 0 .. Period]
              /\ (window'[d].left = 0 => window'[d].count = 0)
    <3>1. window[d] \in [count : Nat, left : 0 .. Period]
      BY DEF TypeOK
    <3>2. CASE window[d].left <= 1
      BY <3>1, <3>2, Parameters DEF Tick, Closed
    <3>3. CASE ~(window[d].left <= 1)
      <4>1. window'[d] = [window[d] EXCEPT !.left = @ - 1]
        BY <3>3 DEF Tick
      <4>2. window[d].left - 1 \in 1 .. Period
        BY <3>1, <3>3, Parameters
      <4> QED BY <3>1, <4>1, <4>2
    <3> QED BY <3>2, <3>3
  <2>2. window' = [d \in Client |-> window'[d]]
    BY DEF Tick
  <2> QED BY <2>1, <2>2
<1>2. recent' \in [Client -> [0 .. Period - 1 -> Nat]]
  <2>1. ASSUME NEW c \in Client, NEW k \in 0 .. Period - 1, k # 0 PROVE recent[c][k - 1] \in Nat
    <3>1. k - 1 \in 0 .. Period - 1
      BY <2>1, Parameters
    <3> QED BY <3>1 DEF TypeOK
  <2>2. \A c \in Client :
          [k \in 0 .. Period - 1 |-> IF k = 0 THEN 0 ELSE recent[c][k - 1]]
            \in [0 .. Period - 1 -> Nat]
    BY <2>1
  <2> QED BY <2>2 DEF Tick
<1>3. TypeOK'
  <2>1. drain' \in 0 .. Drain
    BY Parameters DEF Tick, TypeOK
  <2> QED BY <1>1, <1>2, <2>1 DEF Tick, TypeOK
<1>4. AppliedInOrder'
  BY DEF Tick, AppliedInOrder
<1>5. Validated'
  BY DEF Tick, Validated, validate, Duration
<1>6. Windows'
  <2>1. cfg.limit \in Int /\ cfg' = cfg /\ proc' = proc /\ proc \in {"serve", "drain"}
    BY Parameters DEF Tick, TypeOK
  <2>2. ASSUME NEW c \in Client
        PROVE  Remembers(cfg.limit, window'[c].count, window'[c].left, recent'[c])
    <3> DEFINE n == window[c].count
               left == window[c].left
    <3>1. n \in Nat /\ left \in 0 .. Period /\ recent[c] \in Totals
      BY DEF TypeOK, Totals
    <3>2. /\ window'[c].count = IF left <= 1 THEN 0 ELSE n
          /\ window'[c].left = IF left <= 1 THEN 0 ELSE left - 1
      <4>1. window[c] \in [count : Nat, left : 0 .. Period]
        BY DEF TypeOK
      <4> QED BY <4>1 DEF Tick, Closed
    <3>3. recent'[c] = [k \in 0 .. Period - 1 |-> IF k = 0 THEN 0 ELSE recent[c][k - 1]]
      BY DEF Tick
    <3>4. Remembers(cfg.limit, n, left, recent[c])
      BY DEF Windows
    <3> HIDE DEF n, left
    <3> QED BY <2>1, <3>1, <3>2, <3>3, <3>4, TickRemembers
  <2> QED BY <2>1, <2>2 DEF Windows
<1> QED BY <1>3, <1>4, <1>5, <1>6 DEF Tick, StageKnows

\* Every step preserves the inductive invariant.
LEMMA NextIInv == IInv /\ [Next]_vars => IInv'
<1> SUFFICES ASSUME IInv, [Next]_vars PROVE IInv'
  OBVIOUS
<1>1. CASE UNCHANGED vars
  <2> USE <1>1 DEF vars, IInv
  <2>1. TypeOK' /\ AppliedInOrder' /\ StageKnows'
    BY DEF TypeOK, AppliedInOrder, StageKnows
  <2>2. Validated'
    BY DEF Validated, validate, Duration
  <2>3. Windows'
    BY SameWindows
  <2> QED BY <2>1, <2>2, <2>3
<1>2. CASE \E s \in Settings : Load(s)
  BY <1>2, LoadKeeps
<1>3. CASE Start
  BY <1>3, ConnectKeeps, UpKeeps, ApplyFileKeeps, RecordVersionKeeps, WireKeeps DEF Start
<1>4. CASE \E r \in Request, c \in Client : Arrive(r, c)
  BY <1>4, ArriveKeeps
<1>5. CASE (\E r \in Request : Answer(r)) \/ Signal
  BY <1>5, AnswerOrSignalKeeps
<1>6. CASE Shutdown \/ Crash
  BY <1>6, StopKeeps DEF Shutdown, Fatal, Crash
<1>7. CASE Repair
  BY <1>7, RepairKeeps
<1>8. CASE Tick
  BY <1>8, TickKeeps
<1> QED BY <1>1, <1>2, <1>3, <1>4, <1>5, <1>6, <1>7, <1>8 DEF Next

-----------------------------------------------------------------------------
\* Every reachable state satisfies the inductive invariant.
LEMMA Invariance == Spec => []IInv
BY InitIInv, NextIInv, PTL DEF Spec

\* Every variable has its type, for all settings.
THEOREM TypeCorrect == Spec => []TypeOK
<1>1. IInv => TypeOK
  BY DEF IInv
<1> QED BY Invariance, <1>1, PTL

\* Crashes and restarts, at whatever point and however many, leave a prefix of
\* the migrations applied, each once, and their version right or flagged
\* (postgres.go:45-59).
THEOREM MigrationsInOrder == Spec => []AppliedInOrder
<1>1. IInv => AppliedInOrder
  BY DEF IInv
<1> QED BY Invariance, <1>1, PTL

\* Only a process with the complete schema, a valid configuration and its keys
\* serves requests (main.go:39-124).
THEOREM ReadyToServe == Spec => []ServesWhenReady
<1>1. ASSUME IInv PROVE ServesWhenReady
  <2> SUFFICES ASSUME proc \in {"serve", "drain"}
               PROVE /\ ~dirty /\ \A v \in File : applied[v] = 1
                     /\ cfg.required /\ cfg.keys
                     /\ Duration(cfg.maxAge) \in Duration(Hour) .. Duration(24 * Hour)
    BY DEF ServesWhenReady
  <2>1. ~dirty /\ version = Last /\ validate(cfg) /\ cfg.keys
    BY <1>1 DEF IInv, StageKnows, Validated
  <2>2. \A v \in File : applied[v] = 1
    BY <1>1, <2>1, Parameters DEF IInv, AppliedInOrder, File
  <2>3. Duration(cfg.maxAge) \in Int /\ Duration(Hour) \in Int /\ Duration(24 * Hour) \in Int
    BY <1>1, Parameters DEF IInv, TypeOK, Duration
  <2> QED BY <2>1, <2>2, <2>3 DEF validate
<1> QED BY Invariance, <1>1, PTL

\* Wherever a minute begins, fewer than twice the configured number of requests of
\* a client are admitted in it, and none if that number is not positive, for every
\* period, every limit and every way requests arrive (ratelimit.go:16-46).
THEOREM MinuteIsBounded == Spec => []SlidingMinute
<1>1. ASSUME IInv PROVE SlidingMinute
  <2> SUFFICES ASSUME NEW c \in Client
               PROVE  IF cfg.limit > 0 THEN recent[c][Period - 1] < 2 * cfg.limit
                                       ELSE recent[c][Period - 1] = 0
    BY DEF SlidingMinute
  <2>1. cfg.limit \in Int /\ window[c].left \in 0 .. Period /\ recent[c] \in Totals
    BY <1>1, Parameters DEF IInv, TypeOK, Totals
  <2>2. recent[c][Period - 1] \in Nat
    BY <2>1, Parameters DEF Totals
  <2> QED BY <1>1, <2>1, <2>2 DEF IInv, Windows, Remembers
<1> QED BY Invariance, <1>1, PTL

-----------------------------------------------------------------------------
(* The lifetime of a session, which is checked after its conversion.       *)

\* A number below the modulus is its own remainder.
LEMMA SmallRemainder == \A b \in Nat \ {0} : \A a \in 0 .. b - 1 : a % b = a
OBVIOUS

\* The conversion is exact as long as it fits in 64 bits.
LEMMA DurationExact ==
  ASSUME NEW n \in Int, n * Second \in -Word .. Word - 1
  PROVE  Duration(n) = n * Second
<1> DEFINE a == n * Second + Word
           b == 2 * Word
<1>1. n * Second \in Int
  BY Parameters
<1>2. b \in Nat \ {0} /\ a \in 0 .. b - 1 /\ a - Word = n * Second
  BY <1>1, Parameters
<1> HIDE DEF a, b
<1>3. a % b = a
  BY <1>2, SmallRemainder
<1> QED BY <1>2, <1>3 DEF Duration, a, b

\* Comparing two products by the same positive number.
LEMMA Unscale == \A a, b \in Int : \A k \in Nat \ {0} : a * k <= b * k => a <= b
<1> SUFFICES ASSUME NEW a \in Int, NEW b \in Int, NEW k \in Nat \ {0}, b < a PROVE b * k < a * k
  BY SMT
<1>1. PICK d \in Nat : d > 0 /\ a = b + d
  <2>1. a - b \in Nat /\ a - b > 0 /\ a = b + (a - b)
    OBVIOUS
  <2> QED BY <2>1
<1>2. a * k = b * k + d * k
  BY <1>1
<1>3. b * k \in Int /\ d * k \in Int
  BY <1>1
<1>4. d * k > 0
  BY <1>1
<1> QED BY <1>2, <1>3, <1>4

\* Without an overflow, validate accepts exactly the lifetimes of 1 to 24 hours.
LEMMA AcceptedLifetimes ==
  ASSUME NEW s \in Settings, s.maxAge * Second \in -Word .. Word - 1
  PROVE  validate(s) <=> s.required /\ s.maxAge \in Hour .. 24 * Hour
<1> DEFINE n == s.maxAge
           day == 24 * Hour
<1>1. n \in Int /\ Hour \in Int /\ day \in Int /\ Second \in Nat \ {0}
  BY Parameters
<1>2. Hour * Second \in -Word .. Word - 1 /\ day * Second \in -Word .. Word - 1
  <2>1. day * Second < Word /\ Hour * Second >= 0 /\ day * Second = 24 * (Hour * Second)
    BY Parameters, ServerAssumption
  <2>2. Hour * Second \in Int
    BY Parameters
  <2> QED BY <2>1, <2>2, Parameters
<1> HIDE DEF day
<1>3. Duration(n) = n * Second /\ Duration(Hour) = Hour * Second /\ Duration(day) = day * Second
  BY <1>1, <1>2, DurationExact
<1>4. /\ Hour * Second <= n * Second <=> Hour <= n
      /\ n * Second <= day * Second <=> n <= day
  <2>1. /\ Hour * Second <= n * Second => Hour <= n
        /\ n * Second <= day * Second => n <= day
    BY <1>1, Unscale
  <2>2. /\ n * Second <= Hour * Second => n <= Hour
        /\ day * Second <= n * Second => day <= n
    BY <1>1, Unscale
  <2> QED BY <1>1, <2>1, <2>2
<1>5. validate(s) <=> s.required /\ Hour * Second <= n * Second /\ n * Second <= day * Second
  BY <1>1, <1>3 DEF validate, day
<1> QED BY <1>1, <1>4, <1>5 DEF day

\* Whatever is served is served with a session lifetime of 1 to 24 hours, in the
\* unit of the environment variable, unless the conversion to nanoseconds wrapped
\* around: only then does a lifetime out of range pass (config.go:213-216).
THEOREM LifetimeInRange ==
  Spec => [](/\ proc \in {"serve", "drain"}
             /\ cfg.maxAge * Second \in -Word .. Word - 1
             => cfg.maxAge \in Hour .. 24 * Hour)
<1>1. ASSUME IInv PROVE /\ proc \in {"serve", "drain"}
                        /\ cfg.maxAge * Second \in -Word .. Word - 1
                        => cfg.maxAge \in Hour .. 24 * Hour
  BY <1>1, AcceptedLifetimes DEF IInv, TypeOK, Validated
<1> QED BY Invariance, <1>1, PTL
=============================================================================
