------------------------- MODULE BackChannelProofs -------------------------
(***************************************************************************)
(* Theorems about BackChannel: for any number of sessions and endpoints,   *)
(* any timeout and any number of retries, a logout waits no longer than    *)
(* one delivery that fails in every attempt, its verdicts are earned, and  *)
(* the fan-out implements Notification.                                    *)
(***************************************************************************)
EXTENDS BackChannel, TLAPS

\* Six times the latest end of attempt k: k timeouts, and the pauses 1, 4, 9, ...
\* between them.
Latest(k) == 6 * (k * Timeout) + ((k - 1) * k) * (2 * k - 1)

\* When each delivery began what it is doing.
Timely(d) ==
  /\ phase[d] \in {"spawned", "logging"} => now = 0
  /\ phase[d] \in {"posting", "sleeping"} => attempt[d] \in Attempt /\ now <= due[d]
  /\ phase[d] = "posting" => due[d] <= now + Timeout /\ 6 * due[d] <= Latest(attempt[d])
  /\ phase[d] = "sleeping" =>
       attempt[d] < MaxRetries /\ 6 * due[d] <= Latest(attempt[d]) + 6 * (attempt[d] * attempt[d])

\* What the outcome of a delivery says of its POSTs.
Earned(d) ==
  /\ phase[d] \in {"none", "spawned", "logging"} => \A k \in Attempt : wire[d][k] = "unsent"
  /\ phase[d] \in {"posting", "sleeping"} =>
       \A k \in Attempt : k <= attempt[d] <=> wire[d][k] # "unsent"
  /\ result[d] = "delivered" => Received(d)
  /\ result[d] = "failed" => \A k \in Attempt : wire[d][k] # "unsent"

\* How far the outcome is recorded.
Recorded(d) ==
  /\ phase[d] \in {"marking", "done"} <=> result[d] # "pending"
  /\ phase[d] \in {"none", "spawned", "logging"} => audit[d] = "none"
  /\ phase[d] # "done" => audit[d] \in {"none", "pending"}
  /\ result[d] = "unminted" => audit[d] = "none"
  /\ audit[d] \in {"delivered", "failed"} => audit[d] = result[d]
  /\ HasAudit /\ d \notin auditErr /\ result[d] # "unminted" =>
       /\ phase[d] \in {"posting", "sleeping", "marking"} => audit[d] = "pending"
       /\ phase[d] = "done" => audit[d] = result[d]

\* What the state of the request says of its goroutines and of the time.
Called ==
  /\ call = "idle" => now = 0 /\ \A d \in Delivery : phase[d] = "none"
  /\ call = "returned" => AllDone
  /\ call = "killed" => Draining /\ now >= DrainEnds

\* WaitIsBounded, times six.
Ceiling == IF MaxRetries <= 0 THEN now = 0 ELSE 6 * now <= Latest(MaxRetries)

\* The inductive invariant.
IInv ==
  /\ TypeOK /\ Called /\ Ceiling
  /\ \A d \in Delivery : Timely(d) /\ Earned(d) /\ Recorded(d)

-----------------------------------------------------------------------------
\* Products of natural numbers grow with their factors.
LEMMA ProductGrows ==
  ASSUME NEW a \in Nat, NEW b \in Nat, NEW c \in Nat, NEW d \in Nat, a <= b, c <= d
  PROVE  a * c \in Nat /\ a * c <= b * d
<1>1. a * c \in Nat
  OBVIOUS
<1>2. a * c <= b * c
  <2>1. (b - a) * c >= 0
    OBVIOUS
  <2> QED BY <2>1
<1>3. b * c <= b * d
  <2>1. b * (d - c) >= 0
    OBVIOUS
  <2> QED BY <2>1
<1>4. b * c \in Nat /\ b * d \in Nat
  OBVIOUS
<1> QED BY <1>1, <1>2, <1>3, <1>4

\* Latest is a natural number and grows by a pause and a timeout per attempt.
LEMMA LatestGrows ==
  /\ Latest(1) = 6 * Timeout
  /\ \A k \in Attempt :
       /\ Latest(k) \in Nat
       /\ Latest(k + 1) = Latest(k) + 6 * (k * k) + 6 * Timeout
       /\ Latest(k) <= Latest(MaxRetries)
<1>1. Timeout \in Nat /\ MaxRetries \in Int
  BY BackChannelAssumption
<1>2. Latest(1) = 6 * Timeout
  BY <1>1 DEF Latest
<1>3. ASSUME NEW k \in Attempt
      PROVE  /\ Latest(k) \in Nat
             /\ Latest(k + 1) = Latest(k) + 6 * (k * k) + 6 * Timeout
             /\ Latest(k) <= Latest(MaxRetries)
  <2>1. /\ k \in Nat /\ k - 1 \in Nat /\ 2 * k - 1 \in Nat
        /\ MaxRetries \in Nat /\ MaxRetries - 1 \in Nat /\ 2 * MaxRetries - 1 \in Nat
        /\ k <= MaxRetries /\ k - 1 <= MaxRetries - 1 /\ 2 * k - 1 <= 2 * MaxRetries - 1
    BY <1>1 DEF Attempt
  <2>2. k * Timeout \in Nat /\ k * Timeout <= MaxRetries * Timeout
    BY <1>1, <2>1, ProductGrows
  <2>3. (k - 1) * k \in Nat /\ (k - 1) * k <= (MaxRetries - 1) * MaxRetries
    BY <2>1, ProductGrows
  <2>4. (MaxRetries - 1) * MaxRetries \in Nat
    BY <2>1, ProductGrows
  <2>5. /\ ((k - 1) * k) * (2 * k - 1) \in Nat
        /\ ((k - 1) * k) * (2 * k - 1) <= ((MaxRetries - 1) * MaxRetries) * (2 * MaxRetries - 1)
    BY <2>1, <2>3, <2>4, ProductGrows
  <2>6. Latest(k) \in Nat
    BY <2>2, <2>5 DEF Latest
  <2>7. Latest(k) <= Latest(MaxRetries)
    <3>1. MaxRetries * Timeout \in Int /\ ((MaxRetries - 1) * MaxRetries) * (2 * MaxRetries - 1) \in Int
      BY <1>1, <2>1
    <3> QED BY <2>2, <2>5, <3>1 DEF Latest
  <2>8. Latest(k + 1) = Latest(k) + 6 * (k * k) + 6 * Timeout
    <3>1. 6 * ((k + 1) * Timeout) = 6 * (k * Timeout) + 6 * Timeout
      BY <1>1, <2>1
    <3>2. ((k + 1 - 1) * (k + 1)) * (2 * (k + 1) - 1)
            = ((k - 1) * k) * (2 * k - 1) + 6 * (k * k)
      BY <2>1
    <3>3. ((k - 1) * k) * (2 * k - 1) \in Int /\ k * k \in Int /\ k * Timeout \in Int
      BY <1>1, <2>1
    <3> DEFINE A == (k + 1) * Timeout
               B == ((k + 1 - 1) * (k + 1)) * (2 * (k + 1) - 1)
               C == ((k - 1) * k) * (2 * k - 1)
    <3>4. Latest(k + 1) = 6 * A + B
      BY <1>1, <2>1 DEF Latest
    <3>6. Latest(k) = 6 * (k * Timeout) + C
      BY DEF Latest
    <3> HIDE DEF A, B, C
    <3>5. 6 * A = 6 * (k * Timeout) + 6 * Timeout /\ B = C + 6 * (k * k) /\ C \in Int
      BY <3>1, <3>2, <3>3 DEF A, B, C
    <3> QED BY <1>1, <3>3, <3>4, <3>5, <3>6
  <2> QED BY <2>6, <2>7, <2>8
<1> QED BY <1>2, <1>3

\* The ceiling is the bound of WaitIsBounded.
LEMMA CeilingIsWorstCase == ASSUME now \in Nat, Ceiling PROVE WaitIsBounded
<1>1. Timeout \in Nat /\ MaxRetries \in Int
  BY BackChannelAssumption
<1>2. CASE MaxRetries <= 0
  BY <1>2 DEF Ceiling, WaitIsBounded, WorstCase
<1>3. CASE ~(MaxRetries <= 0)
  <2> DEFINE X == (MaxRetries - 1) * MaxRetries * (2 * MaxRetries - 1)
             Y == MaxRetries * Timeout
  <2>1. X \in Int /\ Y \in Int
    BY <1>1
  <2>2. 6 * (now - Y) <= X
    <3>1. 6 * now <= 6 * Y + X
      BY <1>1, <1>3 DEF Ceiling, Latest
    <3> HIDE DEF X, Y
    <3> QED BY <2>1, <3>1
  <2>3. WorstCase = Y + X \div 6
    BY <1>3 DEF WorstCase
  <2>4. now - Y <= X \div 6
    <3> HIDE DEF X, Y
    <3> QED BY <2>1, <2>2
  <2>5. X \div 6 \in Int
    <3> HIDE DEF X
    <3> QED BY <2>1
  <2> HIDE DEF X, Y
  <2> QED BY <2>1, <2>3, <2>4, <2>5 DEF WaitIsBounded
<1> QED BY <1>2, <1>3

-----------------------------------------------------------------------------
USE DEF outcome

\* The initial state satisfies the inductive invariant.
LEMMA InitIInv == Init => IInv
<1> SUFFICES ASSUME Init PROVE IInv
  OBVIOUS
<1>1. TypeOK
  BY DEF Init, TypeOK, Phase, Wire, Result
<1>2. Called
  BY DEF Init, Called
<1>3. Ceiling
  <2>1. CASE MaxRetries <= 0
    BY <2>1 DEF Init, Ceiling
  <2>2. CASE ~(MaxRetries <= 0)
    <3>1. MaxRetries \in Attempt
      BY <2>2, BackChannelAssumption DEF Attempt
    <3>2. Latest(MaxRetries) \in Nat
      BY <3>1, LatestGrows
    <3> QED BY <2>2, <3>2 DEF Init, Ceiling
  <2> QED BY <2>1, <2>2
<1>4. ASSUME NEW d \in Delivery PROVE Timely(d) /\ Earned(d) /\ Recorded(d)
  BY DEF Init, Timely, Earned, Recorded
<1> QED BY <1>1, <1>2, <1>3, <1>4 DEF IInv

\* A step that neither lets time pass nor touches a delivery keeps what is known
\* of it.
LEMMA Untouched ==
  ASSUME NEW d \in Delivery, Timely(d), Earned(d), Recorded(d),
         now' = now, phase'[d] = phase[d], attempt'[d] = attempt[d], due'[d] = due[d],
         wire'[d] = wire[d], result'[d] = result[d], audit'[d] = audit[d],
         d \in auditErr' <=> d \in auditErr
  PROVE  Timely(d)' /\ Earned(d)' /\ Recorded(d)'
BY DEF Timely, Earned, Recorded, Received

\* A step of a goroutine touches nothing of the others.
LEMMA OthersUntouched ==
  ASSUME TypeOK, NEW d \in Delivery, Goroutine(d) \/ PostBreaks(d),
         NEW e \in Delivery, e # d
  PROVE  /\ now' = now /\ phase'[e] = phase[e] /\ attempt'[e] = attempt[e] /\ due'[e] = due[e]
         /\ wire'[e] = wire[e] /\ result'[e] = result[e] /\ audit'[e] = audit[e]
         /\ e \in auditErr' <=> e \in auditErr
<1> USE DEF TypeOK, Conclude, BeginAttempt, AttemptFailed, Audit
<1>1. CASE MintLogoutToken(d)
  BY <1>1 DEF MintLogoutToken
<1>2. CASE LogDelivery(d)
  BY <1>2 DEF LogDelivery
<1>3. CASE PostReturns(d)
  BY <1>3 DEF PostReturns
<1>4. CASE PostBreaks(d)
  BY <1>4 DEF PostBreaks
<1>5. CASE PostTimesOut(d)
  BY <1>5 DEF PostTimesOut
<1>6. CASE Wake(d)
  BY <1>6 DEF Wake
<1>7. CASE Mark(d)
  BY <1>7 DEF Mark
<1> QED BY <1>1, <1>2, <1>3, <1>4, <1>5, <1>6, <1>7 DEF Goroutine

\* And so it keeps what is known of them.
LEMMA Others ==
  ASSUME IInv, NEW d \in Delivery, Goroutine(d) \/ PostBreaks(d),
         NEW e \in Delivery, e # d
  PROVE  Timely(e)' /\ Earned(e)' /\ Recorded(e)'
BY OthersUntouched, Untouched DEF IInv

\* A step of a goroutine leaves the request waiting and the time alone.
LEMMA StillWaiting ==
  ASSUME IInv, NEW d \in Delivery, Goroutine(d) \/ PostBreaks(d)
  PROVE  call = "waiting" /\ Called' /\ Ceiling'
<1>1. call = "waiting" /\ call' = call /\ now' = now
  BY DEF Goroutine, PostBreaks, MintLogoutToken, LogDelivery, PostReturns, PostTimesOut, Wake,
         Mark, Running
<1> QED BY <1>1 DEF IInv, Called, Ceiling

\* MintLogoutToken: nothing was sent, nothing is recorded.
LEMMA MintLogoutTokenKeeps ==
  ASSUME IInv, NEW d \in Delivery, MintLogoutToken(d) PROVE IInv'
<1>1. TypeOK'
  <2>1. TypeOK /\ now \in Nat
    BY DEF IInv, TypeOK
  <2>2. CASE iat' = [iat EXCEPT ![d] = now] /\ phase' = [phase EXCEPT ![d] = "logging"]
             /\ UNCHANGED <<now, call, attempt, due, wire, outcome, signalled>>
    BY <2>1, <2>2 DEF TypeOK, Phase, outcome
  <2>3. CASE Conclude(d, "unminted") /\ UNCHANGED <<now, call, iat, signalled>>
    BY <2>1, <2>3 DEF Conclude, TypeOK, Phase, Result
  <2> QED BY <2>2, <2>3 DEF MintLogoutToken
<1> USE DEF IInv
<1>2. Timely(d)'
  BY DEF MintLogoutToken, Conclude, TypeOK, Timely
<1>3. Earned(d)'
  BY DEF MintLogoutToken, Conclude, TypeOK, Earned, Received, Recorded
<1>4. Recorded(d)'
  BY DEF MintLogoutToken, Conclude, TypeOK, Recorded
<1> QED BY <1>1, <1>2, <1>3, <1>4, Others, StillWaiting DEF Goroutine

\* BeginAttempt: an attempt that begins when the one before has ended, and its
\* pause is over, ends in time; when the loop ends, every attempt was made.
LEMMA BeginAttemptKeeps ==
  ASSUME IInv, NEW d \in Delivery, NEW k \in Nat \ {0}, BeginAttempt(d, k),
         phase[d] \in {"logging", "sleeping"}, now' = now,
         k <= MaxRetries => 6 * (now + Timeout) <= Latest(k),
         \A j \in Attempt : j < k <=> wire[d][j] # "unsent"
  PROVE  /\ phase' \in [Delivery -> Phase] /\ attempt' \in [Delivery -> Nat]
         /\ due' \in [Delivery -> Nat] /\ result' \in [Delivery -> Result]
         /\ wire' \in [Delivery -> [Attempt -> Wire]]
         /\ Timely(d)' /\ Earned(d)'
         /\ \/ phase'[d] = "posting" /\ result'[d] = "pending"
            \/ phase'[d] = "marking" /\ result'[d] = "failed"
<1> USE DEF IInv
<1>1. result[d] = "pending" /\ Timeout \in Nat /\ MaxRetries \in Int /\ now \in Nat
  BY BackChannelAssumption DEF TypeOK, Recorded
<1>2. CASE /\ k <= MaxRetries
           /\ phase' = [phase EXCEPT ![d] = "posting"]
           /\ attempt' = [attempt EXCEPT ![d] = k]
           /\ due' = [due EXCEPT ![d] = now + Timeout]
           /\ wire' = [wire EXCEPT ![d][k] = "sent"]
           /\ UNCHANGED result
  <2>1. k \in Attempt
    BY <1>1, <1>2 DEF Attempt
  <2>2. /\ phase' \in [Delivery -> Phase] /\ attempt' \in [Delivery -> Nat]
        /\ due' \in [Delivery -> Nat] /\ result' \in [Delivery -> Result]
        /\ wire' \in [Delivery -> [Attempt -> Wire]]
    BY <1>1, <1>2, <2>1 DEF TypeOK, Phase, Wire
  <2>3. phase'[d] = "posting" /\ attempt'[d] = k /\ due'[d] = now + Timeout /\ result'[d] = "pending"
    BY <1>1, <1>2 DEF TypeOK
  <2>4. \A j \in Attempt : wire'[d][j] = IF j = k THEN "sent" ELSE wire[d][j]
    BY <1>2, <2>1 DEF TypeOK
  <2>5. Timely(d)'
    BY <1>1, <1>2, <2>1, <2>3 DEF Timely
  <2>6. Earned(d)'
    BY <2>1, <2>3, <2>4 DEF Earned, Attempt
  <2> QED BY <2>2, <2>3, <2>5, <2>6
<1>3. CASE /\ k > MaxRetries
           /\ phase' = [phase EXCEPT ![d] = "marking"]
           /\ result' = [result EXCEPT ![d] = "failed"]
           /\ UNCHANGED <<attempt, due, wire>>
  <2>1. phase'[d] = "marking" /\ result'[d] = "failed"
    BY <1>3 DEF TypeOK
  <2>2. \A j \in Attempt : j < k
    BY <1>1, <1>3 DEF Attempt
  <2>3. Timely(d)' /\ Earned(d)'
    BY <1>3, <2>1, <2>2 DEF Timely, Earned
  <2> QED BY <1>3, <2>1, <2>3 DEF TypeOK, Phase, Result
<1> QED BY <1>2, <1>3 DEF BeginAttempt

\* LogDelivery: the first attempt begins at once.
LEMMA LogDeliveryKeeps ==
  ASSUME IInv, NEW d \in Delivery, LogDelivery(d) PROVE IInv'
<1> USE DEF IInv
<1>1. phase[d] = "logging" /\ now' = now /\ now = 0 /\ BeginAttempt(d, 1) /\ Audit(d, "pending")
  BY DEF LogDelivery, Timely
<1>2. 1 <= MaxRetries => 6 * (now + Timeout) <= Latest(1)
  BY <1>1, BackChannelAssumption, LatestGrows
<1>3. \A j \in Attempt : j < 1 <=> wire[d][j] # "unsent"
  BY <1>1, BackChannelAssumption DEF Attempt, Earned
<1>4. /\ phase' \in [Delivery -> Phase] /\ attempt' \in [Delivery -> Nat]
      /\ due' \in [Delivery -> Nat] /\ result' \in [Delivery -> Result]
      /\ wire' \in [Delivery -> [Attempt -> Wire]]
      /\ Timely(d)' /\ Earned(d)'
      /\ \/ phase'[d] = "posting" /\ result'[d] = "pending"
         \/ phase'[d] = "marking" /\ result'[d] = "failed"
  BY <1>1, <1>2, <1>3, BeginAttemptKeeps
<1>5. TypeOK'
  BY <1>1, <1>4 DEF LogDelivery, Audit, TypeOK
<1>6. Recorded(d)'
  BY <1>1, <1>4 DEF Audit, TypeOK, Recorded
<1> QED BY <1>4, <1>5, <1>6, Others, StillWaiting DEF Goroutine

\* Wake: the next attempt begins when the pause is over, not later.
LEMMA WakeKeeps ==
  ASSUME IInv, NEW d \in Delivery, Wake(d) PROVE IInv'
<1> USE DEF IInv
<1>1. /\ phase[d] = "sleeping" /\ now' = now /\ BeginAttempt(d, attempt[d] + 1)
      /\ audit' = audit /\ auditErr' = auditErr /\ now >= due[d]
  BY DEF Wake
<1>2. /\ attempt[d] \in Attempt /\ attempt[d] < MaxRetries /\ now <= due[d]
      /\ 6 * due[d] <= Latest(attempt[d]) + 6 * (attempt[d] * attempt[d])
      /\ due[d] \in Nat /\ now \in Nat
  BY <1>1 DEF Timely, TypeOK
<1>3. attempt[d] + 1 \in Nat \ {0} /\ attempt[d] \in Nat
  BY <1>2, BackChannelAssumption DEF Attempt
<1>4. 6 * (now + Timeout) <= Latest(attempt[d] + 1)
  <2>1. now = due[d]
    BY <1>1, <1>2
  <2>2. /\ Latest(attempt[d]) \in Nat /\ attempt[d] * attempt[d] \in Nat /\ Timeout \in Nat
        /\ Latest(attempt[d] + 1)
             = Latest(attempt[d]) + 6 * (attempt[d] * attempt[d]) + 6 * Timeout
    BY <1>2, <1>3, LatestGrows, BackChannelAssumption
  <2> QED BY <1>2, <2>1, <2>2
<1>5. \A j \in Attempt : j < attempt[d] + 1 <=> wire[d][j] # "unsent"
  BY <1>1, <1>3, BackChannelAssumption DEF Earned, Attempt
<1>6. /\ phase' \in [Delivery -> Phase] /\ attempt' \in [Delivery -> Nat]
      /\ due' \in [Delivery -> Nat] /\ result' \in [Delivery -> Result]
      /\ wire' \in [Delivery -> [Attempt -> Wire]]
      /\ Timely(d)' /\ Earned(d)'
      /\ \/ phase'[d] = "posting" /\ result'[d] = "pending"
         \/ phase'[d] = "marking" /\ result'[d] = "failed"
  BY <1>1, <1>3, <1>4, <1>5, BeginAttemptKeeps
<1>7. TypeOK'
  BY <1>1, <1>6 DEF Wake, TypeOK
<1>8. Recorded(d)'
  BY <1>1, <1>6 DEF TypeOK, Recorded
<1> QED BY <1>6, <1>7, <1>8, Others, StillWaiting DEF Goroutine

\* AttemptFailed: the pause begins no later than the attempt had to end.
LEMMA AttemptFailedKeeps ==
  ASSUME IInv, NEW d \in Delivery, AttemptFailed(d), phase[d] = "posting", now' = now,
         wire' \in [Delivery -> [Attempt -> Wire]],
         \A k \in Attempt : wire'[d][k] # "unsent" <=> wire[d][k] # "unsent"
  PROVE  /\ phase' \in [Delivery -> Phase] /\ attempt' \in [Delivery -> Nat]
         /\ due' \in [Delivery -> Nat] /\ result' \in [Delivery -> Result]
         /\ audit' = audit /\ auditErr' = auditErr
         /\ Timely(d)' /\ Earned(d)' /\ Recorded(d)'
<1> USE DEF IInv
<1>1. /\ attempt[d] \in Attempt /\ now <= due[d] /\ 6 * due[d] <= Latest(attempt[d])
      /\ due[d] \in Nat /\ now \in Nat /\ result[d] = "pending"
      /\ \A k \in Attempt : k <= attempt[d] <=> wire'[d][k] # "unsent"
  BY DEF Timely, TypeOK, Recorded, Earned
<1>2. attempt[d] \in Nat /\ attempt[d] * attempt[d] \in Nat /\ Latest(attempt[d]) \in Nat
  <2>1. attempt[d] \in Nat
    BY <1>1, BackChannelAssumption DEF Attempt
  <2> QED BY <1>1, <2>1, LatestGrows
<1>3. CASE /\ attempt[d] < MaxRetries
           /\ phase' = [phase EXCEPT ![d] = "sleeping"]
           /\ due' = [due EXCEPT ![d] = now + attempt[d] * attempt[d]]
           /\ UNCHANGED <<attempt, outcome>>
  <2>1. phase'[d] = "sleeping" /\ due'[d] = now + attempt[d] * attempt[d]
    BY <1>3 DEF TypeOK
  <2>2. /\ now <= now + attempt[d] * attempt[d]
        /\ 6 * (now + attempt[d] * attempt[d]) <= Latest(attempt[d]) + 6 * (attempt[d] * attempt[d])
        /\ now + attempt[d] * attempt[d] \in Nat
    <3> DEFINE S == attempt[d] * attempt[d]
    <3> HIDE DEF S
    <3>1. S \in Nat
      BY <1>2 DEF S
    <3>2. now <= now + S /\ 6 * (now + S) <= Latest(attempt[d]) + 6 * S /\ now + S \in Nat
      BY <1>1, <1>2, <3>1
    <3> QED BY <3>2 DEF S
  <2>3. Timely(d)'
    BY <1>1, <1>3, <2>1, <2>2 DEF Timely
  <2>4. Earned(d)' /\ Recorded(d)'
    BY <1>1, <1>3, <2>1 DEF Earned, Recorded
  <2> QED BY <1>3, <2>2, <2>3, <2>4 DEF TypeOK, Phase
<1>4. CASE /\ attempt[d] >= MaxRetries
           /\ phase' = [phase EXCEPT ![d] = "marking"]
           /\ result' = [result EXCEPT ![d] = "failed"]
           /\ UNCHANGED <<attempt, due, audit, auditErr>>
  <2>1. phase'[d] = "marking" /\ result'[d] = "failed"
    BY <1>4 DEF TypeOK
  <2>2. \A k \in Attempt : k <= attempt[d]
    BY <1>1, <1>4, BackChannelAssumption DEF Attempt
  <2>3. Timely(d)' /\ Earned(d)' /\ Recorded(d)'
    BY <1>1, <1>4, <2>1, <2>2 DEF Timely, Earned, Recorded
  <2> QED BY <1>4, <2>3 DEF TypeOK, Phase, Result
<1> QED BY <1>3, <1>4 DEF AttemptFailed

\* PostReturns: "delivered" is said of an accepted POST.
LEMMA PostReturnsKeeps ==
  ASSUME IInv, NEW d \in Delivery, PostReturns(d) PROVE IInv'
<1> USE DEF IInv
<1>1. phase[d] = "posting" /\ now' = now /\ attempt[d] \in Attempt
  BY DEF PostReturns, Timely
<1>2. CASE wire[d][attempt[d]] = "accepted" /\ Conclude(d, "delivered")
  <2>1. phase'[d] = "marking" /\ result'[d] = "delivered"
    BY <1>2 DEF Conclude, TypeOK
  <2>2. TypeOK'
    BY <1>2 DEF PostReturns, Conclude, TypeOK, Phase, Result
  <2>3. Timely(d)' /\ Recorded(d)'
    BY <1>1, <1>2, <2>1 DEF Conclude, Timely, Recorded
  <2>4. Earned(d)'
    BY <1>1, <1>2, <2>1 DEF Conclude, Earned, Received
  <2> QED BY <2>2, <2>3, <2>4, Others, StillWaiting DEF Goroutine
<1>3. CASE wire[d][attempt[d]] = "refused" /\ AttemptFailed(d) /\ UNCHANGED wire
  <2>1. /\ phase' \in [Delivery -> Phase] /\ attempt' \in [Delivery -> Nat]
        /\ due' \in [Delivery -> Nat] /\ result' \in [Delivery -> Result]
        /\ audit' = audit /\ auditErr' = auditErr
        /\ Timely(d)' /\ Earned(d)' /\ Recorded(d)'
    BY <1>1, <1>3, AttemptFailedKeeps DEF TypeOK
  <2>2. TypeOK'
    BY <1>3, <2>1 DEF PostReturns, TypeOK
  <2> QED BY <2>1, <2>2, Others, StillWaiting DEF Goroutine
<1> QED BY <1>2, <1>3 DEF PostReturns

\* PostBreaks and PostTimesOut: the attempt was made.
LEMMA PostFailsKeeps ==
  ASSUME IInv, NEW d \in Delivery, PostBreaks(d) \/ PostTimesOut(d) PROVE IInv'
<1> USE DEF IInv
<1>1. phase[d] = "posting" /\ now' = now /\ attempt[d] \in Attempt /\ AttemptFailed(d)
  BY DEF PostBreaks, PostTimesOut, Timely
<1>2. /\ wire' \in [Delivery -> [Attempt -> Wire]]
      /\ \A k \in Attempt : wire'[d][k] # "unsent" <=> wire[d][k] # "unsent"
  <2>1. CASE PostBreaks(d)
    <3> DEFINE w == IF wire[d][attempt[d]] = "sent" THEN "lost" ELSE wire[d][attempt[d]]
    <3>1. w \in Wire /\ (w # "unsent" <=> wire[d][attempt[d]] # "unsent")
      BY <1>1 DEF TypeOK, Wire
    <3>2. wire' = [wire EXCEPT ![d][attempt[d]] = w]
      BY <2>1 DEF PostBreaks
    <3> HIDE DEF w
    <3> QED BY <1>1, <3>1, <3>2 DEF TypeOK
  <2>2. CASE PostTimesOut(d)
    BY <2>2 DEF PostTimesOut, TypeOK
  <2> QED BY <2>1, <2>2
<1>3. /\ phase' \in [Delivery -> Phase] /\ attempt' \in [Delivery -> Nat]
      /\ due' \in [Delivery -> Nat] /\ result' \in [Delivery -> Result]
      /\ audit' = audit /\ auditErr' = auditErr
      /\ Timely(d)' /\ Earned(d)' /\ Recorded(d)'
  BY <1>1, <1>2, AttemptFailedKeeps
<1>4. TypeOK'
  BY <1>2, <1>3 DEF PostBreaks, PostTimesOut, TypeOK
<1> QED BY <1>3, <1>4, Others, StillWaiting DEF Goroutine

\* Mark: the row, if there is one, gets the outcome.
LEMMA MarkKeeps ==
  ASSUME IInv, NEW d \in Delivery, Mark(d) PROVE IInv'
<1> USE DEF IInv
<1>1. /\ phase[d] = "marking" /\ phase' = [phase EXCEPT ![d] = "done"] /\ now' = now
      /\ Audit(d, IF audit[d] = "none" THEN "none" ELSE result[d])
      /\ UNCHANGED <<attempt, due, iat, wire, result, signalled, call>>
  BY DEF Mark
<1>2. /\ phase'[d] = "done" /\ audit[d] \in {"none", "pending"}
      /\ result[d] \in {"delivered", "failed", "unminted"}
      /\ result[d] = "unminted" => audit[d] = "none"
  BY <1>1 DEF TypeOK, Recorded, Result
<1>3. TypeOK'
  BY <1>1, <1>2 DEF TypeOK, Phase, Audit
<1>4. Timely(d)' /\ Earned(d)'
  BY <1>1, <1>2 DEF Timely, Earned, Received
<1>5. Recorded(d)'
  <2>1. CASE audit' = [audit EXCEPT ![d] = IF HasAudit THEN (IF audit[d] = "none" THEN "none" ELSE result[d])
                                            ELSE audit[d]]
             /\ UNCHANGED auditErr
    <3>1. audit'[d] = IF HasAudit /\ audit[d] # "none" THEN result[d] ELSE audit[d]
      BY <2>1 DEF TypeOK
    <3>2. HasAudit /\ d \notin auditErr /\ result[d] # "unminted" => audit[d] = "pending"
      BY <1>1 DEF Recorded
    <3> QED BY <1>1, <1>2, <2>1, <3>1, <3>2, BackChannelAssumption DEF Recorded
  <2>2. CASE auditErr' = auditErr \cup {d} /\ UNCHANGED audit
    BY <1>1, <1>2, <2>2 DEF Recorded
  <2> QED BY <1>1, <2>1, <2>2 DEF Audit
<1> QED BY <1>3, <1>4, <1>5, Others, StillWaiting DEF Goroutine

-----------------------------------------------------------------------------
\* FanOut: the goroutines are spawned at time 0.
LEMMA FanOutKeeps == ASSUME IInv, NEW S \in SUBSET Session, FanOut(S) PROVE IInv'
<1> USE DEF IInv
<1>1. now = 0 /\ now' = now /\ \A d \in Delivery : phase[d] = "none"
  BY DEF FanOut, Called
<1>2. TypeOK'
  BY DEF FanOut, TypeOK, Phase
<1>3. ASSUME NEW d \in Delivery PROVE Timely(d)' /\ Earned(d)' /\ Recorded(d)'
  <2>1. phase'[d] \in {"spawned", "none"} /\ phase[d] = "none"
    BY <1>1 DEF FanOut
  <2> QED BY <1>1, <2>1 DEF FanOut, Timely, Earned, Recorded, Received
<1> QED BY <1>1, <1>2, <1>3 DEF FanOut, Called, Ceiling

\* EndpointHandles: what was sent is not unsent, what was accepted stays so.
LEMMA EndpointHandlesKeeps ==
  ASSUME IInv, NEW d \in Delivery, NEW k \in Attempt, EndpointHandles(d, k) PROVE IInv'
<1> USE DEF IInv
<1>1. PICK w \in {"accepted", "refused"} : wire' = [wire EXCEPT ![d][k] = w]
  BY DEF EndpointHandles
<1>2. wire[d][k] = "sent"
  BY DEF EndpointHandles
<1>3. \A e \in Delivery, j \in Attempt :
        wire'[e][j] = IF e = d /\ j = k THEN w ELSE wire[e][j]
  BY <1>1 DEF TypeOK
<1>4. TypeOK'
  BY <1>1 DEF EndpointHandles, TypeOK, Wire
<1>5. ASSUME NEW e \in Delivery PROVE Timely(e)' /\ Earned(e)' /\ Recorded(e)'
  BY <1>2, <1>3 DEF EndpointHandles, Timely, Earned, Received, Recorded
<1> QED BY <1>4, <1>5 DEF EndpointHandles, Called, Ceiling, AllDone, Draining, DrainEnds

\* Return, Signal and Exit: no delivery changes.
LEMMA RequestKeeps == ASSUME IInv, Return \/ Signal \/ Exit PROVE IInv'
<1> USE DEF IInv
<1>1. TypeOK'
  BY DEF Return, Signal, Exit, TypeOK
<1>2. ASSUME NEW d \in Delivery PROVE Timely(d)' /\ Earned(d)' /\ Recorded(d)'
  BY Untouched DEF Return, Signal, Exit
<1>3. Called'
  BY DEF Return, Signal, Exit, Called, Running, AllDone, Draining, DrainEnds
<1> QED BY <1>1, <1>2, <1>3 DEF Return, Signal, Exit, Ceiling

\* Tick: some delivery is posting or pausing, and its time is not over.
LEMMA TickKeeps == ASSUME IInv, Tick PROVE IInv'
<1> USE DEF IInv
<1>1. now \in Nat /\ now' = now + 1
  BY DEF Tick, TypeOK
<1>2. TypeOK'
  BY <1>1 DEF Tick, TypeOK
<1>3. ASSUME NEW d \in Delivery PROVE Timely(d)' /\ Earned(d)' /\ Recorded(d)'
  <2>1. /\ phase[d] \notin {"spawned", "logging"}
        /\ phase[d] \in {"posting", "sleeping"} => now < due[d]
        /\ due[d] \in Nat
    BY DEF Tick, TypeOK
  <2>2. /\ phase[d] \in {"posting", "sleeping"} => now' <= due[d]
        /\ due[d] <= now + Timeout => due[d] <= now' + Timeout
    BY <1>1, <2>1, BackChannelAssumption
  <2> QED BY <2>1, <2>2 DEF Tick, Timely, Earned, Received, Recorded
<1>4. Called'
  BY DEF Tick, Called, Running
<1>5. PICK d \in Delivery : phase[d] \in {"posting", "sleeping"}
  BY DEF Tick, AllDone, TypeOK, Phase
<1>6. /\ attempt[d] \in Attempt /\ attempt[d] \in Nat /\ now + 1 <= due[d] /\ due[d] \in Nat
      /\ MaxRetries \in Nat \ {0}
  <2>1. attempt[d] \in Attempt /\ now < due[d] /\ due[d] \in Nat
    BY <1>5 DEF Tick, Timely, TypeOK
  <2> QED BY <1>1, <2>1, BackChannelAssumption DEF Attempt
<1>7. 6 * due[d] <= Latest(MaxRetries)
  <2>1. /\ Latest(attempt[d]) \in Nat /\ Latest(attempt[d]) <= Latest(MaxRetries)
        /\ Latest(attempt[d] + 1)
             = Latest(attempt[d]) + 6 * (attempt[d] * attempt[d]) + 6 * Timeout
        /\ Timeout \in Nat
    BY <1>6, LatestGrows, BackChannelAssumption
  <2>2. MaxRetries \in Attempt
    BY <1>6 DEF Attempt
  <2>3. Latest(MaxRetries) \in Nat
    BY <2>2, LatestGrows
  <2>4. CASE phase[d] = "posting"
    BY <1>6, <2>1, <2>3, <2>4 DEF Timely
  <2>5. CASE phase[d] = "sleeping"
    <3>1. attempt[d] < MaxRetries /\ 6 * due[d] <= Latest(attempt[d]) + 6 * (attempt[d] * attempt[d])
      BY <2>5 DEF Timely
    <3>2. attempt[d] + 1 \in Attempt
      BY <1>6, <3>1 DEF Attempt
    <3>3. Latest(attempt[d] + 1) <= Latest(MaxRetries) /\ Latest(attempt[d] + 1) \in Nat
      BY <3>2, LatestGrows
    <3>4. attempt[d] * attempt[d] \in Nat
      BY <1>6
    <3> QED BY <1>6, <2>1, <2>3, <3>1, <3>3, <3>4
  <2> QED BY <1>5, <2>4, <2>5
<1>8. Ceiling'
  <2>1. MaxRetries \in Attempt
    BY <1>6 DEF Attempt
  <2>2. Latest(MaxRetries) \in Nat
    BY <2>1, LatestGrows
  <2> QED BY <1>1, <1>6, <1>7, <2>2 DEF Ceiling
<1> QED BY <1>2, <1>3, <1>4, <1>8

\* Every step preserves the inductive invariant.
LEMMA NextIInv == IInv /\ [Next]_vars => IInv'
<1> SUFFICES ASSUME IInv, [Next]_vars PROVE IInv'
  OBVIOUS
<1>1. CASE UNCHANGED vars
  <2>1. TypeOK' /\ Called' /\ Ceiling'
    BY <1>1 DEF IInv, vars, TypeOK, Called, Ceiling, AllDone, Draining, DrainEnds
  <2>2. ASSUME NEW d \in Delivery PROVE Timely(d)' /\ Earned(d)' /\ Recorded(d)'
    BY <1>1, Untouched DEF IInv, vars
  <2> QED BY <2>1, <2>2 DEF IInv
<1>2. CASE \E S \in SUBSET Session : FanOut(S)
  BY <1>2, FanOutKeeps
<1>3. CASE \E d \in Delivery : Goroutine(d) \/ PostBreaks(d)
  BY <1>3, MintLogoutTokenKeeps, LogDeliveryKeeps, PostReturnsKeeps, PostFailsKeeps, WakeKeeps,
     MarkKeeps DEF Goroutine
<1>4. CASE \E d \in Delivery, k \in Attempt : EndpointHandles(d, k)
  BY <1>4, EndpointHandlesKeeps
<1>5. CASE Return \/ Signal \/ Exit
  BY <1>5, RequestKeeps
<1>6. CASE Tick
  BY <1>6, TickKeeps
<1> QED BY <1>1, <1>2, <1>3, <1>4, <1>5, <1>6 DEF Next

\* Every reachable state satisfies the inductive invariant.
LEMMA Invariance == Spec => []IInv
BY InitIInv, NextIInv, PTL DEF Spec

-----------------------------------------------------------------------------
\* Every variable has its type, for all parameters.
THEOREM TypeCorrect == Spec => []TypeOK
<1>1. IInv => TypeOK
  BY DEF IInv
<1> QED BY Invariance, <1>1, PTL

\* The audit log claims no delivery that no endpoint accepted, and a delivery is
\* given up only after MaxRetries attempts (logout/service.go:169-197).
THEOREM VerdictsAreEarned == Spec => []OutcomesAreEarned
<1>1. IInv => OutcomesAreEarned
  BY DEF IInv, OutcomesAreEarned, Earned, Recorded
<1> QED BY Invariance, <1>1, PTL

\* When the request goes on, the audit log has every outcome that could be
\* recorded (logout/service.go:116-129).
THEOREM AuditIsComplete == Spec => []ReturnCapturesAll
<1>1. IInv => ReturnCapturesAll
  BY DEF IInv, ReturnCapturesAll, Called, AllDone, Recorded
<1> QED BY Invariance, <1>1, PTL

\* A logout waits at most MaxRetries timeouts and the pauses between them,
\* whatever the number of sessions and endpoints (logout/service.go:129).
THEOREM WaitBound == Spec => []WaitIsBounded
<1>1. IInv => WaitIsBounded
  BY CeilingIsWorstCase DEF IInv, TypeOK
<1> QED BY Invariance, <1>1, PTL

\* A drain that lasts longer than that bound cuts no delivery short
\* (main.go:131-138).
THEOREM DrainSuffices == Spec => []NoDeliveryCutShort
<1>1. ASSUME IInv PROVE NoDeliveryCutShort
  <2> SUFFICES ASSUME call = "killed" PROVE DrainEnds <= WorstCase
    BY DEF NoDeliveryCutShort
  <2>1. now >= DrainEnds /\ now <= WorstCase /\ now \in Nat /\ DrainEnds \in Nat
    BY <1>1, CeilingIsWorstCase, BackChannelAssumption
    DEF IInv, Called, WaitIsBounded, TypeOK, Draining, DrainEnds
  <2>2. WorstCase \in Int
    BY BackChannelAssumption DEF WorstCase
  <2> QED BY <2>1, <2>2
<1> QED BY Invariance, <1>1, PTL

\* No attempt starts with an expired token if tokens outlive the longest fan-out;
\* the code's 2 minutes do (pkg/jwt/jwt.go:51-65).
THEOREM TokensAreFresh ==
  ASSUME WorstCase < TokenTTL
  PROVE  Spec => []TokenFreshWhenPosted
<1>1. ASSUME IInv PROVE TokenFreshWhenPosted
  <2> SUFFICES ASSUME NEW d \in Delivery, phase[d] = "posting"
               PROVE due[d] - Timeout < iat[d] + TokenTTL
    BY DEF TokenFreshWhenPosted
  <2>1. due[d] <= now + Timeout /\ now <= WorstCase
    BY <1>1, CeilingIsWorstCase DEF IInv, Timely, WaitIsBounded, TypeOK
  <2>2. due[d] \in Nat /\ iat[d] \in Nat /\ now \in Nat /\ Timeout \in Nat /\ TokenTTL \in Nat
        /\ WorstCase \in Int
    BY <1>1, BackChannelAssumption DEF IInv, TypeOK, WorstCase
  <2> QED BY <2>1, <2>2
<1> QED BY Invariance, <1>1, PTL

\* Without a positive number of retries, which nothing demands, no logout token
\* is sent at all: no endpoint is reached, every token that could be minted counts
\* as a failed delivery, and the request does not wait (config.go:228,
\* logout/service.go:169-172).
THEOREM NothingIsSent ==
  ASSUME MaxRetries <= 0
  PROVE  Spec => [](now = 0 /\ \A d \in Delivery :
                      ~Received(d) /\ phase[d] \notin {"posting", "sleeping"}
                        /\ result[d] # "delivered" /\ audit[d] # "delivered")
<1>1. Attempt = {}
  BY BackChannelAssumption DEF Attempt
<1>2. IInv => now = 0
  BY DEF IInv, Ceiling
<1>3. ASSUME IInv, NEW d \in Delivery
      PROVE  ~Received(d) /\ phase[d] \notin {"posting", "sleeping"}
               /\ result[d] # "delivered" /\ audit[d] # "delivered"
  BY <1>1, <1>3 DEF IInv, Timely, Earned, Recorded, Received
<1>4. IInv => (now = 0 /\ \A d \in Delivery :
                 ~Received(d) /\ phase[d] \notin {"posting", "sleeping"}
                   /\ result[d] # "delivered" /\ audit[d] # "delivered")
  BY <1>2, <1>3
<1> QED BY <1>4, Invariance, PTL

-----------------------------------------------------------------------------
(* What CallEnds rests on.                                                 *)

LastAttempt == IF MaxRetries <= 0 THEN 0 ELSE MaxRetries

\* The most steps delivery d can have behind it.
Progress(d) ==
  CASE phase[d] \in {"none", "spawned"} -> 0
    [] phase[d] = "logging"  -> 1
    [] phase[d] = "posting"  -> 2 * attempt[d]
    [] phase[d] = "sleeping" -> 2 * attempt[d] + 1
    [] phase[d] = "marking"  -> 2 * LastAttempt + 2
    [] phase[d] = "done"     -> 2 * LastAttempt + 3

LEMMA ProgressBounded ==
  ASSUME TypeOK, NEW d \in Delivery, Timely(d)
  PROVE  Progress(d) \in 0 .. 2 * LastAttempt + 3
<1>1. phase[d] \in Phase /\ attempt[d] \in Nat /\ LastAttempt \in Nat
  BY BackChannelAssumption DEF TypeOK, LastAttempt
<1>2. phase[d] \in {"posting", "sleeping"} => attempt[d] <= LastAttempt
  BY BackChannelAssumption DEF Timely, Attempt, LastAttempt
<1> QED BY <1>1, <1>2 DEF Progress, Phase

\* A delivery's own step takes it further.
LEMMA GoroutineAdvances ==
  ASSUME IInv, NEW d \in Delivery, Goroutine(d) \/ PostBreaks(d)
  PROVE  Progress(d) < Progress(d)'
<1> USE DEF Progress
<1>1. /\ TypeOK /\ phase[d] \in Phase /\ attempt[d] \in Nat /\ MaxRetries \in Int
      /\ phase \in [Delivery -> Phase] /\ attempt \in [Delivery -> Nat]
      /\ phase[d] \in {"posting", "sleeping"} => attempt[d] >= 1 /\ attempt[d] <= MaxRetries
      /\ LastAttempt \in Nat /\ MaxRetries <= LastAttempt
      /\ phase[d] = "sleeping" => attempt[d] < MaxRetries
  BY BackChannelAssumption DEF IInv, TypeOK, Timely, Attempt, LastAttempt
<1>2. ASSUME AttemptFailed(d), phase[d] = "posting" PROVE Progress(d) < Progress(d)'
  BY <1>1, <1>2 DEF AttemptFailed
<1>3. ASSUME NEW r, Conclude(d, r), phase[d] \in {"spawned", "posting"}
      PROVE  Progress(d) < Progress(d)'
  BY <1>1, <1>3 DEF Conclude
<1>4. CASE MintLogoutToken(d)
  <2>1. CASE phase' = [phase EXCEPT ![d] = "logging"]
    BY <1>1, <1>4, <2>1 DEF MintLogoutToken
  <2> QED BY <1>3, <1>4, <2>1 DEF MintLogoutToken
<1>5. CASE LogDelivery(d)
  BY <1>1, <1>5 DEF LogDelivery, BeginAttempt
<1>6. CASE PostReturns(d)
  BY <1>2, <1>3, <1>6 DEF PostReturns
<1>7. CASE PostBreaks(d) \/ PostTimesOut(d)
  BY <1>2, <1>7 DEF PostBreaks, PostTimesOut
<1>8. CASE Wake(d)
  BY <1>1, <1>8 DEF Wake, BeginAttempt
<1>9. CASE Mark(d)
  BY <1>1, <1>9 DEF Mark
<1> QED BY <1>4, <1>5, <1>6, <1>7, <1>8, <1>9 DEF Goroutine

\* A goroutine's step takes its delivery further, another step leaves it where it is.
Advances(d) ==
  /\ Progress(d)' \in 0 .. 2 * LastAttempt + 3
  /\ IF Goroutine(d) \/ PostBreaks(d) THEN Progress(d) < Progress(d)'
                                     ELSE Progress(d)' = Progress(d)

\* Whatever endpoints, network and audit log do, a goroutine takes at most two
\* steps per attempt and three more; each brings it further and nobody else moves
\* it, so that wg.Wait waits for finitely many of them (logout/service.go:118-197).
THEOREM DeliveriesGoOnward ==
  Spec => [][\A d \in Delivery : call # "idle" => Advances(d)]_vars
<1>1. ASSUME IInv, IInv', Next, NEW d \in Delivery, call # "idle"
      PROVE  Advances(d)
  <2>1. TypeOK' /\ Timely(d)' => Progress(d)' \in 0 .. 2 * LastAttempt + 3
    <3>1. TypeOK /\ Timely(d) => Progress(d) \in 0 .. 2 * LastAttempt + 3
      BY ProgressBounded
    <3>2. (TypeOK /\ Timely(d) => Progress(d) \in 0 .. 2 * LastAttempt + 3)'
      BY ProgressBounded, PTL
    <3> QED BY <3>2
  <2>2. Progress(d)' \in 0 .. 2 * LastAttempt + 3
    BY <1>1, <2>1 DEF IInv
  <2>3. CASE Goroutine(d) \/ PostBreaks(d)
    BY <1>1, <2>2, <2>3, GoroutineAdvances DEF Advances
  <2>4. CASE ~(Goroutine(d) \/ PostBreaks(d))
    <3>1. ASSUME phase'[d] = phase[d], attempt'[d] = attempt[d]
          PROVE  Progress(d)' = Progress(d)
      BY <3>1 DEF Progress
    <3>2. ASSUME NEW e \in Delivery, Goroutine(e) \/ PostBreaks(e)
          PROVE  phase'[d] = phase[d] /\ attempt'[d] = attempt[d]
      BY <1>1, <2>4, <3>2, OthersUntouched DEF IInv
    <3>3. ASSUME ~\E e \in Delivery : Goroutine(e) \/ PostBreaks(e)
          PROVE  phase'[d] = phase[d] /\ attempt'[d] = attempt[d]
      BY <1>1, <3>3 DEF Next, FanOut, EndpointHandles, Return, Signal, Exit, Tick
    <3> QED BY <2>2, <2>4, <3>1, <3>2, <3>3 DEF Advances
  <2> QED BY <2>3, <2>4
<1>2. IInv /\ IInv' /\ [Next]_vars =>
        [\A d \in Delivery : call # "idle" => Advances(d)]_vars
  BY <1>1
<1> QED BY <1>2, Invariance, PTL DEF Spec

-----------------------------------------------------------------------------
(* The refinement.                                                         *)

\* A goroutine's step decides its delivery, once and rightly, or nothing.
LEMMA GoroutineDecides ==
  ASSUME IInv, IInv', NEW d \in Delivery, Goroutine(d) \/ PostBreaks(d)
  PROVE  Fan!Next \/ UNCHANGED Fan!vars
<1> DEFINE V == [e \in Delivery |->
                   IF phase[e] = "none" THEN "none"
                   ELSE IF result[e] = "unminted" THEN "failed" ELSE result[e]]
           A == {e \in Delivery : Received(e)}
<1> USE DEF IInv
<1>1. /\ phase \in [Delivery -> Phase] /\ phase[d] # "none" /\ phase'[d] # "none"
      /\ call' = call
      /\ \A e \in Delivery \ {d} : phase'[e] = phase[e] /\ result'[e] = result[e]
      /\ result[d] = "pending" \/ result'[d] = result[d]
  <2> USE DEF TypeOK, Conclude, BeginAttempt, AttemptFailed, Recorded, Result
  <2>1. CASE MintLogoutToken(d)
    BY <2>1 DEF MintLogoutToken
  <2>2. CASE LogDelivery(d)
    BY <2>2 DEF LogDelivery
  <2>3. CASE PostReturns(d)
    BY <2>3 DEF PostReturns
  <2>4. CASE PostBreaks(d)
    BY <2>4 DEF PostBreaks
  <2>5. CASE PostTimesOut(d)
    BY <2>5 DEF PostTimesOut
  <2>6. CASE Wake(d)
    BY <2>6 DEF Wake
  <2>7. CASE Mark(d)
    BY <2>7 DEF Mark
  <2> QED BY <2>1, <2>2, <2>3, <2>4, <2>5, <2>6, <2>7 DEF Goroutine
<1>2. ASSUME NEW e \in Delivery PROVE Received(e)' <=> Received(e)
  <2>1. CASE e # d
    <3>1. wire'[e] = wire[e]
      BY <2>1 DEF Goroutine, PostBreaks, MintLogoutToken, LogDelivery, PostReturns, PostTimesOut,
                  Wake, Mark, Conclude, BeginAttempt, TypeOK
    <3> QED BY <3>1 DEF Received
  <2>2. CASE e = d
    <3>1. ASSUME NEW k \in Attempt, BeginAttempt(d, k), phase[d] \in {"logging", "sleeping"},
                 wire[d][k] = "unsent"
          PROVE Received(d)' <=> Received(d)
      BY <3>1 DEF BeginAttempt, Received, TypeOK
    <3>2. ASSUME NEW k \in Int, BeginAttempt(d, k), k \notin Attempt, k > 0
          PROVE Received(d)' <=> Received(d)
      <4>1. wire' = wire
        BY <3>2, BackChannelAssumption DEF BeginAttempt, Attempt
      <4> QED BY <4>1 DEF Received
    <3>3. CASE LogDelivery(d)
      BY <2>2, <3>1, <3>2, <3>3 DEF LogDelivery, Earned
    <3>4. CASE Wake(d)
      <4>1. attempt[d] \in Attempt /\ attempt[d] \in Nat /\ phase[d] = "sleeping"
        BY <3>4 DEF Wake, Timely, TypeOK
      <4>2. attempt[d] + 1 \in Int /\ attempt[d] + 1 > 0 /\ ~(attempt[d] + 1 <= attempt[d])
        BY <4>1
      <4> QED BY <2>2, <3>1, <3>2, <3>4, <4>1, <4>2 DEF Wake, Earned
    <3>5. CASE PostBreaks(d)
      <4>1. attempt[d] \in Attempt
        BY <3>5 DEF PostBreaks, Timely
      <4>2. \A k \in Attempt : wire'[d][k] = "accepted" <=> wire[d][k] = "accepted"
        BY <3>5, <4>1 DEF PostBreaks, TypeOK
      <4> QED BY <2>2, <4>2 DEF Received
    <3>6. CASE MintLogoutToken(d) \/ PostReturns(d) \/ PostTimesOut(d) \/ Mark(d)
      <4>1. wire' = wire
        BY <3>6 DEF MintLogoutToken, PostReturns, PostTimesOut, Mark, Conclude
      <4> QED BY <2>2, <4>1 DEF Received
    <3> QED BY <3>3, <3>4, <3>5, <3>6 DEF Goroutine
  <2> QED BY <2>1, <2>2
<1>3. A' = A
  BY <1>2
<1>4. CASE result'[d] = result[d]
  <2>1. V' = V
    BY <1>1, <1>4
  <2> QED BY <1>1, <1>3, <2>1 DEF Fan!vars
<1>5. CASE result[d] = "pending" /\ result'[d] # result[d]
  <2>1. V[d] = "pending" /\ V' = [V EXCEPT ![d] = V'[d]]
    BY <1>1, <1>5
  <2>2. V'[d] \in {"delivered", "failed"} /\ (V'[d] = "delivered" => d \in A)
    BY <1>1, <1>2, <1>5 DEF TypeOK, Result, Earned
  <2> QED BY <1>1, <1>3, <2>1, <2>2 DEF Fan!Next, Fan!Decide
<1> QED BY <1>1, <1>4, <1>5

\* Every step implements a step of Notification or a stutter.
LEMMA StepRefines ==
  ASSUME IInv, IInv', [Next]_vars
  PROVE  Fan!Next \/ UNCHANGED Fan!vars
<1> DEFINE V == [e \in Delivery |->
                   IF phase[e] = "none" THEN "none"
                   ELSE IF result[e] = "unminted" THEN "failed" ELSE result[e]]
           A == {e \in Delivery : Received(e)}
<1> USE DEF IInv
<1>1. CASE UNCHANGED vars
  BY <1>1 DEF vars, Fan!vars, Received
<1>2. ASSUME NEW S \in SUBSET Session, FanOut(S) PROVE Fan!Next
  <2>1. /\ \A e \in Delivery : phase[e] = "none" /\ result[e] = "pending"
        /\ call # "returned" /\ call' # "returned"
    BY <1>2 DEF FanOut, Called, Recorded
  <2>2. V = [e \in Delivery |-> "none"]
        /\ V' = [e \in Delivery |-> IF e \in S \X Endpoint THEN "pending" ELSE "none"]
    BY <1>2, <2>1 DEF FanOut
  <2>3. A' = A /\ S \X Endpoint \in SUBSET Delivery
    BY <1>2 DEF FanOut, Received, Delivery
  <2> QED BY <2>1, <2>2, <2>3 DEF Fan!Next, Fan!Start
<1>3. CASE \E d \in Delivery : Goroutine(d) \/ PostBreaks(d)
  BY <1>3, GoroutineDecides
<1>4. ASSUME NEW d \in Delivery, NEW k \in Attempt, EndpointHandles(d, k)
      PROVE Fan!Next \/ UNCHANGED Fan!vars
  <2>1. PICK w \in {"accepted", "refused"} : wire' = [wire EXCEPT ![d][k] = w]
    BY <1>4 DEF EndpointHandles
  <2>2. \A e \in Delivery, j \in Attempt :
          wire'[e][j] = IF e = d /\ j = k THEN w ELSE wire[e][j]
    BY <2>1 DEF TypeOK
  <2>3. V' = V /\ call' = call /\ V[d] # "none" /\ wire[d][k] = "sent"
    BY <1>4 DEF EndpointHandles, Earned, TypeOK, Result
  <2>4. CASE w = "accepted"
    <3>1. A' = A \cup {d}
      BY <2>2, <2>3, <2>4 DEF Received
    <3> QED BY <2>3, <3>1 DEF Fan!Next, Fan!Accept
  <2>5. CASE w = "refused"
    <3>1. A' = A
      BY <2>2, <2>3, <2>5 DEF Received
    <3> QED BY <2>3, <3>1 DEF Fan!vars
  <2> QED BY <2>4, <2>5
<1>5. CASE Return
  <2>1. \A e \in Delivery : V[e] # "pending"
    BY <1>5 DEF Return, AllDone, Recorded
  <2>2. V' = V /\ A' = A /\ call' = "returned"
    BY <1>5 DEF Return, Received
  <2> QED BY <2>1, <2>2 DEF Fan!Next, Fan!Resume
<1>6. CASE Signal \/ Exit \/ Tick
  <2>1. V' = V /\ A' = A /\ (call' = "returned" <=> call = "returned")
    BY <1>6 DEF Signal, Exit, Tick, Received, Running
  <2> QED BY <2>1 DEF Fan!vars
<1> QED BY <1>1, <1>2, <1>3, <1>4, <1>5, <1>6 DEF Next

\* The fan-out implements Notification: one verdict per session and endpoint,
\* earned, all of them in before the request goes on (logout/service.go:116-129).
THEOREM Refinement == Spec => NotificationSpec
<1>1. Init => Fan!Init
  BY DEF Init, Fan!Init, Received
<1>2. IInv /\ IInv' /\ [Next]_vars => [Fan!Next]_(Fan!vars)
  BY StepRefines
<1> QED BY Invariance, <1>1, <1>2, PTL DEF Spec, NotificationSpec, Fan!Spec
=============================================================================
