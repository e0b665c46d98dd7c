---------------------------- MODULE BackChannel -----------------------------
(***************************************************************************)
(* The fan-out of logout.Service.Logout: one goroutine per session and     *)
(* endpoint mints a logout token, records it in the audit log, POSTs it up *)
(* to MaxRetries times with growing pauses, and records the outcome; the   *)
(* request waits for all of them.  The endpoints, the network between, and *)
(* the shutdown of the process run beside it.                              *)
(*                                                                         *)
(* Time is counted in units of 100 ms from the start of the fan-out.  The  *)
(* goroutines are prompt: no timer is overslept (guard of Tick), so the    *)
(* bounds below are those of the code itself, on an unloaded machine.      *)
(***************************************************************************)
EXTENDS Integers

CONSTANTS
  Session, Endpoint,
  MaxRetries,   \* BackChannelConfig.MaxRetries; not validated, may be 0 or less
  Timeout,      \* BackChannelConfig.Timeout, the http.Client's
  TokenTTL,     \* lifetime of a logout token
  Drain,        \* what main allows srv.Shutdown
  HasAudit,     \* an AuditLogger is wired (main passes nil)
  NotYet        \* "no such time"

ASSUME BackChannelAssumption ==
  /\ MaxRetries \in Int
  /\ Timeout \in Nat \ {0}
  /\ TokenTTL \in Nat
  /\ Drain \in Nat
  /\ HasAudit \in BOOLEAN
  /\ NotYet \notin Nat

Delivery == Session \X Endpoint
Attempt  == 1 .. MaxRetries

VARIABLES
  now,
  call,       \* the request: "idle", "waiting" at wg.Wait, "returned", "killed"
  phase,      \* where each goroutine is
  attempt,    \* the loop variable
  due,        \* when the running POST times out, or the pause ends
  iat,        \* when the token was minted
  wire,       \* what became of each POST
  result,     \* the outcome the goroutine logs
  audit,      \* the row of the pair in backchannel_logout_log
  auditErr,   \* history: pairs one of whose audit statements failed
  signalled   \* when SIGTERM arrived

outcome == <<result, audit, auditErr>>
vars == <<now, call, phase, attempt, due, iat, wire, outcome, signalled>>

Phase  == {"none", "spawned", "logging", "posting", "sleeping", "marking", "done"}
Wire   == {"unsent", "sent", "accepted", "refused", "lost"}
Result == {"pending", "delivered", "failed", "unminted"}

Running == call = "waiting"

-----------------------------------------------------------------------------
(* The goroutine of one delivery.                                          *)

\* for _, sess := range sessions { for _, endpoint := range Endpoints { go ... } }
FanOut(S) ==
  /\ call = "idle"
  /\ call' = "waiting"
  /\ phase' = [d \in Delivery |-> IF d \in S \X Endpoint THEN "spawned" ELSE "none"]
  /\ UNCHANGED <<now, attempt, due, iat, wire, outcome, signalled>>

Conclude(d, r) ==
  /\ phase' = [phase EXCEPT ![d] = "marking"]
  /\ result' = [result EXCEPT ![d] = r]
  /\ UNCHANGED <<attempt, due, wire, audit, auditErr>>

\* Mutant: the client's timeout is one unit longer than configured.
BeginAttempt_slow(d, k) ==
  \/ /\ k <= MaxRetries
     /\ phase' = [phase EXCEPT ![d] = "posting"]
     /\ attempt' = [attempt EXCEPT ![d] = k]
     /\ due' = [due EXCEPT ![d] = now + Timeout + 1]
     /\ wire' = [wire EXCEPT ![d][k] = "sent"]
     /\ UNCHANGED result
  \/ /\ k > MaxRetries
     /\ phase' = [phase EXCEPT ![d] = "marking"]
     /\ result' = [result EXCEPT ![d] = "failed"]
     /\ UNCHANGED <<attempt, due, wire>>

\* Attempt k, or the end of the loop.
BeginAttempt(d, k) ==
  \/ /\ k <= MaxRetries
     /\ phase' = [phase EXCEPT ![d] = "posting"]
     /\ attempt' = [attempt EXCEPT ![d] = k]
     /\ due' = [due EXCEPT ![d] = now + Timeout]
     /\ wire' = [wire EXCEPT ![d][k] = "sent"]
     /\ UNCHANGED result
  \/ /\ k > MaxRetries
     /\ phase' = [phase EXCEPT ![d] = "marking"]
     /\ result' = [result EXCEPT ![d] = "failed"]
     /\ UNCHANGED <<attempt, due, wire>>

MintLogoutToken(d) ==
  /\ Running /\ phase[d] = "spawned"
  /\ \/ /\ iat' = [iat EXCEPT ![d] = now]
        /\ phase' = [phase EXCEPT ![d] = "logging"]
        /\ UNCHANGED <<attempt, due, wire, outcome>>
     \/ Conclude(d, "unminted") /\ UNCHANGED iat
  /\ UNCHANGED <<now, call, signalled>>

\* An audit statement: without a logger, nothing; its error is ignored.
Audit(d, row) ==
  \/ /\ audit' = [audit EXCEPT ![d] = IF HasAudit THEN row ELSE audit[d]]
     /\ UNCHANGED auditErr
  \/ /\ HasAudit
     /\ auditErr' = auditErr \cup {d}
     /\ UNCHANGED audit

LogDelivery(d) ==
  /\ Running /\ phase[d] = "logging"
  /\ Audit(d, "pending")
  /\ BeginAttempt(d, 1)
  /\ UNCHANGED <<now, call, iat, signalled>>

\* Mutants: one attempt too few; a pause that starts at four units.
AttemptFailed_early(d) ==
  \/ /\ attempt[d] < MaxRetries - 1
     /\ phase' = [phase EXCEPT ![d] = "sleeping"]
     /\ due' = [due EXCEPT ![d] = now + attempt[d] * attempt[d]]
     /\ UNCHANGED <<attempt, outcome>>
  \/ /\ attempt[d] >= MaxRetries - 1
     /\ phase' = [phase EXCEPT ![d] = "marking"]
     /\ result' = [result EXCEPT ![d] = "failed"]
     /\ UNCHANGED <<attempt, due, audit, auditErr>>

AttemptFailed_longPause(d) ==
  \/ /\ attempt[d] < MaxRetries
     /\ phase' = [phase EXCEPT ![d] = "sleeping"]
     /\ due' = [due EXCEPT ![d] = now + (attempt[d] + 1) * (attempt[d] + 1)]
     /\ UNCHANGED <<attempt, outcome>>
  \/ /\ attempt[d] >= MaxRetries
     /\ phase' = [phase EXCEPT ![d] = "marking"]
     /\ result' = [result EXCEPT ![d] = "failed"]
     /\ UNCHANGED <<attempt, due, audit, auditErr>>

AttemptFailed(d) ==
  \/ /\ attempt[d] < MaxRetries
     /\ phase' = [phase EXCEPT ![d] = "sleeping"]
     /\ due' = [due EXCEPT ![d] = now + attempt[d] * attempt[d]]
     /\ UNCHANGED <<attempt, outcome>>
  \/ /\ attempt[d] >= MaxRetries
     /\ phase' = [phase EXCEPT ![d] = "marking"]
     /\ result' = [result EXCEPT ![d] = "failed"]
     /\ UNCHANGED <<attempt, due, audit, auditErr>>

\* Mutant: the status code of the answer is not looked at.
PostReturns_anyStatus(d) ==
  /\ Running /\ phase[d] = "posting"
  /\ wire[d][attempt[d]] \in {"accepted", "refused"} /\ Conclude(d, "delivered")
  /\ UNCHANGED <<now, call, iat, signalled>>

\* The endpoint's answer arrives.
PostReturns(d) ==
  /\ Running /\ phase[d] = "posting"
  /\ \/ wire[d][attempt[d]] = "accepted" /\ Conclude(d, "delivered")
     \/ wire[d][attempt[d]] = "refused" /\ AttemptFailed(d) /\ UNCHANGED wire
  /\ UNCHANGED <<now, call, iat, signalled>>

\* The connection fails, before or after the endpoint has seen the request.
PostBreaks(d) ==
  /\ Running /\ phase[d] = "posting"
  /\ wire' = [wire EXCEPT ![d][attempt[d]] = IF @ = "sent" THEN "lost" ELSE @]
  /\ AttemptFailed(d)
  /\ UNCHANGED <<now, call, iat, signalled>>

\* http.Client.Timeout; the request may still be on its way.
PostTimesOut(d) ==
  /\ Running /\ phase[d] = "posting"
  /\ now >= due[d]
  /\ AttemptFailed(d)
  /\ UNCHANGED <<now, call, iat, wire, signalled>>

\* Mutant: an off-by-one in the timer.
Wake_late(d) ==
  /\ Running /\ phase[d] = "sleeping"
  /\ now > due[d]
  /\ BeginAttempt(d, attempt[d] + 1)
  /\ UNCHANGED <<now, call, iat, audit, auditErr, signalled>>

Wake(d) ==
  /\ Running /\ phase[d] = "sleeping"
  /\ now >= due[d]
  /\ BeginAttempt(d, attempt[d] + 1)
  /\ UNCHANGED <<now, call, iat, audit, auditErr, signalled>>

\* Mutant: an upsert in place of the UPDATE.
Mark_upserts(d) ==
  /\ Running /\ phase[d] = "marking"
  /\ phase' = [phase EXCEPT ![d] = "done"]
  /\ Audit(d, result[d])
  /\ UNCHANGED <<now, call, attempt, due, iat, wire, result, signalled>>

\* MarkDelivered or MarkFailed: an UPDATE of the row LogDelivery inserted.
Mark(d) ==
  /\ Running /\ phase[d] = "marking"
  /\ phase' = [phase EXCEPT ![d] = "done"]
  /\ Audit(d, IF audit[d] = "none" THEN "none" ELSE result[d])
  /\ UNCHANGED <<now, call, attempt, due, iat, wire, result, signalled>>

Goroutine(d) ==
  \/ MintLogoutToken(d) \/ LogDelivery(d)
  \/ PostReturns(d) \/ PostTimesOut(d) \/ Wake(d) \/ Mark(d)

AllDone == \A d \in Delivery : phase[d] \in {"none", "done"}

\* Mutant: no wg.Wait().
Return_atOnce ==
  /\ Running
  /\ call' = "returned"
  /\ UNCHANGED <<now, phase, attempt, due, iat, wire, outcome, signalled>>

\* wg.Wait() returns.
Return ==
  /\ Running /\ AllDone
  /\ call' = "returned"
  /\ UNCHANGED <<now, phase, attempt, due, iat, wire, outcome, signalled>>

-----------------------------------------------------------------------------
(* Around it.                                                              *)

\* A downstream application handles a POST, late ones included.
EndpointHandles(d, k) ==
  /\ wire[d][k] = "sent"
  /\ \E w \in {"accepted", "refused"} : wire' = [wire EXCEPT ![d][k] = w]
  /\ UNCHANGED <<now, call, phase, attempt, due, iat, outcome, signalled>>

Signal ==
  /\ Running /\ signalled = NotYet
  /\ signalled' = now
  /\ UNCHANGED <<now, call, phase, attempt, due, iat, wire, outcome>>

Draining == signalled # NotYet
DrainEnds == signalled + Drain

\* Mutant: the process exits on the signal.
Exit_onSignal ==
  /\ Running /\ Draining
  /\ call' = "killed"
  /\ UNCHANGED <<now, phase, attempt, due, iat, wire, outcome, signalled>>

\* srv.Shutdown gives up and main returns; all goroutines die with it.
Exit ==
  /\ Running /\ Draining /\ now >= DrainEnds
  /\ call' = "killed"
  /\ UNCHANGED <<now, phase, attempt, due, iat, wire, outcome, signalled>>

Tick ==
  /\ Running /\ ~AllDone
  /\ \A d \in Delivery :
        /\ phase[d] \notin {"spawned", "logging", "marking"}
        /\ phase[d] \in {"posting", "sleeping"} => now < due[d]
  /\ Draining => now < DrainEnds
  /\ now' = now + 1
  /\ UNCHANGED <<call, phase, attempt, due, iat, wire, outcome, signalled>>

-----------------------------------------------------------------------------
Init ==
  /\ now = 0
  /\ call = "idle"
  /\ phase = [d \in Delivery |-> "none"]
  /\ attempt = [d \in Delivery |-> 0]
  /\ due = [d \in Delivery |-> 0]
  /\ iat = [d \in Delivery |-> 0]
  /\ wire = [d \in Delivery |-> [k \in Attempt |-> "unsent"]]
  /\ result = [d \in Delivery |-> "pending"]
  /\ audit = [d \in Delivery |-> "none"]
  /\ auditErr = {}
  /\ signalled = NotYet

Next ==
  \/ \E S \in SUBSET Session : FanOut(S)
  \/ \E d \in Delivery : Goroutine(d) \/ PostBreaks(d)
  \/ \E d \in Delivery, k \in Attempt : EndpointHandles(d, k)
  \/ Return
  \/ Signal \/ Exit
  \/ Tick

Spec == Init /\ [][Next]_vars

\* Goroutines are scheduled, timers fire and time passes; the endpoints owe
\* nothing, and no signal has to come.
FairSpec ==
  /\ Spec
  /\ \A d \in Delivery : WF_vars(Goroutine(d))
  /\ WF_vars(Return) /\ WF_vars(Exit) /\ WF_vars(Tick)

-----------------------------------------------------------------------------
(* Properties.                                                             *)

\* Every variable has its type; the audit log holds only the outcomes of the
\* schema (migrations/003_create_backchannel_logout.sql).
TypeOK ==
  /\ now \in Nat
  /\ call \in {"idle", "waiting", "returned", "killed"}
  /\ phase \in [Delivery -> Phase]
  /\ attempt \in [Delivery -> Nat]
  /\ due \in [Delivery -> Nat]
  /\ iat \in [Delivery -> Nat]
  /\ wire \in [Delivery -> [Attempt -> Wire]]
  /\ result \in [Delivery -> Result]
  /\ audit \in [Delivery -> {"none", "pending", "delivered", "failed"}]
  /\ auditErr \subseteq Delivery
  /\ signalled \in Nat \cup {NotYet}

Received(d) == \E k \in Attempt : wire[d][k] = "accepted"

\* The audit log never claims a delivery that no endpoint accepted, and a
\* delivery counts as failed only after every attempt was made
\* (logout/service.go:169-197).
OutcomesAreEarned ==
  \A d \in Delivery :
    /\ audit[d] = "delivered" => Received(d)
    /\ result[d] = "failed" => \A k \in Attempt : wire[d][k] # "unsent"

\* "The audit log captures all results before the function returns"
\* (logout/service.go:116-117): true of every delivery whose token could be
\* minted and whose audit statements succeeded.
ReturnCapturesAll ==
  call = "returned" =>
    \A d \in Delivery : phase[d] # "none" /\ HasAudit /\ d \notin auditErr
                          /\ result[d] # "unminted" => audit[d] = result[d]

\* No attempt starts with a token that has expired: "the token is intentionally
\* short-lived because it is delivered immediately" (pkg/jwt/jwt.go:51).
TokenFreshWhenPosted ==
  \A d \in Delivery : phase[d] = "posting" => due[d] - Timeout < iat[d] + TokenTTL

\* The longest a fan-out can take: all attempts time out.
WorstCase ==
  IF MaxRetries <= 0 THEN 0
  ELSE MaxRetries * Timeout + ((MaxRetries - 1) * MaxRetries * (2 * MaxRetries - 1)) \div 6

\* However many sessions and endpoints there are, the request waits no longer.
WaitIsBounded == now <= WorstCase

\* A shutdown cuts deliveries short only if its drain ends before the longest
\* fan-out would have: 15 s protect every delivery that has a head start of half
\* a second in the default configuration (main.go:126-138).
NoDeliveryCutShort == call = "killed" /\ ~AllDone => DrainEnds <= WorstCase

\* The fan-out ends.
CallEnds == (call = "waiting") ~> (call \in {"returned", "killed"})

Fan == INSTANCE Notification WITH
  verdict  <- [d \in Delivery |->
                 IF phase[d] = "none" THEN "none"
                 ELSE IF result[d] = "unminted" THEN "failed" ELSE result[d]],
  accepted <- {d \in Delivery : Received(d)},
  resumed  <- call = "returned"

\* The fan-out keeps the promise of Notification: exactly one verdict per pair,
\* earned, and all of them in before the request goes on (service.go:116-129).
NotificationSpec == Fan!Spec
=============================================================================
