----------------------------- MODULE GraphToken -----------------------------
(***************************************************************************)
(* The MS Graph client that logout requests share.  Its access token is    *)
(* cached in two fields, cachedToken and tokenExpiry, that every request   *)
(* reads and writes without a lock.                                        *)
(*                                                                         *)
(* A Go string is two words, so an assignment to cachedToken is two steps. *)
(* tokenExpiry is compared by its monotonic reading, one word (before the  *)
(* first write a half-written value reads like the old or the new one), so *)
(* an assignment to it is one step.                                        *)
(*                                                                         *)
(* Time is counted in ticks of 15 s and kept as what is left of each timer *)
(* and lifetime: the state needs no clock and no bound on it.  Goroutines  *)
(* are prompt: time passes only while all of them wait for the network.    *)
(***************************************************************************)
EXTENDS Integers

CONSTANTS
  Request,   \* goroutines that call RevokeUserRefreshTokens
  Token,     \* access tokens; one is used again only when nobody holds it
  Empty,     \* the string ""
  Torn,      \* a string whose pointer and length are of two tokens
  Lifetime,  \* values of expires_in; Entra ID draws them from 60 to 90 minutes
  Margin,    \* the 60 s before expiry within which a token is refreshed
  Timeout    \* the 15 s of the http.Client, for each of the two calls

ASSUME GraphTokenAssumption ==
  /\ Empty \notin Token /\ Torn \notin Token /\ Empty # Torn
  /\ Lifetime \subseteq Nat
  /\ Margin \in Nat /\ Timeout \in Nat
  /\ Margin >= 2 * Timeout
  /\ \A e \in Lifetime : e > 2 * Timeout

VARIABLES
  len, ptr,  \* the words of cachedToken, each by the token it comes from
  expiry,    \* what is left until tokenExpiry, 0 if it has passed
  pc,        \* where each request is
  wait,      \* what is left of the timeout of its HTTP call
  resp,      \* the token endpoint's answer to it
  sent,      \* the token it presents to Graph
  left,      \* what is left of each token's life, as Entra ID sees it
  alone,     \* history: requests whose writes nobody else's have overlapped
  mixed,     \* history: the last write of the cache overlapped another one
  clean      \* history: requests that read the cache while no write was running or mixed

cache   == <<len, ptr, expiry>>
call    == <<pc, wait, resp, sent>>
history == <<alone, mixed, clean>>
vars    == <<cache, call, left, history>>

\* What is decoded of a 200: a field the body lacks is left at its zero value,
\* which nothing checks.
Reply   == [token : Token \cup {Empty}, expires_in : Lifetime \cup {0}]
NoReply == [token |-> Empty, expires_in |-> -1]

Writers == {r \in Request : pc[r] \in {"writePtr", "writeExpiry"}}

-----------------------------------------------------------------------------
(* getAccessToken.                                                         *)

\* Mutant: a token is used until it expires.
UsesCached_noMargin == len # Empty /\ expiry > 0

\* cachedToken != "" && time.Now().Add(60 s).Before(tokenExpiry)
UsesCached == len # Empty /\ expiry > Margin

CheckCache(r) ==
  /\ pc[r] = "idle"
  /\ \/ /\ UsesCached
        /\ pc' = [pc EXCEPT ![r] = "read"]
        /\ UNCHANGED wait
     \/ /\ ~UsesCached
        /\ pc' = [pc EXCEPT ![r] = "fetching"]
        /\ wait' = [wait EXCEPT ![r] = Timeout]
  /\ UNCHANGED <<cache, resp, sent, left, history>>

Held == {len, ptr} \cup {resp[q].token : q \in Request} \cup {sent[q] : q \in Request}

\* The token endpoint answers 200, with a new token or without one, and says how
\* long it lives or does not; the answer takes its time.
TokenIssued(r) ==
  /\ pc[r] = "fetching" /\ resp[r] = NoReply
  /\ \E e \in Lifetime, stated \in BOOLEAN :
       LET expires_in == IF stated THEN e ELSE 0 IN
       \/ \E t \in Token \ Held :
            /\ resp' = [resp EXCEPT ![r] = [token |-> t, expires_in |-> expires_in]]
            /\ left' = [left EXCEPT ![t] = e]
       \/ /\ resp' = [resp EXCEPT ![r] = [token |-> Empty, expires_in |-> expires_in]]
          /\ UNCHANGED left
  /\ UNCHANGED <<cache, pc, wait, sent, history>>

\* The answer is decoded; the length of cachedToken is written.
FetchReturns(r) ==
  /\ pc[r] = "fetching" /\ resp[r] # NoReply
  /\ len' = resp[r].token
  /\ pc' = [pc EXCEPT ![r] = "writePtr"]
  /\ alone' = IF Writers = {} THEN {r} ELSE {}
  /\ UNCHANGED <<ptr, expiry, wait, resp, sent, left, mixed, clean>>

WritePtr(r) ==
  /\ pc[r] = "writePtr"
  /\ ptr' = resp[r].token
  /\ pc' = [pc EXCEPT ![r] = "writeExpiry"]
  /\ UNCHANGED <<len, expiry, wait, resp, sent, left, history>>

\* Mutants: the margin is subtracted, whatever lifetime the answer stated; the
\* margin is added, as if it were subtracted later.
WriteExpiry_early(r) ==
  /\ pc[r] = "writeExpiry"
  /\ expiry' = resp[r].expires_in - Margin
  /\ pc' = [pc EXCEPT ![r] = "read"]
  /\ resp' = [resp EXCEPT ![r] = NoReply]
  /\ mixed' = (r \notin alone)
  /\ alone' = alone \ {r}
  /\ UNCHANGED <<len, ptr, wait, sent, left, clean>>

WriteExpiry_late(r) ==
  /\ pc[r] = "writeExpiry"
  /\ expiry' = resp[r].expires_in + Margin
  /\ pc' = [pc EXCEPT ![r] = "read"]
  /\ resp' = [resp EXCEPT ![r] = NoReply]
  /\ mixed' = (r \notin alone)
  /\ alone' = alone \ {r}
  /\ UNCHANGED <<len, ptr, wait, sent, left, clean>>

WriteExpiry(r) ==
  /\ pc[r] = "writeExpiry"
  /\ expiry' = resp[r].expires_in
  /\ pc' = [pc EXCEPT ![r] = "read"]
  /\ resp' = [resp EXCEPT ![r] = NoReply]
  /\ mixed' = (r \notin alone)
  /\ alone' = alone \ {r}
  /\ UNCHANGED <<len, ptr, wait, sent, left, clean>>

\* A string of length 0 is empty, whatever it points to.
cachedToken == IF len \in {ptr, Empty} THEN len ELSE Torn

\* return c.cachedToken, and the POST to Graph is sent, though the string may be
\* empty; one that points nowhere panics instead, which ends the call as well.
ReadCache(r) ==
  /\ pc[r] = "read"
  /\ sent' = [sent EXCEPT ![r] = cachedToken]
  /\ clean' = IF Writers = {} /\ ~mixed THEN clean \cup {r} ELSE clean \ {r}
  /\ pc' = [pc EXCEPT ![r] = "posting"]
  /\ wait' = [wait EXCEPT ![r] = Timeout]
  /\ UNCHANGED <<cache, resp, left, alone, mixed>>

Return(r) ==
  /\ pc' = [pc EXCEPT ![r] = "idle"]
  /\ wait' = [wait EXCEPT ![r] = 0]
  /\ resp' = [resp EXCEPT ![r] = NoReply]
  /\ sent' = [sent EXCEPT ![r] = Empty]
  /\ clean' = clean \ {r}
  /\ UNCHANGED <<cache, left, alone, mixed>>

\* No answer in time, a refusal, a broken connection, a cancelled context: the
\* caller logs the error and goes on.
FetchFails(r) == pc[r] = "fetching" /\ Return(r)

\* Graph answers, or does not.
PostReturns(r) == pc[r] = "posting" /\ Return(r)

-----------------------------------------------------------------------------
\* The process restarts with an empty cache.
Restart ==
  /\ len' = Empty /\ ptr' = Empty /\ expiry' = 0
  /\ pc' = [r \in Request |-> "idle"]
  /\ wait' = [r \in Request |-> 0]
  /\ resp' = [r \in Request |-> NoReply]
  /\ sent' = [r \in Request |-> Empty]
  /\ alone' = {} /\ mixed' = FALSE /\ clean' = {}
  /\ UNCHANGED left

Less(n) == IF n = 0 THEN 0 ELSE n - 1

Tick ==
  /\ \A r \in Request : \/ pc[r] = "idle"
                        \/ pc[r] \in {"fetching", "posting"} /\ wait[r] > 0
  /\ wait' = [r \in Request |-> Less(wait[r])]
  /\ expiry' = Less(expiry)
  /\ left' = [t \in Token |-> Less(left[t])]
  /\ UNCHANGED <<len, ptr, pc, resp, sent, history>>

Init ==
  /\ len = Empty /\ ptr = Empty /\ expiry = 0
  /\ pc = [r \in Request |-> "idle"]
  /\ wait = [r \in Request |-> 0]
  /\ resp = [r \in Request |-> NoReply]
  /\ sent = [r \in Request |-> Empty]
  /\ left = [t \in Token |-> 0]
  /\ alone = {} /\ mixed = FALSE /\ clean = {}

Step(r) ==
  \/ CheckCache(r)
  \/ TokenIssued(r) \/ FetchReturns(r) \/ FetchFails(r)
  \/ WritePtr(r) \/ WriteExpiry(r)
  \/ ReadCache(r) \/ PostReturns(r)

Next == (\E r \in Request : Step(r)) \/ Restart \/ Tick

Spec == Init /\ [][Next]_vars

-----------------------------------------------------------------------------
(* Properties.                                                             *)

\* Every variable has its type.
TypeOK ==
  /\ {len, ptr} \subseteq Token \cup {Empty}
  /\ expiry \in Nat
  /\ pc \in [Request -> {"idle", "fetching", "writePtr", "writeExpiry", "read", "posting"}]
  /\ wait \in [Request -> Nat]
  /\ resp \in [Request -> Reply \cup {NoReply}]
  /\ sent \in [Request -> Token \cup {Empty, Torn}]
  /\ left \in [Token -> Nat]
  /\ alone \subseteq Request /\ clean \subseteq Request
  /\ mixed \in BOOLEAN

\* Unless two refreshes of the cache overlap, what a request presents is whole,
\* and a token is still valid when Graph sees it, however late that is: the
\* margin of 60 s covers the delay of the token's own answer and of the
\* revocation (client.go:77-121).  It is empty if the answer had no token.
CleanReadsAreValid ==
  \A r \in clean : pc[r] = "posting" /\ sent[r] # Empty
                     => sent[r] \in Token /\ left[sent[r]] > 0

\* Overlapping refreshes can pair a token with the expiry of another one.
\* Whatever they leave behind, a refresh that runs alone repairs it: the cache
\* is at most one timeout more optimistic than Entra ID (client.go:117-118).
CacheIsHonest ==
  Writers = {} /\ ~mixed /\ len # Empty => cachedToken \in Token /\ expiry <= left[len] + Timeout

-----------------------------------------------------------------------------
(* The inductive invariant: what the words of the cache, the writers and   *)
(* the readers know of each other.                                         *)

Undisturbed == Writers = {} /\ ~mixed

\* An undisturbed writer is the only one, and the cache holds what it wrote.
Alone ==
  \A r \in alone :
    /\ Writers = {r}
    /\ len = resp[r].token
    /\ pc[r] = "writeExpiry" => ptr = len

\* The token of r's answer is at most as old as the call, and lives as long as the
\* answer says, if it says so.
Delivered(r) ==
  \E e \in Lifetime : /\ resp[r].expires_in \in {e, 0}
                       /\ e + wait[r] <= left[resp[r].token] + Timeout

Answered(r) ==
  /\ wait[r] <= Timeout
  /\ resp[r] # NoReply => pc[r] \in {"fetching", "writePtr", "writeExpiry"}
  /\ r \in Writers => resp[r] # NoReply
  /\ resp[r].token # Empty => Delivered(r)

\* Who reads the cache undisturbed finds a token that outlives the call, or none.
Reading(r) == pc[r] = "read" /\ Undisturbed /\ len # Empty => left[len] > Timeout

Presented(r) ==
  r \in clean =>
    pc[r] = "posting" /\ (sent[r] # Empty => sent[r] \in Token /\ left[sent[r]] > wait[r])

\* In every state (client.go:77-121).
IInv ==
  /\ TypeOK
  /\ Alone /\ CacheIsHonest
  /\ \A r \in Request : Answered(r) /\ Reading(r) /\ Presented(r)

-----------------------------------------------------------------------------
(* What a comment of the source says, and the code does not do.            *)

\* "getAccessToken returns a valid client-credentials access token"
\* (client.go:77): a token it returns whole has not expired.
ReturnsValidToken ==
  \A r \in Request : pc[r] = "posting" /\ wait[r] = Timeout /\ sent[r] \in Token
                       => left[sent[r]] > 0
=============================================================================
