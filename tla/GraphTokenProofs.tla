-------------------------- MODULE GraphTokenProofs --------------------------
(***************************************************************************)
(* Theorems about GraphToken: for any number of requests, any lifetimes    *)
(* longer than two timeouts and any margin of at least two timeouts, an    *)
(* undisturbed reader of the shared token cache presents a valid token, or *)
(* the empty string if the token endpoint answered without a token.        *)
(***************************************************************************)
EXTENDS GraphToken, TLAPS

USE GraphTokenAssumption

\* The initial state satisfies the inductive invariant.
LEMMA InitIInv == Init => IInv
<1> SUFFICES ASSUME Init PROVE IInv
  OBVIOUS
<1>1. TypeOK
  BY DEF Init, TypeOK, NoReply, Reply
<1>2. Writers = {}
  BY DEF Init, Writers
<1>3. Alone /\ CacheIsHonest
  BY DEF Init, Alone, CacheIsHonest
<1>4. ASSUME NEW r \in Request PROVE Answered(r) /\ Reading(r) /\ Presented(r)
  BY <1>2 DEF Init, Answered, Reading, Presented, NoReply
<1> QED BY <1>1, <1>3, <1>4 DEF IInv

\* The fields of an answer.
LEMMA ReplyTyped ==
  ASSUME NEW a \in Reply
  PROVE  /\ a.token \in Token \cup {Empty}
         /\ a.expires_in = 0 \/ a.expires_in \in Lifetime
         /\ a.expires_in \in Nat
<1>1. a.token \in Token \cup {Empty} /\ a.expires_in \in Lifetime \cup {0}
  BY DEF Reply
<1>2. Lifetime \cup {0} \subseteq Nat
  <2>1. Lifetime \subseteq Nat
    BY GraphTokenAssumption
  <2> QED BY <2>1
<1>3. a.expires_in = 0 \/ a.expires_in \in Lifetime
  BY <1>1
<1>4. a.expires_in \in Nat
  BY ONLY <1>1, <1>2, Zenon
<1> QED BY <1>1, <1>3, <1>4

\* What a step that leaves the answer of q alone, or takes it, means for Answered.
LEMMA SameAnswer ==
  ASSUME NEW q \in Request, Answered(q), resp'[q] = resp[q], wait'[q] = wait[q], left' = left,
         q \in Writers' => resp[q] # NoReply,
         resp[q] # NoReply => pc'[q] \in {"fetching", "writePtr", "writeExpiry"}
  PROVE  Answered(q)'
BY DEF Answered, Delivered

LEMMA NoAnswer ==
  ASSUME NEW q \in Request, resp'[q] = NoReply, wait'[q] <= Timeout, q \notin Writers'
  PROVE  Answered(q)'
BY DEF Answered, NoReply

\* CheckCache: a reader sent on by an undisturbed, fresh enough cache finds a
\* token that outlives its call, because the cache is honest.
LEMMA CheckCacheKeeps ==
  ASSUME IInv, NEW r \in Request, CheckCache(r) PROVE IInv'
<1> USE DEF IInv
<1>1. Writers' = Writers
  BY DEF CheckCache, Writers, TypeOK
<1>2. TypeOK' /\ Alone' /\ CacheIsHonest'
  BY <1>1 DEF CheckCache, TypeOK, Alone, CacheIsHonest, cachedToken, Undisturbed, cache, history
<1>3. ASSUME NEW q \in Request PROVE Answered(q)' /\ Presented(q)'
  <2>1. CASE q = r
    <3>1. resp'[r] = NoReply /\ wait'[r] <= Timeout /\ r \notin Writers
      BY DEF CheckCache, Answered, TypeOK, Writers
    <3>2. Presented(r)'
      BY DEF CheckCache, Presented, TypeOK, history
    <3> QED BY <1>1, <2>1, <3>1, <3>2, NoAnswer
  <2>2. CASE q # r
    <3>1. pc'[q] = pc[q] /\ wait'[q] = wait[q] /\ UNCHANGED <<resp, sent, left, clean>>
      BY <2>2 DEF CheckCache, TypeOK, history
    <3>2. Answered(q)'
      BY <1>1, <1>3, <3>1, SameAnswer DEF Answered
    <3> QED BY <1>3, <3>1, <3>2 DEF Presented
  <2> QED BY <2>1, <2>2
<1>4. ASSUME NEW q \in Request PROVE Reading(q)'
  <2>1. CASE UsesCached
    BY <1>1, <1>4, <2>1 DEF CheckCache, Reading, Undisturbed, UsesCached, CacheIsHonest,
                            cachedToken, TypeOK, cache, history
  <2>2. CASE ~UsesCached
    BY <1>1, <1>4, <2>2 DEF CheckCache, Reading, Undisturbed, TypeOK, cache, history
  <2> QED BY <2>1, <2>2
<1> QED BY <1>2, <1>3, <1>4

\* TokenIssued: the token is new, so nobody else's knowledge is affected.
LEMMA TokenIssuedKeeps ==
  ASSUME IInv, NEW r \in Request, TokenIssued(r) PROVE IInv'
<1> USE DEF IInv
<1>1. PICK e \in Lifetime, expires_in \in Lifetime \cup {0}, t \in Token \cup {Empty} :
        /\ expires_in \in {e, 0}
        /\ t # Empty => t \notin Held
        /\ resp' = [resp EXCEPT ![r] = [token |-> t, expires_in |-> expires_in]]
        /\ left' = IF t = Empty THEN left ELSE [left EXCEPT ![t] = e]
  BY Zenon DEF TokenIssued
<1>2. /\ Writers' = Writers /\ r \notin Writers
      /\ \A u \in Token : u # t => left'[u] = left[u]
      /\ t # Empty => left'[t] = e
      /\ t # Empty => t \notin {len, ptr} /\ \A q \in Request : sent[q] # t /\ resp[q].token # t
      /\ e \in Nat /\ e > 2 * Timeout
  BY <1>1 DEF TokenIssued, Writers, TypeOK, Held
<1>3. TypeOK'
  BY <1>1, <1>2 DEF TokenIssued, TypeOK, Reply, cache, history
<1>4. Alone'
  BY <1>1, <1>2 DEF TokenIssued, Alone, TypeOK, cache, history
<1>5. CacheIsHonest'
  BY <1>1, <1>2 DEF TokenIssued, CacheIsHonest, cachedToken, TypeOK, cache, history
<1>6. ASSUME NEW q \in Request PROVE Answered(q)'
  <2>1. CASE q = r
    <3>1. resp'[r] = [token |-> t, expires_in |-> expires_in] /\ resp'[r] # NoReply
      BY <1>1, <1>2 DEF TypeOK, NoReply
    <3>2. t # Empty => Delivered(r)'
      BY <1>1, <1>2, <2>1, <3>1 DEF TokenIssued, Answered, Delivered, TypeOK
    <3> QED BY <1>2, <2>1, <3>1, <3>2 DEF TokenIssued, Answered
  <2>2. CASE q # r
    <3>1. resp'[q] = resp[q]
      BY <1>1, <2>2 DEF TypeOK
    <3>2. resp[q].token # Empty => left'[resp[q].token] = left[resp[q].token]
      BY <1>2, <1>6 DEF TypeOK, Reply, NoReply
    <3> QED BY <1>2, <1>6, <3>1, <3>2 DEF TokenIssued, Answered, Delivered
  <2> QED BY <2>1, <2>2
<1>7. ASSUME NEW q \in Request PROVE Reading(q)' /\ Presented(q)'
  BY <1>1, <1>2, <1>7 DEF TokenIssued, Reading, Presented, Undisturbed, TypeOK, cache, history
<1> QED BY <1>3, <1>4, <1>5, <1>6, <1>7

\* FetchReturns: from now on a writer disturbs the readers.
LEMMA FetchReturnsKeeps ==
  ASSUME IInv, NEW r \in Request, FetchReturns(r) PROVE IInv'
<1> USE DEF IInv
<1>1. Writers' = Writers \cup {r} /\ r \notin Writers
  BY DEF FetchReturns, Writers, TypeOK
<1>2. TypeOK'
  <2>1. resp[r].token \in Token \cup {Empty}
    BY DEF TypeOK, Reply, NoReply
  <2> QED BY <2>1 DEF FetchReturns, TypeOK
<1>3. Alone'
  BY <1>1 DEF FetchReturns, Alone, TypeOK
<1>4. CacheIsHonest'
  BY <1>1 DEF CacheIsHonest
<1>5. ASSUME NEW q \in Request PROVE Reading(q)'
  BY <1>1 DEF FetchReturns, Reading, Undisturbed
<1>6. ASSUME NEW q \in Request PROVE Answered(q)' /\ Presented(q)'
  BY <1>1, <1>6 DEF FetchReturns, Answered, Delivered, Presented, TypeOK
<1> QED BY <1>2, <1>3, <1>4, <1>5, <1>6

\* WritePtr: the second word of an undisturbed writer completes its token.
LEMMA WritePtrKeeps ==
  ASSUME IInv, NEW r \in Request, WritePtr(r) PROVE IInv'
<1> USE DEF IInv
<1>1. Writers' = Writers /\ r \in Writers
  BY DEF WritePtr, Writers, TypeOK
<1>2. TypeOK'
  <2>1. resp[r].token \in Token \cup {Empty}
    BY DEF TypeOK, Reply, NoReply
  <2> QED BY <2>1 DEF WritePtr, TypeOK, history
<1>3. Alone'
  BY <1>1 DEF WritePtr, Alone, TypeOK, history
<1>4. CacheIsHonest'
  BY <1>1 DEF CacheIsHonest
<1>5. ASSUME NEW q \in Request PROVE Reading(q)'
  BY <1>1, <1>5 DEF WritePtr, Reading, Undisturbed, TypeOK, history
<1>6. ASSUME NEW q \in Request PROVE Answered(q)' /\ Presented(q)'
  BY <1>1, <1>6 DEF WritePtr, Answered, Delivered, Presented, TypeOK, history
<1> QED BY <1>2, <1>3, <1>4, <1>5, <1>6

\* WriteExpiry: an undisturbed writer leaves an honest cache, with a token that
\* outlives the call of every reader.
LEMMA WriteExpiryKeeps ==
  ASSUME IInv, NEW r \in Request, WriteExpiry(r) PROVE IInv'
<1> USE DEF IInv
<1>1. Writers' = Writers \ {r} /\ r \in Writers
  BY DEF WriteExpiry, Writers, TypeOK
<1>2. TypeOK'
  <2>1. resp[r] # NoReply /\ resp[r] \in Reply \cup {NoReply}
    BY <1>1 DEF Answered, TypeOK, Writers
  <2>2. resp[r].expires_in \in Nat
    BY <2>1, ReplyTyped
  <2> QED BY <2>2 DEF WriteExpiry, TypeOK, Reply, NoReply
<1>3. Alone'
  <2>1. alone' = {}
    BY <1>1 DEF WriteExpiry, Alone
  <2> QED BY <2>1 DEF Alone
<1>4. Undisturbed' => /\ len = resp[r].token /\ ptr = len
                      /\ len # Empty => /\ len \in Token
                                        /\ resp[r].expires_in <= left[len] + Timeout
                                        /\ left[len] > Timeout
  <2> SUFFICES ASSUME Undisturbed'
               PROVE  /\ len = resp[r].token /\ ptr = len
                      /\ len # Empty => /\ len \in Token
                                        /\ resp[r].expires_in <= left[len] + Timeout
                                        /\ left[len] > Timeout
    OBVIOUS
  <2>1. r \in alone /\ pc[r] = "writeExpiry"
    BY DEF WriteExpiry, Undisturbed
  <2>2. len = resp[r].token /\ ptr = len
    BY <2>1 DEF Alone
  <2>3. ASSUME len # Empty
        PROVE  len \in Token /\ resp[r].expires_in <= left[len] + Timeout /\ left[len] > Timeout
    <3>1. PICK e \in Lifetime : /\ resp[r].expires_in \in {e, 0}
                                /\ e + wait[r] <= left[len] + Timeout
      BY <2>2, <2>3 DEF Answered, Delivered
    <3>2. len \in Token /\ wait[r] \in Nat /\ left[len] \in Nat /\ e \in Nat /\ e > 2 * Timeout
      BY <2>3 DEF TypeOK
    <3> QED BY <3>1, <3>2
  <2> QED BY <2>2, <2>3
<1>5. CacheIsHonest'
  BY <1>4 DEF WriteExpiry, CacheIsHonest, Undisturbed, cachedToken
<1>6. ASSUME NEW q \in Request PROVE Reading(q)'
  BY <1>1, <1>4, <1>6 DEF WriteExpiry, Reading, Undisturbed, TypeOK, Writers
<1>7. ASSUME NEW q \in Request PROVE Answered(q)' /\ Presented(q)'
  BY <1>1, <1>7 DEF WriteExpiry, Answered, Delivered, Presented, TypeOK, NoReply
<1> QED BY <1>2, <1>3, <1>5, <1>6, <1>7

\* ReadCache: what an undisturbed reader presents outlives its call.
LEMMA ReadCacheKeeps ==
  ASSUME IInv, NEW r \in Request, ReadCache(r) PROVE IInv'
<1> USE DEF IInv
<1>1. Writers' = Writers /\ r \notin Writers
  BY DEF ReadCache, Writers, TypeOK
<1>2. cachedToken \in Token \cup {Empty, Torn}
  BY DEF cachedToken, TypeOK
<1>4. TypeOK'
  BY <1>2 DEF ReadCache, TypeOK, Reply, cache
<1>5. Alone' /\ CacheIsHonest'
  BY <1>1 DEF ReadCache, Alone, CacheIsHonest, cachedToken, TypeOK, cache
<1>6. ASSUME NEW q \in Request PROVE Answered(q)' /\ Reading(q)'
  <2>1. resp'[q] = resp[q] /\ left' = left
    BY DEF ReadCache
  <2>2. CASE q = r
    <3>1. resp[r] = NoReply /\ wait'[r] = Timeout
      BY DEF ReadCache, Answered, TypeOK
    <3>2. Reading(r)'
      BY DEF ReadCache, Reading, TypeOK
    <3> QED BY <1>1, <2>1, <2>2, <3>1, <3>2, NoAnswer
  <2>3. CASE q # r
    <3>1. pc'[q] = pc[q] /\ wait'[q] = wait[q] /\ UNCHANGED <<len, mixed>>
      BY <2>3 DEF ReadCache, TypeOK, cache
    <3>2. Answered(q)'
      BY <1>1, <1>6, <2>1, <3>1, SameAnswer DEF Answered
    <3> QED BY <1>1, <1>6, <2>1, <3>1, <3>2 DEF Reading, Undisturbed
  <2> QED BY <2>2, <2>3
<1>7. Undisturbed /\ cachedToken # Empty => cachedToken \in Token /\ left[cachedToken] > Timeout
  BY DEF ReadCache, Reading, CacheIsHonest, cachedToken, Undisturbed
<1>8. ASSUME NEW q \in Request PROVE Presented(q)'
  BY <1>7, <1>8 DEF ReadCache, Presented, Undisturbed, TypeOK
<1> QED BY <1>4, <1>5, <1>6, <1>8

\* Return: the request forgets its token; nothing else changes.
LEMMA ReturnKeeps ==
  ASSUME IInv, NEW r \in Request, pc[r] \in {"fetching", "posting"}, Return(r) PROVE IInv'
<1> USE DEF IInv
<1>1. Writers' = Writers /\ r \notin Writers
  BY DEF Return, Writers, TypeOK
<1>2. TypeOK'
  BY DEF Return, TypeOK, Reply, NoReply, cache
<1>3. Alone' /\ CacheIsHonest'
  BY <1>1 DEF Return, Alone, CacheIsHonest, cachedToken, TypeOK, cache
<1>4. ASSUME NEW q \in Request PROVE Answered(q)' /\ Reading(q)' /\ Presented(q)'
  <2>1. CASE q = r
    BY <1>1, <2>1 DEF Return, Answered, Delivered, Reading, Presented, Undisturbed, TypeOK, NoReply, cache
  <2>2. CASE q # r
    BY <1>1, <1>4, <2>2 DEF Return, Answered, Delivered, Reading, Presented, Undisturbed, TypeOK, cache
  <2> QED BY <2>1, <2>2
<1> QED BY <1>2, <1>3, <1>4

\* Restart: the empty cache satisfies the invariant.
LEMMA RestartKeeps ==
  ASSUME IInv, Restart PROVE IInv'
<1> USE DEF IInv
<1>1. Writers' = {}
  BY DEF Restart, Writers
<1>2. TypeOK'
  BY DEF Restart, TypeOK, Reply, NoReply
<1>3. Alone' /\ CacheIsHonest'
  BY DEF Restart, Alone, CacheIsHonest
<1>4. ASSUME NEW q \in Request PROVE Answered(q)' /\ Reading(q)' /\ Presented(q)'
  BY <1>1, <1>4 DEF Restart, Answered, Reading, Presented, NoReply
<1> QED BY <1>2, <1>3, <1>4

\* Tick: nobody reads or writes while time passes, and all timers run alike.
LEMMA TickKeeps ==
  ASSUME IInv, Tick PROVE IInv'
<1> USE DEF IInv
<1>1. Writers' = Writers /\ Writers = {}
  BY DEF Tick, Writers, TypeOK
<1>2. /\ \A n \in Nat : Less(n) \in Nat /\ Less(n) <= n
      /\ \A n, m \in Nat : n <= m + Timeout => Less(n) <= Less(m) + Timeout
      /\ \A n \in Nat : n > 0 => Less(n) = n - 1
  BY DEF Less
<1>3. TypeOK'
  BY <1>2 DEF Tick, TypeOK, history
<1>4. Alone' /\ CacheIsHonest'
  BY <1>1, <1>2 DEF Tick, Alone, CacheIsHonest, cachedToken, TypeOK, history
<1>5. ASSUME NEW q \in Request PROVE Answered(q)'
  <2>1. wait'[q] <= Timeout
    BY <1>2, <1>5 DEF Tick, Answered, TypeOK
  <2>2. ASSUME resp[q].token # Empty PROVE Delivered(q)'
    <3>1. PICK e \in Lifetime : /\ resp[q].expires_in \in {e, 0}
                                /\ e + wait[q] <= left[resp[q].token] + Timeout
      BY <1>5, <2>2 DEF Answered, Delivered
    <3>2. resp[q].token \in Token /\ resp[q] # NoReply /\ resp'[q] = resp[q]
      BY <1>5, <2>2 DEF Tick, TypeOK, Reply, NoReply
    <3>3. /\ wait[q] \in Nat /\ wait[q] > 0 /\ wait'[q] = wait[q] - 1
      BY <1>1, <1>2, <1>5, <3>2 DEF Tick, Answered, TypeOK, Writers
    <3>4. left'[resp[q].token] >= left[resp[q].token] - 1 /\ left[resp[q].token] \in Nat
          /\ left'[resp[q].token] \in Nat
      BY <3>2 DEF Tick, Less, TypeOK
    <3>5. e + wait'[q] <= left'[resp[q].token] + Timeout
      <4>1. e \in Nat
        OBVIOUS
      <4> QED BY <3>1, <3>3, <3>4, <4>1
    <3> QED BY <3>1, <3>2, <3>5 DEF Delivered
  <2> QED BY <1>1, <1>5, <2>1, <2>2 DEF Tick, Answered, Writers
<1>6. ASSUME NEW q \in Request PROVE Reading(q)'
  BY <1>6 DEF Tick, Reading
<1>7. ASSUME NEW q \in Request PROVE Presented(q)'
  BY <1>1, <1>2, <1>7 DEF Tick, Presented, TypeOK, history
<1> QED BY <1>3, <1>4, <1>5, <1>6, <1>7

\* Every step keeps the invariant.
LEMMA NextIInv == IInv /\ [Next]_vars => IInv'
<1> SUFFICES ASSUME IInv, [Next]_vars PROVE IInv'
  OBVIOUS
<1>1. ASSUME NEW r \in Request, Step(r) PROVE IInv'
  <2>1. CASE FetchFails(r) \/ PostReturns(r)
    BY <2>1, ReturnKeeps DEF FetchFails, PostReturns
  <2> QED
    BY <1>1, <2>1, CheckCacheKeeps, TokenIssuedKeeps, FetchReturnsKeeps, WritePtrKeeps,
       WriteExpiryKeeps, ReadCacheKeeps DEF Step
<1>2. CASE UNCHANGED vars
  BY <1>2 DEF vars, cache, call, history, IInv, TypeOK, Alone, CacheIsHonest, Answered,
              Delivered, Reading, Presented, Undisturbed, Writers, cachedToken
<1> QED BY <1>1, <1>2, RestartKeeps, TickKeeps DEF Next

\* IInv holds in every reachable state.
THEOREM Invariant == Spec => []IInv
  BY InitIInv, NextIInv, PTL DEF Spec

\* Every variable has its type, whatever the token endpoint's answers lack.
THEOREM TypeCorrect == Spec => []TypeOK
  BY Invariant, PTL DEF IInv

\* A request that reads the cache while no refresh overlaps another one presents
\* a whole token that is valid until Graph has answered, or the empty string of an
\* answer without a token (client.go:77-121).
THEOREM CleanReads == Spec => []CleanReadsAreValid
<1>1. IInv => CleanReadsAreValid
  BY DEF IInv, TypeOK, Presented, CleanReadsAreValid
<1> QED BY <1>1, Invariant, PTL

\* A refresh that runs alone leaves a whole token and an expiry that is at most
\* one timeout too optimistic (client.go:117-118).
THEOREM HonestCache == Spec => []CacheIsHonest
  BY Invariant, PTL DEF IInv

-----------------------------------------------------------------------------
(* What the race leaves intact: refreshes overlap within an instant, so    *)
(* the token of one and the expiry of another come from answers of almost  *)
(* the same age.  The lifetimes lie between lo and hi.                     *)

Between(lo, hi) == lo \in Nat /\ hi \in Nat /\ lo <= hi /\ \A e \in Lifetime : lo <= e /\ e <= hi

\* A token that was issued no longer ago than its answer may take.
Fresh(t, lo) == t \in Token /\ lo <= left[t] + Timeout

\* So is the token of an answer that a request is about to write.
LEMMA AnswerIsFresh ==
  ASSUME NEW lo, NEW hi, Between(lo, hi), IInv, NEW r \in Request,
         resp[r].token # Empty
  PROVE  Fresh(resp[r].token, lo)
<1> DEFINE t == resp[r].token
<1>1. PICK e \in Lifetime : e + wait[r] <= left[t] + Timeout
  BY DEF IInv, Answered, Delivered
<1>5. t \in Token
  BY DEF IInv, TypeOK, Reply, NoReply
<1>2. lo \in Nat /\ e \in Nat /\ lo <= e
  BY <1>1 DEF Between
<1>3. wait[r] \in Nat /\ left[t] \in Nat
  BY <1>5 DEF IInv, TypeOK
<1> HIDE DEF t
<1>4. lo <= left[t] + Timeout
  BY <1>1, <1>2, <1>3
<1> QED BY <1>4, <1>5 DEF Fresh, t

\* Whatever a word of the cache points to, the expiry is ahead of its end by one
\* timeout and the difference of two lifetimes at most.
Paired(lo, hi) ==
  /\ expiry <= hi
  /\ \A t \in {len, ptr} \cap Token : expiry <= left[t] + Timeout + (hi - lo)
  /\ Writers # {} /\ len # Empty => Fresh(len, lo)
  /\ \A r \in Request : pc[r] = "writeExpiry" /\ ptr # Empty => Fresh(ptr, lo)

LEMMA PairedInit ==
  ASSUME NEW lo, NEW hi, Between(lo, hi), Init PROVE Paired(lo, hi)
BY DEF Init, Paired, Between, Writers

\* A step that leaves the cache, the writers and the ends of its tokens alone.
LEMMA PairedStays ==
  ASSUME NEW lo, NEW hi, Paired(lo, hi), UNCHANGED cache, Writers' = Writers,
         \A t \in {len, ptr} \cap Token : left'[t] = left[t],
         \A r \in Request : pc'[r] = "writeExpiry" => pc[r] = "writeExpiry"
  PROVE  Paired(lo, hi)'
BY DEF Paired, Fresh, cache

LEMMA PairedStep ==
  ASSUME NEW lo, NEW hi, Between(lo, hi), IInv, Paired(lo, hi), [Next]_vars
  PROVE  Paired(lo, hi)'
<1> USE DEF IInv
<1>0. /\ lo \in Nat /\ hi \in Nat /\ lo <= hi /\ expiry \in Nat
      /\ \A t \in Token : left[t] \in Nat
  BY DEF Between, TypeOK
<1>1. ASSUME NEW r \in Request, CheckCache(r) PROVE Paired(lo, hi)'
  BY <1>1, PairedStays DEF CheckCache, Writers, TypeOK
<1>2. ASSUME NEW r \in Request, TokenIssued(r) PROVE Paired(lo, hi)'
  <2>1. \A t \in {len, ptr} \cap Token : left'[t] = left[t]
    BY <1>2 DEF TokenIssued, Held, TypeOK
  <2> QED BY <1>2, <2>1, PairedStays DEF TokenIssued, Writers
<1>3. ASSUME NEW r \in Request, FetchReturns(r) PROVE Paired(lo, hi)'
  <2>1. resp[r].token # Empty => Fresh(resp[r].token, lo)
    BY AnswerIsFresh
  <2>2. resp[r].token # Empty => left[resp[r].token] \in Nat
    BY <1>0, <2>1 DEF Fresh
  <2>3. resp[r].token # Empty => expiry <= left[resp[r].token] + Timeout + (hi - lo)
    BY <1>0, <2>1, <2>2 DEF Paired, Fresh
  <2>4. \A q \in Request : pc'[q] = "writeExpiry" => pc[q] = "writeExpiry"
    BY <1>3 DEF FetchReturns, TypeOK
  <2> QED BY <1>3, <2>1, <2>2, <2>3, <2>4 DEF FetchReturns, Paired, Fresh
<1>4. ASSUME NEW r \in Request, WritePtr(r) PROVE Paired(lo, hi)'
  <2>1. resp[r].token # Empty => Fresh(resp[r].token, lo)
    BY AnswerIsFresh
  <2>2. resp[r].token # Empty => left[resp[r].token] \in Nat
    BY <1>0, <2>1 DEF Fresh
  <2>3. resp[r].token # Empty => expiry <= left[resp[r].token] + Timeout + (hi - lo)
    BY <1>0, <2>1, <2>2 DEF Paired, Fresh
  <2>4. Writers # {}
    BY <1>4 DEF WritePtr, Writers
  <2> QED BY <1>4, <2>1, <2>2, <2>3, <2>4 DEF WritePtr, Paired, Fresh
<1>5. ASSUME NEW r \in Request, WriteExpiry(r) PROVE Paired(lo, hi)'
  <2>1. \A t \in {len, ptr} \cap Token : Fresh(t, lo)
    BY <1>5 DEF WriteExpiry, Writers, Paired
  <2>2. resp[r].expires_in <= hi /\ resp[r].expires_in \in Nat
    <3>1. resp[r] \in Reply
      BY <1>5 DEF WriteExpiry, Writers, Answered, TypeOK
    <3> QED BY <1>0, <3>1, ReplyTyped DEF Between
  <2>3. \A t \in {len, ptr} \cap Token : resp[r].expires_in <= left[t] + Timeout + (hi - lo)
    BY <1>0, <2>1, <2>2 DEF Fresh
  <2>4. \A q \in Request : pc'[q] = "writeExpiry" => pc[q] = "writeExpiry"
    BY <1>5 DEF WriteExpiry, TypeOK
  <2>5. /\ expiry' = resp[r].expires_in
        /\ len' = len /\ ptr' = ptr /\ left' = left
    BY <1>5 DEF WriteExpiry
  <2>6. expiry' <= hi /\ \A t \in {len', ptr'} \cap Token :
                             expiry' <= left'[t] + Timeout + (hi - lo)
    BY <2>2, <2>3, <2>5
  <2>7. /\ Writers # {} /\ len # Empty => Fresh(len, lo)
        /\ \A q \in Request : pc[q] = "writeExpiry" /\ ptr # Empty => Fresh(ptr, lo)
    BY DEF Paired
  <2>8. Writers # {} /\ (ptr # Empty => Fresh(ptr, lo))
    BY <1>5, <2>7 DEF WriteExpiry, Writers
  <2>9. /\ (Writers # {} /\ len # Empty => Fresh(len, lo))'
        /\ \A q \in Request : pc'[q] = "writeExpiry" /\ ptr' # Empty => Fresh(ptr, lo)'
    BY <2>5, <2>7, <2>8 DEF Fresh
  <2> QED BY <2>6, <2>9 DEF Paired
<1>6. ASSUME NEW r \in Request, ReadCache(r) PROVE Paired(lo, hi)'
  BY <1>6, PairedStays DEF ReadCache, Writers, TypeOK, cache
<1>7. ASSUME NEW r \in Request, FetchFails(r) \/ PostReturns(r) PROVE Paired(lo, hi)'
  BY <1>7, PairedStays DEF FetchFails, PostReturns, Return, Writers, TypeOK, cache
<1>8. CASE Restart
  BY <1>0, <1>8 DEF Restart, Paired, Writers
<1>9. CASE Tick
  <2>1. Writers = {} /\ Writers' = {} /\ \A r \in Request : pc'[r] # "writeExpiry"
    BY <1>9 DEF Tick, Writers
  <2>2. \A n \in Nat : Less(n) \in Nat /\ Less(n) <= n
    BY DEF Less
  <2>3. \A n, m, k \in Nat : n <= m + k => Less(n) <= Less(m) + k
    BY DEF Less
  <2>4. Timeout + (hi - lo) \in Nat
    BY <1>0
  <2>5. \A t \in {len, ptr} \cap Token : Less(expiry) <= Less(left[t]) + (Timeout + (hi - lo))
    BY <1>0, <2>3, <2>4 DEF Paired
  <2>6. /\ expiry' = Less(expiry) /\ UNCHANGED <<len, ptr>>
        /\ \A t \in Token : left'[t] = Less(left[t]) /\ left'[t] \in Nat
    BY <1>0, <1>9, <2>2 DEF Tick
  <2>7. expiry' <= hi
    BY <1>0, <2>2, <2>6 DEF Paired
  <2>8. \A t \in {len, ptr} \cap Token : expiry' <= left'[t] + Timeout + (hi - lo)
    BY <1>0, <2>5, <2>6
  <2> QED BY <2>1, <2>6, <2>7, <2>8 DEF Paired
<1>10. CASE UNCHANGED vars
  BY <1>10, PairedStays DEF vars, call, Writers
<1> QED BY <1>1, <1>2, <1>3, <1>4, <1>5, <1>6, <1>7, <1>8, <1>9, <1>10 DEF Next, Step

\* However refreshes overlap, the cache takes no token for valid longer than one
\* timeout and the difference of two lifetimes beyond its end (client.go:117-118):
\* the damage of the race is bounded, and over with the next refresh.
THEOREM OptimismIsBounded ==
  ASSUME NEW lo, NEW hi, Between(lo, hi)
  PROVE  Spec => [](cachedToken \in Token
                      => expiry <= left[cachedToken] + Timeout + (hi - lo))
<1>1. Paired(lo, hi)
        => (cachedToken \in Token => expiry <= left[cachedToken] + Timeout + (hi - lo))
  BY DEF Paired, cachedToken
<1>2. IInv /\ Paired(lo, hi) /\ [Next]_vars => (IInv /\ Paired(lo, hi))'
  BY NextIInv, PairedStep
<1>3. Init => IInv /\ Paired(lo, hi)
  BY InitIInv, PairedInit
<1> QED BY <1>1, <1>2, <1>3, PTL DEF Spec
=============================================================================
