--------------------------- MODULE RequestsProofs ---------------------------
(***************************************************************************)
(* Theorems about the requests at both ends of the backend: SellerRequests *)
(* for every number of calls, renewals and retryable failures, and         *)
(* SyncPolling for every number of tabs, batches, changes and faults. One  *)
(* inductive invariant each, IInv and TabInv, carries all of them.         *)
(***************************************************************************)
EXTENDS SellerRequests, SyncPolling, FiniteSetTheorems, TLAPS

-----------------------------------------------------------------------------
(* Seller requests.                                                        *)

UnderWay == {"asking", "recording"}

\* The tokens that some call saw rejected or that came near their expiry.
Gone == aged \cup UNION {seen[c] : c \in Caller}

\* Renewals start in order, at most one is under way, and an issued token is
\* cached until it is gone.
RenewalInv ==
    /\ \A m, n \in Token : m < n /\ renewal[n] # "none" => renewal[m] # "none"
    /\ \A n \in Token : renewal[n] \in UnderWay => pending = n
    /\ \A n \in Token :
        renewal[n] = "issued" => n \in Gone \/ (cached.fresh /\ cached.token = n)

\* What is cached was issued; it is fresh only while no renewal is under way,
\* and no call that goes on has seen it rejected.
CacheInv ==
    /\ cached.token # NoToken => renewal[cached.token] = "issued"
    /\ cached.fresh =>
        /\ cached.token \in Token
        /\ pending = NoToken
        /\ \A c \in Caller : pc[c] # "done" => cached.token \notin seen[c]

\* A call sends a token that was issued and that it has not seen rejected,
\* it awaits a renewal only while one is under way, and it has seen as many
\* rejections as it counts attempts.
CallInv ==
    \A c \in Caller :
        /\ pc[c] \in {"answer", "retry"} =>
            /\ token[c] \in Token
            /\ renewal[token[c]] = "issued"
            /\ token[c] \notin seen[c]
        /\ pc[c] = "token" => pending # NoToken
        /\ \A t \in seen[c] : renewal[t] = "issued"
        /\ pc[c] # "done" =>
            /\ outcome[c] = "none"
            /\ attempt[c] = 0 => seen[c] = {}
            /\ attempt[c] = 1 => \E t \in Token : seen[c] = {t}

IInv == TypeOK /\ RenewalInv /\ CacheInv /\ CallInv /\ RenewedOnce /\ FailsForItsOwnCause

-----------------------------------------------------------------------------
\* What the assumption on the constants says, in the form the proofs use.
LEMMA Constants ==
    /\ Token \subseteq Nat
    /\ NoToken \notin Token
    /\ MaxFailures \in Nat
BY BoundAssumption DEF Token

\* The initial state satisfies the inductive invariant.
LEMMA InitInv == Init => IInv
<1> SUFFICES ASSUME Init PROVE IInv
  OBVIOUS
<1> USE Constants DEF Init
<1>1. TypeOK
  BY DEF TypeOK, NotCached, Waiting, TokenAttempts, HttpAttempts
<1>2. RenewalInv /\ CacheInv /\ CallInv
  BY DEF RenewalInv, CacheInv, CallInv, UnderWay, NotCached
<1>3. RenewedOnce /\ FailsForItsOwnCause
  BY DEF RenewedOnce, FailsForItsOwnCause
<1> QED
  BY <1>1, <1>2, <1>3 DEF IInv

\* Every step keeps the shape of the state.
LEMMA StepType == IInv /\ Next => TypeOK'
<1> SUFFICES ASSUME IInv, Next PROVE TypeOK'
  OBVIOUS
<1> USE Constants DEF IInv, TypeOK, Waiting, TokenAttempts, HttpAttempts, callVars, tokenVars, history
<1>0. ASSUME NEW c \in Caller, NEW cache \in [token : Token \cup {NoToken}, fresh : BOOLEAN],
             cache.fresh => cache.token \in Token, pc[c] # "token", Obtain(c, cache)
      PROVE  /\ pc' \in [Caller -> {"idle", "done"} \cup Waiting]
             /\ token' \in [Caller -> Token \cup {NoToken}]
             /\ waitsFor' \in [Caller -> Token \cup {NoToken}]
             /\ tries' \in [Caller -> 0..(HttpAttempts - 1)]
             /\ cached' \in [token : Token \cup {NoToken}, fresh : BOOLEAN]
             /\ pending' \in Token \cup {NoToken}
             /\ renewal' \in [Token -> {"none", "asking", "recording", "issued", "failed"}]
             /\ failedTries' \in [Token -> 0..(HttpAttempts - 1)]
             /\ pending' # NoToken => renewal'[pending'] \in {"asking", "recording"}
             /\ \A d \in Caller : pc'[d] = "token" => pending' = waitsFor'[d]
  <2>1. CASE cache.fresh
    BY <1>0, <2>1 DEF Obtain
  <2>2. CASE ~cache.fresh /\ pending # NoToken
    BY <1>0, <2>2 DEF Obtain, Renew
  <2>3. CASE ~cache.fresh /\ pending = NoToken
    <3>1. PICK n \in Token : /\ renewal' = [renewal EXCEPT ![n] = "asking"]
                             /\ pending' = n
                             /\ waitsFor' = [waitsFor EXCEPT ![c] = n]
      BY <1>0, <2>3 DEF Obtain, Renew
    <3>2. \A d \in Caller : pc[d] # "token"
      BY <2>3 DEF CallInv
    <3> QED
      BY <1>0, <2>3, <3>1, <3>2 DEF Obtain
  <2> QED
    BY <2>1, <2>2, <2>3
<1>1. ASSUME NEW c \in Caller, Call(c) PROVE TypeOK'
  BY <1>0, <1>1 DEF Call, CacheInv
<1>2. ASSUME NEW c \in Caller, Succeed(c) \/ Refuse(c) PROVE TypeOK'
  <2>1. CASE Succeed(c)
    BY <2>1 DEF Succeed, End, EndAll
  <2>2. CASE Refuse(c)
    BY <2>2 DEF Refuse, End, EndAll
  <2> QED
    BY <1>2, <2>1, <2>2
<1>3. ASSUME NEW c \in Caller, FailOnce(c) PROVE TypeOK'
  BY <1>3 DEF FailOnce, End, EndAll
<1>4. ASSUME NEW c \in Caller, Retry(c) PROVE TypeOK'
  BY <1>4 DEF Retry
<1>5. ASSUME NEW c \in Caller, Reject(c) PROVE TypeOK'
  <2>1. CASE /\ TokenLeft(c)
             /\ attempt' = [attempt EXCEPT ![c] = @ + 1]
             /\ Obtain(c, WithoutRejected(c))
             /\ UNCHANGED outcome
    <3>1. WithoutRejected(c) \in [token : Token \cup {NoToken}, fresh : BOOLEAN]
      BY DEF WithoutRejected, NotCached
    <3>2. WithoutRejected(c).fresh => WithoutRejected(c).token \in Token
      BY DEF WithoutRejected, NotCached, CacheInv
    <3>3. pc[c] # "token"
      BY <1>5 DEF Reject
    <3>4. seen' \in [Caller -> SUBSET Token] /\ UNCHANGED <<revoked, aged, signalled, failures>>
      <4>1. /\ seen' = [seen EXCEPT ![c] = @ \cup {token[c]}]
            /\ token[c] \in Token
            /\ UNCHANGED <<revoked, aged, signalled, failures>>
        BY <1>5 DEF Reject
      <4> QED
        BY <4>1
    <3>5. attempt' \in [Caller -> 0..(TokenAttempts - 1)]
      BY <2>1 DEF TokenLeft
    <3> QED
      BY <1>0, <2>1, <3>1, <3>2, <3>3, <3>4, <3>5
  <2>2. CASE End(c, "rejected") /\ UNCHANGED tokenVars
    <3>1. /\ seen' = [seen EXCEPT ![c] = @ \cup {token[c]}]
          /\ token[c] \in Token
          /\ UNCHANGED <<revoked, aged, signalled, failures>>
      BY <1>5 DEF Reject
    <3> QED
      BY <2>2, <3>1 DEF End, EndAll
  <2> QED
    BY <1>5, <2>1, <2>2 DEF Reject
<1>6. ASSUME NEW c \in Caller, Abort(c) PROVE TypeOK'
  BY <1>6 DEF Abort, AbortedWith, EndAll
<1>7. ASSUME NEW n \in Token, IssueRetry(n) \/ Issue(n) \/ Revoke(n) PROVE TypeOK'
  <2>1. CASE IssueRetry(n)
    BY <2>1 DEF IssueRetry
  <2>2. CASE Issue(n)
    BY <2>2 DEF Issue
  <2>3. CASE Revoke(n)
    BY <2>3 DEF Revoke
  <2> QED
    BY <1>7, <2>1, <2>2, <2>3
<1>8. ASSUME NEW n \in Token, Recorded(n) PROVE TypeOK'
  BY <1>8 DEF Recorded, Cleared, Waiters, RenewalInv, UnderWay
<1>9. ASSUME NEW n \in Token, IssueFails(n) PROVE TypeOK'
  BY <1>9 DEF IssueFails, Cleared, Waiters, EndAll, RenewalInv, UnderWay
<1>10. CASE Age
  BY <1>10 DEF Age, CacheInv
<1> QED
  BY <1>1, <1>2, <1>3, <1>4, <1>5, <1>6, <1>7, <1>8, <1>9, <1>10 DEF Next

-----------------------------------------------------------------------------
(* What steps do to renewals.                                              *)

\* A cached token stays, or is no longer used and is gone if it was usable.
CacheKept == cached' = cached \/ (~cached'.fresh /\ (cached.fresh => cached.token \in Gone'))

\* A renewal starts, with no usable token at hand.
Starts(n) ==
    /\ pending = NoToken
    /\ IsNext(n)
    /\ ~cached'.fresh
    /\ renewal' = [renewal EXCEPT ![n] = "asking"]
    /\ pending' = n

\* The renewal under way goes on or fails.
GoesOn(n) ==
    /\ renewal[n] \in UnderWay
    /\ \/ renewal' = [renewal EXCEPT ![n] = "recording"] /\ pending' = pending
       \/ renewal' = [renewal EXCEPT ![n] = "failed"] /\ pending' = NoToken

\* A token that is gone stays gone.
LEMMA GoneGrows == IInv /\ Next => Gone \subseteq Gone'
<1> SUFFICES ASSUME IInv, Next PROVE aged \subseteq aged' /\ \A c \in Caller : seen[c] \subseteq seen'[c]
  BY DEF Gone
<1> USE DEF IInv, TypeOK, history
<1>1. ASSUME NEW c \in Caller,
             Call(c) \/ Succeed(c) \/ Refuse(c) \/ FailOnce(c) \/ Retry(c) \/ Reject(c) \/ Abort(c)
      PROVE  aged \subseteq aged' /\ \A d \in Caller : seen[d] \subseteq seen'[d]
  BY <1>1 DEF Call, Succeed, Refuse, FailOnce, Retry, Reject, Abort
<1>2. ASSUME NEW n \in Token,
             IssueRetry(n) \/ Issue(n) \/ Recorded(n) \/ IssueFails(n) \/ Revoke(n)
      PROVE  aged' = aged /\ seen' = seen
  BY <1>2 DEF IssueRetry, Issue, Recorded, IssueFails, Revoke
<1>3. CASE Age
  BY <1>3 DEF Age
<1> QED
  BY <1>1, <1>2, <1>3 DEF Next

\* Every step does one of five things to renewals and the cache.
LEMMA RenewalStep ==
    IInv /\ Next =>
        \/ CacheKept /\ UNCHANGED <<renewal, pending>>
        \/ CacheKept /\ \E n \in Token : Starts(n) \/ GoesOn(n)
        \/ \E n \in Token : Recorded(n)
<1> SUFFICES ASSUME IInv, Next
             PROVE  \/ CacheKept /\ UNCHANGED <<renewal, pending>>
                    \/ CacheKept /\ \E n \in Token : Starts(n) \/ GoesOn(n)
                    \/ \E n \in Token : Recorded(n)
  OBVIOUS
<1> USE DEF IInv, TypeOK, tokenVars
<1>1. ASSUME NEW c \in Caller, NEW cache, Obtain(c, cache)
      PROVE  /\ cached' = cache
             /\ UNCHANGED <<renewal, pending>> \/ \E n \in Token : Starts(n)
  BY <1>1 DEF Obtain, Renew, Starts
<1>2. ASSUME NEW c \in Caller, Call(c)
      PROVE  CacheKept /\ (UNCHANGED <<renewal, pending>> \/ \E n \in Token : Starts(n))
  BY <1>1, <1>2 DEF Call, CacheKept
<1>3. ASSUME NEW c \in Caller, Reject(c)
      PROVE  CacheKept /\ (UNCHANGED <<renewal, pending>> \/ \E n \in Token : Starts(n))
  <2>1. CASE UNCHANGED tokenVars
    BY <2>1 DEF CacheKept
  <2>2. CASE Obtain(c, WithoutRejected(c))
    <3>1. cached' = WithoutRejected(c) /\ (UNCHANGED <<renewal, pending>> \/ \E n \in Token : Starts(n))
      BY <1>1, <2>2
    <3>2. token[c] \in Gone'
      BY <1>3 DEF Reject, Gone
    <3>3. CacheKept
      BY <3>1, <3>2 DEF CacheKept, WithoutRejected, NotCached
    <3> QED
      BY <3>1, <3>3
  <2> QED
    BY <1>3, <2>1, <2>2 DEF Reject
<1>4. ASSUME NEW c \in Caller,
             Succeed(c) \/ Refuse(c) \/ FailOnce(c) \/ Retry(c) \/ Abort(c)
      PROVE  CacheKept /\ UNCHANGED <<renewal, pending>>
  BY <1>4 DEF Succeed, Refuse, FailOnce, Retry, Abort, CacheKept
<1>5. ASSUME NEW n \in Token, IssueRetry(n) \/ Revoke(n)
      PROVE  CacheKept /\ UNCHANGED <<renewal, pending>>
  BY <1>5 DEF IssueRetry, Revoke, CacheKept
<1>6. ASSUME NEW n \in Token, Issue(n) \/ IssueFails(n)
      PROVE  CacheKept /\ GoesOn(n)
  BY <1>6 DEF Issue, IssueFails, CacheKept, GoesOn, Cleared, RenewalInv, UnderWay
<1>7. CASE Age
  BY <1>7 DEF Age, CacheKept, Gone
<1> QED
  BY <1>2, <1>3, <1>4, <1>5, <1>6, <1>7 DEF Next

\* Renewals start in order and one at a time, and no token is asked for
\* while one is to be had.
LEMMA StepRenewals == IInv /\ Next => RenewalInv' /\ RenewedOnce'
<1> SUFFICES ASSUME IInv, Next PROVE RenewalInv' /\ RenewedOnce'
  OBVIOUS
<1> USE Constants DEF IInv, TypeOK, UnderWay
<1>0. Gone \subseteq Gone'
  BY GoneGrows
<1>1. RenewedOnce <=> \A m, n \in Token : m < n /\ renewal[n] # "none" =>
                          renewal[m] = "failed" \/ (renewal[m] = "issued" /\ m \in Gone)
  BY DEF RenewedOnce, Gone
<1>2. RenewedOnce' <=> \A m, n \in Token : m < n /\ renewal'[n] # "none" =>
                          renewal'[m] = "failed" \/ (renewal'[m] = "issued" /\ m \in Gone')
  BY DEF RenewedOnce, Gone
<1>3. CASE CacheKept /\ UNCHANGED <<renewal, pending>>
  BY <1>0, <1>1, <1>2, <1>3 DEF CacheKept, RenewalInv
<1>4. ASSUME CacheKept, NEW n \in Token, Starts(n)
      PROVE  RenewalInv' /\ RenewedOnce'
  <2>1. \A m \in Token : m < n => renewal[m] = "failed" \/ (renewal[m] = "issued" /\ m \in Gone')
    BY <1>0, <1>4 DEF Starts, IsNext, CacheKept, RenewalInv, Token
  <2>2. \A m \in Token : m > n => renewal[m] = "none"
    BY <1>4 DEF Starts, IsNext, RenewalInv
  <2> QED
    BY <1>0, <1>1, <1>2, <1>4, <2>1, <2>2 DEF Starts, IsNext, CacheKept, RenewalInv
<1>5. ASSUME CacheKept, NEW n \in Token, GoesOn(n)
      PROVE  RenewalInv' /\ RenewedOnce'
  BY <1>0, <1>1, <1>2, <1>5 DEF GoesOn, CacheKept, RenewalInv
<1>6. ASSUME NEW n \in Token, Recorded(n)
      PROVE  RenewalInv' /\ RenewedOnce'
  BY <1>0, <1>1, <1>2, <1>6 DEF Recorded, Cleared, CacheInv, RenewalInv
<1> QED
  BY <1>3, <1>4, <1>5, <1>6, RenewalStep

-----------------------------------------------------------------------------
(* What steps do to the cache and the calls.                               *)

\* A token that was issued remains so.
LEMMA IssuedStays ==
    IInv /\ Next => \A n \in Token : renewal[n] = "issued" => renewal'[n] = "issued"
BY RenewalStep DEF IInv, TypeOK, Starts, IsNext, GoesOn, UnderWay, Recorded

\* What a call may do to its own state without disturbing the invariant.
CallKept(c) ==
    /\ seen'[c] = seen[c]
    /\ \/ pc'[c] = "done"
       \/ /\ pc[c] # "done"
          /\ attempt'[c] = attempt[c]
          /\ outcome'[c] = outcome[c]
          /\ \/ /\ pc'[c] = pc[c]
                /\ token'[c] = token[c]
                /\ pc[c] = "token" => pending' # NoToken
             \/ /\ {pc[c], pc'[c]} \subseteq {"answer", "retry"}
                /\ token'[c] = token[c]
             \/ /\ pc'[c] = "token"
                /\ pending' # NoToken
             \/ /\ pc'[c] = "answer"
                /\ token'[c] \in Token \ seen[c]
                /\ renewal'[token'[c]] = "issued"

\* The invariant of the calls, for one of them.
CallOK(c) ==
    /\ pc[c] \in {"answer", "retry"} =>
        /\ token[c] \in Token
        /\ renewal[token[c]] = "issued"
        /\ token[c] \notin seen[c]
    /\ pc[c] = "token" => pending # NoToken
    /\ \A t \in seen[c] : renewal[t] = "issued"
    /\ pc[c] # "done" =>
        /\ outcome[c] = "none"
        /\ attempt[c] = 0 => seen[c] = {}
        /\ attempt[c] = 1 => \E t \in Token : seen[c] = {t}

\* A call that is kept in one of these ways remains in order.
LEMMA KeptCall ==
    ASSUME IInv, Next, NEW c \in Caller, CallKept(c)
    PROVE  CallOK(c)'
BY IssuedStays DEF CallKept, CallOK, IInv, TypeOK, CallInv

\* A call that gets a token, or awaits one, has one it has not seen rejected.
LEMMA Obtained ==
    ASSUME IInv, NEW c \in Caller, NEW cache \in {cached, NotCached}, Obtain(c, cache)
    PROVE  \/ /\ pc'[c] = "answer"
              /\ cache = cached /\ cached.fresh
              /\ token'[c] = cached.token
              /\ UNCHANGED <<renewal, pending>>
           \/ /\ pc'[c] = "token"
              /\ pending' # NoToken
BY Constants DEF Obtain, Renew, NotCached, IInv, TypeOK

\* The calls stay in order.
LEMMA StepCalls == IInv /\ Next => CallInv'
<1> SUFFICES ASSUME IInv, Next, NEW d \in Caller PROVE CallOK(d)'
  BY DEF CallInv, CallOK
<1> USE DEF IInv, TypeOK, callVars, tokenVars, history
<1>0. CallOK(d)
  BY DEF CallInv, CallOK
<1>1. ASSUME NEW c \in Caller, NEW cache \in {cached, NotCached}, Obtain(c, cache), d # c, UNCHANGED seen,
             UNCHANGED <<attempt, outcome>>
      PROVE  CallKept(d)
  BY <1>0, <1>1, Constants DEF Obtain, Renew, CallOK, CallKept
<1>2. ASSUME NEW c \in Caller, Call(c) PROVE CallOK(d)'
  <2>1. CASE d = c
    <3>1. Obtain(d, cached) /\ pc[d] = "idle" /\ UNCHANGED <<attempt, outcome, seen>>
      BY <1>2, <2>1 DEF Call
    <3>2. \/ /\ pc'[d] = "answer"
             /\ cached.fresh
             /\ token'[d] = cached.token
             /\ renewal' = renewal
          \/ pc'[d] = "token" /\ pending' # NoToken
      BY <3>1, Obtained
    <3>3. CallKept(d)
      BY <3>1, <3>2, Constants DEF CallKept, CacheInv
    <3> QED
      BY <3>3, KeptCall
  <2>2. CASE d # c
    BY <1>1, <1>2, <2>2, KeptCall DEF Call
  <2> QED
    BY <2>1, <2>2
<1>3. ASSUME NEW c \in Caller, Reject(c) PROVE CallOK(d)'
  <2>1. /\ pc[c] = "answer"
        /\ seen' = [seen EXCEPT ![c] = @ \cup {token[c]}]
        /\ \A t \in seen'[c] : renewal'[t] = "issued"
    BY <1>3, IssuedStays DEF Reject, CallInv
  <2>2. CASE d # c
    BY <1>0, <1>3, <2>1, <2>2, KeptCall, Constants
       DEF Reject, End, EndAll, Obtain, Renew, CallOK, CallKept
  <2>3. CASE d = c /\ End(c, "rejected")
    BY <2>1, <2>3 DEF CallOK, End, EndAll
  <2>4. CASE d = c /\ TokenLeft(c) /\ Obtain(c, WithoutRejected(c))
             /\ attempt' = [attempt EXCEPT ![c] = @ + 1] /\ UNCHANGED outcome
    <3>1. WithoutRejected(c) \in {cached, NotCached}
      BY DEF WithoutRejected
    <3>2. attempt[c] = 0 /\ attempt'[c] = 1 /\ seen'[c] = {token[c]} /\ token[c] \in Token
      BY <1>0, <2>1, <2>4 DEF CallOK, TokenLeft, TokenAttempts
    <3>3. pc'[c] = "answer" =>
            token'[c] \in Token \ {token[c]} /\ renewal'[token'[c]] = "issued"
      <4>1. pc'[c] = "answer" =>
                /\ WithoutRejected(c) = cached /\ cached.fresh
                /\ token'[c] = cached.token
                /\ renewal' = renewal
        BY <2>4, <3>1, Obtained
      <4>2. WithoutRejected(c) = cached /\ cached.fresh => cached.token # token[c]
        BY DEF WithoutRejected, NotCached
      <4> QED
        BY <4>1, <4>2, Constants DEF CacheInv
    <3>4. pc'[c] = "answer" \/ (pc'[c] = "token" /\ pending' # NoToken)
      BY <2>4, <3>1, Obtained
    <3> QED
      BY <1>0, <2>1, <2>4, <3>2, <3>3, <3>4 DEF CallOK
  <2> QED
    BY <1>3, <2>2, <2>3, <2>4 DEF Reject
<1>4. ASSUME NEW c \in Caller,
             Succeed(c) \/ Refuse(c) \/ FailOnce(c) \/ Retry(c) \/ Abort(c)
      PROVE  CallOK(d)'
  <2>1. CallKept(d)
    BY <1>0, <1>4 DEF Succeed, Refuse, FailOnce, Retry, Abort, AbortedWith, End, EndAll,
                      CallKept, CallOK
  <2> QED
    BY <2>1, KeptCall
<1>5. ASSUME NEW n \in Token, IssueRetry(n) \/ Issue(n) \/ Revoke(n) PROVE CallOK(d)'
  <2>1. CallKept(d) \/ pc[d] = "done"
    BY <1>0, <1>5 DEF IssueRetry, Issue, Revoke, CallKept, CallOK
  <2> QED
    BY <1>0, <1>5, <2>1, KeptCall, IssuedStays DEF IssueRetry, Issue, Revoke, CallOK
<1>6. ASSUME NEW n \in Token, Recorded(n) PROVE CallOK(d)'
  <2>1. pending = n
    BY <1>6 DEF Recorded, RenewalInv, UnderWay
  <2>2. CallKept(d) \/ pc[d] = "done"
    BY <1>0, <1>6, <2>1 DEF Recorded, Waiters, CallKept, CallOK
  <2> QED
    BY <1>0, <1>6, <2>2, KeptCall, IssuedStays DEF Recorded, Waiters, CallOK
<1>7. ASSUME NEW n \in Token, IssueFails(n) PROVE CallOK(d)'
  <2>1. pending = n
    BY <1>7 DEF IssueFails, RenewalInv, UnderWay
  <2>2. CallKept(d)
    BY <1>0, <1>7, <2>1 DEF IssueFails, Waiters, EndAll, CallKept, CallOK
  <2> QED
    BY <2>2, KeptCall
<1>8. CASE Age
  <2>1. CallKept(d) \/ pc[d] = "done"
    BY <1>0, <1>8 DEF Age, CallKept, CallOK
  <2> QED
    BY <1>0, <1>8, <2>1, KeptCall DEF Age, CallOK
<1> QED
  BY <1>2, <1>3, <1>4, <1>5, <1>6, <1>7, <1>8 DEF Next

\* Rejections are seen by calls that end with them or drop the token.
LEMMA SeenStep ==
    IInv /\ Next => \A d \in Caller :
        \/ pc'[d] = "done" /\ (pc[d] = "done" => seen'[d] = seen[d])
        \/ pc[d] # "done" /\ seen'[d] = seen[d]
        \/ pc[d] # "done" /\ seen'[d] = seen[d] \cup {token[d]} /\ cached' = WithoutRejected(d)
<1> SUFFICES ASSUME IInv, Next, NEW d \in Caller
             PROVE  \/ pc'[d] = "done" /\ (pc[d] = "done" => seen'[d] = seen[d])
                    \/ pc[d] # "done" /\ seen'[d] = seen[d]
                    \/ pc[d] # "done" /\ seen'[d] = seen[d] \cup {token[d]} /\ cached' = WithoutRejected(d)
  OBVIOUS
<1> USE DEF IInv, TypeOK, callVars, history
<1>1. ASSUME NEW c \in Caller, Reject(c)
      PROVE  \/ pc'[d] = "done" /\ (pc[d] = "done" => seen'[d] = seen[d])
             \/ pc[d] # "done" /\ seen'[d] = seen[d]
             \/ pc[d] # "done" /\ seen'[d] = seen[d] \cup {token[d]} /\ cached' = WithoutRejected(d)
  BY <1>1 DEF Reject, End, EndAll, Obtain
<1>2. ASSUME NEW c \in Caller,
             Call(c) \/ Succeed(c) \/ Refuse(c) \/ FailOnce(c) \/ Retry(c) \/ Abort(c)
      PROVE  seen' = seen /\ (pc'[d] = pc[d] \/ pc[d] # "done")
  BY <1>2 DEF Call, Obtain, Succeed, Refuse, FailOnce, Retry, Abort, AbortedWith, End, EndAll, Waiting
<1>3. ASSUME NEW n \in Token,
             IssueRetry(n) \/ Issue(n) \/ Recorded(n) \/ IssueFails(n) \/ Revoke(n)
      PROVE  seen' = seen /\ (pc'[d] = pc[d] \/ pc[d] # "done")
  BY <1>3 DEF IssueRetry, Issue, Recorded, IssueFails, Revoke, EndAll, Waiters
<1>4. CASE Age
  BY <1>4 DEF Age
<1> QED
  BY <1>1, <1>2, <1>3, <1>4 DEF Next

\* What is cached is usable.
LEMMA StepCache == IInv /\ Next => CacheInv'
<1> SUFFICES ASSUME IInv, Next PROVE CacheInv'
  OBVIOUS
<1> USE Constants DEF IInv, TypeOK
<1>1. cached'.token # NoToken => renewal'[cached'.token] = "issued"
  <2>1. cached' \in {cached, NotCached} \/ cached' = [cached EXCEPT !.fresh = FALSE]
        \/ \E n \in Token : Recorded(n)
    <3>1. ASSUME NEW c \in Caller, NEW cache, Obtain(c, cache) PROVE cached' = cache
      BY <3>1 DEF Obtain
    <3> QED
      BY <3>1 DEF Next, Call, Succeed, Refuse, FailOnce, Retry, Reject, WithoutRejected, Abort,
                  IssueRetry, Issue, IssueFails, Revoke, Age, tokenVars
  <2> QED
    BY <2>1, IssuedStays DEF CacheInv, NotCached, Recorded
<1>2. CASE CacheKept /\ ~(\E n \in Token : Recorded(n)) /\ cached'.fresh
  <2>1. cached' = cached /\ pending' = NoToken
    BY <1>2, RenewalStep DEF CacheKept, CacheInv, RenewalInv, Starts, GoesOn
  <2>2. \A d \in Caller : pc'[d] # "done" => cached.token \notin seen'[d]
    BY <1>2, <2>1, SeenStep DEF CacheInv, WithoutRejected, NotCached
  <2> QED
    BY <1>1, <1>2, <2>1, <2>2 DEF CacheInv
<1>3. ASSUME NEW n \in Token, Recorded(n) PROVE CacheInv'
  BY <1>1, <1>3 DEF Recorded, Cleared, RenewalInv, UnderWay, CacheInv, CallInv, history
<1> QED
  BY <1>1, <1>2, <1>3, RenewalStep DEF CacheInv

\* A call that ends ends for its own cause.
LEMMA StepCause == IInv /\ Next => FailsForItsOwnCause'
<1> SUFFICES ASSUME IInv, Next, NEW d \in Caller
             PROVE  /\ outcome'[d] = "aborted" => d \in signalled'
                    /\ outcome'[d] = "rejected" => Cardinality(seen'[d]) = 2
  BY DEF FailsForItsOwnCause
<1> USE DEF IInv, TypeOK, callVars, history
<1>0. outcome[d] # "none" => pc[d] = "done"
  BY DEF CallInv
<1>1. ASSUME outcome'[d] = outcome[d], signalled \subseteq signalled',
             pc[d] = "done" => seen'[d] = seen[d]
      PROVE  /\ outcome'[d] = "aborted" => d \in signalled'
             /\ outcome'[d] = "rejected" => Cardinality(seen'[d]) = 2
  BY <1>0, <1>1 DEF FailsForItsOwnCause
<1>2. pc[d] = "done" => seen'[d] = seen[d]
  <2>1. ASSUME NEW c \in Caller, Reject(c) PROVE pc[c] # "done" /\ (d # c => seen'[d] = seen[d])
    BY <2>1 DEF Reject
  <2>2. ASSUME NEW c \in Caller,
               Call(c) \/ Succeed(c) \/ Refuse(c) \/ FailOnce(c) \/ Retry(c) \/ Abort(c)
        PROVE  seen' = seen
    BY <2>2 DEF Call, Succeed, Refuse, FailOnce, Retry, Abort
  <2>3. ASSUME NEW n \in Token,
               IssueRetry(n) \/ Issue(n) \/ Recorded(n) \/ IssueFails(n) \/ Revoke(n)
        PROVE  seen' = seen
    BY <2>3 DEF IssueRetry, Issue, Recorded, IssueFails, Revoke
  <2>4. CASE Age
    BY <2>4 DEF Age
  <2> QED
    BY <2>1, <2>2, <2>3, <2>4 DEF Next
<1>3. ASSUME NEW c \in Caller, Reject(c)
      PROVE  /\ outcome'[d] = "aborted" => d \in signalled'
             /\ outcome'[d] = "rejected" => Cardinality(seen'[d]) = 2
  <2>1. CASE UNCHANGED outcome \/ d # c
    BY <1>1, <1>2, <1>3, <2>1 DEF Reject, End, EndAll
  <2>2. CASE d = c /\ ~TokenLeft(c) /\ End(c, "rejected")
    <3>1. attempt[c] = 1
      BY <2>2, BoundAssumption DEF TokenLeft, TokenAttempts
    <3>2. PICK t \in Token : seen[c] = {t}
      BY <1>3, <3>1 DEF Reject, CallInv
    <3>3. seen'[c] = {t} \cup {token[c]} /\ token[c] # t
      BY <1>3, <3>2 DEF Reject, CallInv
    <3>4. Cardinality({t}) = 1 /\ IsFiniteSet({t})
      BY FS_Singleton
    <3>5. Cardinality({t} \cup {token[c]}) = Cardinality({t}) + 1
      BY <3>3, <3>4, FS_AddElement
    <3>6. Cardinality({t} \cup {token[c]}) = 2
      BY <3>4, <3>5
    <3>7. Cardinality(seen'[c]) = 2
      BY <3>3, <3>6, Zenon
    <3> QED
      BY <2>2, <3>7 DEF End, EndAll
  <2> QED
    BY <1>3, <2>1, <2>2 DEF Reject
<1>4. ASSUME NEW c \in Caller, Abort(c)
      PROVE  /\ outcome'[d] = "aborted" => d \in signalled'
             /\ outcome'[d] = "rejected" => Cardinality(seen'[d]) = 2
  BY <1>1, <1>2, <1>4 DEF Abort, AbortedWith, EndAll
<1>5. ASSUME NEW c \in Caller, Call(c) \/ Succeed(c) \/ Refuse(c) \/ FailOnce(c) \/ Retry(c)
      PROVE  /\ outcome'[d] = "aborted" => d \in signalled'
             /\ outcome'[d] = "rejected" => Cardinality(seen'[d]) = 2
  BY <1>1, <1>2, <1>5 DEF Call, Succeed, Refuse, FailOnce, Retry, End, EndAll
<1>6. ASSUME NEW n \in Token,
             IssueRetry(n) \/ Issue(n) \/ Recorded(n) \/ IssueFails(n) \/ Revoke(n)
      PROVE  /\ outcome'[d] = "aborted" => d \in signalled'
             /\ outcome'[d] = "rejected" => Cardinality(seen'[d]) = 2
  BY <1>1, <1>2, <1>6 DEF IssueRetry, Issue, Recorded, IssueFails, Revoke, EndAll, Waiters
<1>7. CASE Age
  BY <1>1, <1>2, <1>7 DEF Age
<1> QED
  BY <1>3, <1>4, <1>5, <1>6, <1>7 DEF Next

-----------------------------------------------------------------------------
(* The theorems.                                                           *)

\* A step that changes nothing keeps the invariant.
LEMMA StutterInv == IInv /\ UNCHANGED vars => IInv'
<1> SUFFICES ASSUME IInv, UNCHANGED vars PROVE IInv'
  OBVIOUS
<1> USE DEF IInv, vars, callVars, tokenVars, history
<1>1. TypeOK'
  BY DEF TypeOK
<1>2. RenewalInv' /\ CacheInv' /\ CallInv'
  BY DEF RenewalInv, CacheInv, CallInv, Gone
<1>3. RenewedOnce' /\ FailsForItsOwnCause'
  BY DEF RenewedOnce, FailsForItsOwnCause
<1> QED
  BY <1>1, <1>2, <1>3

\* The invariant holds in every state.
THEOREM Invariance == Spec => []IInv
<1>1. IInv /\ [Next]_vars => IInv'
  BY StepType, StepRenewals, StepCache, StepCalls, StepCause, StutterInv DEF IInv
<1> QED
  BY <1>1, InitInv, PTL DEF Spec

\* Calls, tokens and renewals keep their shape, for every number of them.
THEOREM TypeCorrect == Spec => []TypeOK
<1>1. IInv => TypeOK
  BY DEF IInv
<1> QED
  BY <1>1, Invariance, PTL

\* A token is asked for only when every earlier one failed to come, expires
\* soon, or was rejected, however many calls share the cache.
THEOREM RenewalsAreShared == Spec => []RenewedOnce
<1>1. IInv => RenewedOnce
  BY DEF IInv
<1> QED
  BY <1>1, Invariance, PTL

\* A call is aborted only by its own signal, and fails for authentication
\* only after two different tokens of its own were rejected.
THEOREM CausesAreOwn == Spec => []FailsForItsOwnCause
<1>1. IInv => FailsForItsOwnCause
  BY DEF IInv
<1> QED
  BY <1>1, Invariance, PTL

-----------------------------------------------------------------------------
(* Polling of synchronisations.                                            *)

\* A batch that is not made has no stamp.
StampInv == \A b \in Batch : made[b] = 0 => stamp[b] = 0 /\ overAt[b] = 0

\* What a tab shows of a batch, or has received of it, the server has said.
SaidOK == \A t \in Tab, b \in Batch : known[t][b] <= stamp[b] /\ poll[t].received[b] <= stamp[b]

\* What a tab has of an answer is not newer than the batch.
AnswersOK == \A t \in Tab : post[t].batch # 0 => post[t].stamp <= stamp[post[t].batch]

\* What a tab is sending is the request that it has stored.
PostInv ==
    \A t \in Tab : post[t].pc # "idle" =>
        /\ post[t].batch \in Batch
        /\ post[t].batch = pendingRequest[t]

\* A batch that is over and behind the recent ones: it is in no list any more.
Past(b) == overAt[b] > 0 /\ Cardinality(Newer(b)) >= Recent

\* What was told to a tab and is not followed any more is past. What it was
\* told of after its turn, or too late to be read as a followed batch, has
\* asked for another poll. A tab that sleeps shows nothing active and owes
\* nothing.
WakeOK(t) ==
    /\ \A b \in (refresh[t] \cup poll[t].refreshed) \ watched[t] : Past(b)
    /\ poll[t].pc \notin InFlight =>
        poll[t].received = Nothing /\ poll[t].refreshed = {} /\ poll[t].late = {}
    /\ ~poll[t].wake =>
        /\ poll[t].late = {}
        /\ poll[t].refreshed \cap refresh[t] = {}
        /\ \A b \in refresh[t] : poll[t].received[b] > 0 => b \in watched[t]
    /\ poll[t].pc = "asleep" => ~HasActive(known[t]) /\ refresh[t] \cap watched[t] = {}

WakeInv == \A t \in Tab : WakeOK(t)

TabInv ==
    TabsTypeOK /\ StampInv /\ SaidOK /\ AnswersOK /\ PostInv /\ NothingAskedTwice /\ WakeInv

\* What the assumptions on the constants say, in the forms the proofs use.
LEMMA TabConstants ==
    /\ Batch \subseteq Nat /\ 0 \notin Batch
    /\ IsFiniteSet(Batch) /\ Cardinality(Batch) = MaxBatches
    /\ MaxBatches \in Nat /\ MaxFaults \in Nat /\ MaxActions \in Nat
    /\ MaxStamp \in Nat /\ MaxStamp > 0 /\ Recent \in Nat /\ Recent > 0
    /\ NoTab \notin Tab /\ Other \notin Tab /\ NoTab # Other
    /\ Nothing \in [Batch -> 0..MaxStamp]
<1>1. IsFiniteSet(Batch) /\ Cardinality(Batch) = MaxBatches
  BY TabBounds, FS_Interval DEF Batch
<1> QED
  BY <1>1, TabBounds, TabAssumption DEF Batch, Nothing, NoTab, Other

\* Sets of batches are finite, and larger sets count more.
LEMMA Counting ==
    ASSUME NEW S \in SUBSET Batch, NEW T \in SUBSET S
    PROVE  /\ Cardinality(S) \in Nat /\ Cardinality(T) \in Nat
           /\ Cardinality(T) <= Cardinality(S)
<1>1. IsFiniteSet(S)
  BY TabConstants, FS_Subset
<1>2. IsFiniteSet(T) /\ Cardinality(T) <= Cardinality(S)
  BY <1>1, FS_Subset
<1> QED
  BY <1>1, <1>2, FS_CardinalityType

-----------------------------------------------------------------------------
(* What is done with the record of a poll.                                 *)

LEMMA StartedIs ==
    ASSUME NEW p \in PollType
    PROVE  /\ Started(p) \in PollType /\ Started(p).pc = "list" /\ ~Started(p).wake
           /\ Started(p).received = p.received /\ Started(p).refreshed = p.refreshed
           /\ Started(p).late = p.late
BY DEF Started, PollType, InFlight

LEMMA WokenIs ==
    ASSUME NEW p \in PollType, NEW h \in BOOLEAN
    PROVE  /\ Woken(p, h) \in PollType /\ Woken(p, h).pc \in InFlight
           /\ p.pc \in InFlight => Woken(p, h).wake
           /\ Woken(p, h).received = p.received /\ Woken(p, h).refreshed = p.refreshed
           /\ Woken(p, h).late = p.late
<1>1. CASE p.pc \in InFlight
  BY <1>1 DEF Woken, PollType
<1>2. CASE p.pc \notin InFlight
  <2> DEFINE q == [p EXCEPT !.hist = @ \/ h]
  <2>1. /\ q \in PollType /\ q.received = p.received /\ q.refreshed = p.refreshed
        /\ q.late = p.late
    BY DEF PollType
  <2>2. Woken(p, h) = Started(q)
    BY <1>2 DEF Woken
  <2> HIDE DEF q
  <2> QED
    BY <1>2, <2>1, <2>2, StartedIs DEF InFlight
<1> QED
  BY <1>1, <1>2

LEMMA ToldIs ==
    ASSUME NEW p \in PollType, NEW b \in Batch
    PROVE  /\ ToldOf(p, b) \in PollType /\ ToldOf(p, b).pc \in InFlight
           /\ p.pc \in InFlight => ToldOf(p, b).wake
           /\ ToldOf(p, b).received = p.received /\ ToldOf(p, b).refreshed = p.refreshed
           /\ p.pc \notin InFlight => ToldOf(p, b).late = p.late
<1> DEFINE q == [p EXCEPT !.late = IF p.pc = "ids" THEN @ \cup {b} ELSE @]
<1>1. /\ q \in PollType /\ q.pc = p.pc /\ q.received = p.received /\ q.refreshed = p.refreshed
      /\ p.pc \notin InFlight => q.late = p.late
  BY DEF PollType, InFlight
<1>2. ToldOf(p, b) = Woken(q, FALSE)
  BY DEF ToldOf
<1> HIDE DEF q
<1> QED
  BY <1>1, <1>2, WokenIs

LEMMA RestIs ==
    ASSUME NEW p \in PollType, NEW k
    PROVE  /\ Rest(p, k) \in PollType /\ Rest(p, k).pc \in {"timer", "asleep"}
           /\ Rest(p, k).received = Nothing /\ Rest(p, k).refreshed = {} /\ Rest(p, k).late = {}
           /\ Rest(p, k).pc = "asleep" => ~p.wake /\ ~p.failed /\ ~HasActive(k)
BY TabConstants DEF Rest, PollType, KeepsPolling, InFlight

LEMMA ReadIs ==
    ASSUME TabsTypeOK, NEW p \in PollType, NEW ids \in SUBSET Batch
    PROVE  /\ Read(p, ids) \in PollType
           /\ \A b \in Batch : Read(p, ids).received[b] = IF b \in ids THEN stamp[b] ELSE p.received[b]
           /\ Read(p, ids).pc = p.pc /\ Read(p, ids).wake = p.wake
           /\ Read(p, ids).refreshed = p.refreshed /\ Read(p, ids).late = p.late
<1> DEFINE r == [b \in Batch |-> IF b \in ids THEN stamp[b] ELSE p.received[b]]
<1>1. r \in [Batch -> 0..MaxStamp]
  BY DEF TabsTypeOK, PollType
<1>2. Read(p, ids) = [p EXCEPT !.received = r]
  BY DEF Read, PollType
<1> HIDE DEF r
<1>3. /\ [p EXCEPT !.received = r] \in PollType /\ [p EXCEPT !.received = r].received = r
      /\ [p EXCEPT !.received = r].pc = p.pc /\ [p EXCEPT !.received = r].wake = p.wake
      /\ [p EXCEPT !.received = r].refreshed = p.refreshed /\ [p EXCEPT !.received = r].late = p.late
  BY <1>1 DEF PollType
<1> QED
  BY <1>2, <1>3 DEF r

LEMMA LoadedIs ==
    /\ Loaded \in PollType /\ Loaded.pc = "list" /\ ~Loaded.wake /\ Loaded.received = Nothing
    /\ Loaded.refreshed = {} /\ Loaded.late = {}
<1>1. /\ Asleep \in PollType /\ Asleep.received = Nothing /\ Asleep.refreshed = {}
      /\ Asleep.late = {}
  BY TabConstants DEF Asleep, PollType
<1> QED
  BY <1>1, StartedIs DEF Loaded

\* What a tab shows and follows after an answer.
LEMMA AcceptIs ==
    ASSUME TabsTypeOK, NEW t \in Tab, NEW answers \in [Batch -> 0..MaxStamp], NEW selected,
           NEW told \in SUBSET Batch, Accept(t, answers, selected, told)
    PROVE  /\ known' \in [Tab -> [Batch -> 0..MaxStamp]] /\ watched' \in [Tab -> SUBSET Batch]
           /\ \A u \in Tab \ {t} : known'[u] = known[u] /\ watched'[u] = told \cup watched[u]
           /\ \A b \in Batch : /\ known'[t][b] \in {0, known[t][b], answers[b]}
                               /\ known'[t][b] > 0 => known'[t][b] >= known[t][b]
           /\ told \subseteq watched'[t]
           /\ \A b \in Batch : b \in watched[t] \/ answers[b] > 0 => b \in watched'[t] \/ Past(b)
           /\ \A b \in watched'[t] : b \in told \/ b \in watched[t] \/ answers[b] > 0
<1> DEFINE all == Newest(t, answers)
           over == {b \in Batch : all[b] > 0 /\ Over(b, all[b]) /\ b # selected}
           kept == Kept(all, selected)
           dropped == {b \in Batch : all[b] > 0 /\ kept[b] = 0}
<1>1. /\ known[t] \in [Batch -> 0..MaxStamp] /\ watched \in [Tab -> SUBSET Batch]
      /\ known \in [Tab -> [Batch -> 0..MaxStamp]]
  BY DEF TabsTypeOK
<1>2. /\ all \in [Batch -> 0..MaxStamp]
      /\ \A b \in Batch : all[b] \in {known[t][b], answers[b]} /\ all[b] >= known[t][b]
  BY <1>1, TabConstants DEF Newest
<1>3. kept = [b \in Batch |-> IF b \in over /\ Cardinality(Newer(b) \cap over) >= Recent THEN 0 ELSE all[b]]
  BY DEF Kept
<1> HIDE DEF all, kept
<1>4. kept \in [Batch -> 0..MaxStamp] /\ \A b \in Batch : kept[b] \in {0, all[b]}
  BY <1>2, <1>3, TabConstants
<1>5. ASSUME NEW b \in dropped PROVE Past(b)
  <2>1. b \in Batch /\ b \in over /\ Cardinality(Newer(b) \cap over) >= Recent
    BY <1>3, <1>5
  <2>2. Newer(b) \in SUBSET Batch /\ Newer(b) \cap over \in SUBSET Newer(b)
    BY DEF Newer
  <2>3. Cardinality(Newer(b)) >= Recent
    BY <2>1, <2>2, Counting, TabConstants
  <2> QED
    BY <2>1, <2>3 DEF Past, Over
<1>6. /\ known' = [known EXCEPT ![t] = kept]
      /\ watched' = [u \in Tab |->
            told \cup IF u = t THEN (watched[t] \cup {b \in Batch : answers[b] > 0}) \ dropped
                              ELSE watched[u]]
  BY DEF Accept, all, kept
<1> HIDE DEF over, dropped
<1>7. known'[t] = kept /\ known' \in [Tab -> [Batch -> 0..MaxStamp]]
      /\ \A u \in Tab \ {t} : known'[u] = known[u]
  BY <1>1, <1>4, <1>6
<1>8. /\ watched' \in [Tab -> SUBSET Batch]
      /\ watched'[t] = told \cup ((watched[t] \cup {b \in Batch : answers[b] > 0}) \ dropped)
      /\ \A u \in Tab \ {t} : watched'[u] = told \cup watched[u]
  BY <1>1, <1>6
<1>9. \A b \in Batch : /\ known'[t][b] \in {0, known[t][b], answers[b]}
                       /\ known'[t][b] > 0 => known'[t][b] >= known[t][b]
  BY <1>1, <1>2, <1>4, <1>7
<1> QED
  BY <1>5, <1>7, <1>8, <1>9

-----------------------------------------------------------------------------
(* The server.                                                             *)

\* Batches stay made, stamps grow, and what is over stays over.
Grows ==
    /\ made' \in [Batch -> 0..MaxBatches] /\ stamp' \in [Batch -> 0..MaxStamp]
    /\ overAt' \in [Batch -> 0..MaxStamp]
    /\ \A b \in Batch :
        /\ stamp[b] <= stamp'[b]
        /\ made[b] > 0 => made'[b] = made[b]
        /\ overAt[b] > 0 => overAt'[b] = overAt[b]
        /\ made'[b] = 0 => stamp'[b] = 0 /\ overAt'[b] = 0

LEMMA CreatedIs ==
    ASSUME TabsTypeOK, NEW b \in Batch
    PROVE  /\ Created(b) \in [Batch -> 0..MaxBatches] /\ Created(b)[b] > 0
           /\ \A c \in Batch : made[c] > 0 \/ c # b => Created(b)[c] = made[c]
<1> DEFINE S == {c \in Batch : Exists(c)}
<1>1. made \in [Batch -> 0..MaxBatches]
  BY DEF TabsTypeOK
<1>2. CASE made[b] > 0
  BY <1>1, <1>2 DEF Created
<1>3. CASE ~(made[b] > 0)
  <2>1. S \in SUBSET (Batch \ {b})
    BY <1>3 DEF Exists
  <2>2. Cardinality(Batch \ {b}) = MaxBatches - 1
    BY TabConstants, FS_RemoveElement
  <2>3. Cardinality(S) \in Nat /\ Cardinality(S) <= Cardinality(Batch \ {b})
    BY <2>1, Counting
  <2>4. 1 + Cardinality(S) \in 0..MaxBatches /\ 1 + Cardinality(S) > 0
    BY <2>2, <2>3, TabConstants
  <2>5. Created(b) = [made EXCEPT ![b] = 1 + Cardinality(S)]
    BY <1>1, <1>3 DEF Created
  <2> HIDE DEF S
  <2> QED
    BY <1>1, <1>3, <2>4, <2>5
<1> QED
  BY <1>2, <1>3

LEMMA ServerStays == TabsTypeOK /\ StampInv /\ UNCHANGED server => Grows
BY DEF TabsTypeOK, StampInv, server, Grows

LEMMA ServerStep == TabsTypeOK /\ StampInv /\ [TabsNext]_tabVars => Grows
<1> SUFFICES ASSUME TabsTypeOK, StampInv, [TabsNext]_tabVars PROVE Grows
  OBVIOUS
<1>0. /\ made \in [Batch -> 0..MaxBatches] /\ stamp \in [Batch -> 0..MaxStamp]
      /\ overAt \in [Batch -> 0..MaxStamp]
  BY DEF TabsTypeOK
<1>1. ASSUME NEW b \in Batch, Progress(b) PROVE Grows
  <2>1. /\ made' = made /\ made[b] > 0 /\ overAt[b] = 0
        /\ stamp' = [stamp EXCEPT ![b] = @ + 1] /\ stamp[b] < MaxStamp
    BY <1>1 DEF Progress, Active, Exists
  <2>2. stamp' \in [Batch -> 0..MaxStamp] /\ stamp'[b] = stamp[b] + 1
        /\ \A c \in Batch : stamp[c] <= stamp'[c]
    BY <1>0, <2>1, TabConstants
  <2>3. PICK o \in 0..MaxStamp : overAt' = [overAt EXCEPT ![b] = o]
    <3>1. PICK over \in BOOLEAN : overAt' = [overAt EXCEPT ![b] = IF over THEN stamp'[b] ELSE 0]
      BY <1>1 DEF Progress
    <3>2. stamp'[b] \in 0..MaxStamp /\ 0 \in 0..MaxStamp
      BY <2>2, TabConstants
    <3> QED
      BY <3>1, <3>2
  <2>4. \A c \in Batch : c # b => stamp'[c] = stamp[c] /\ overAt'[c] = overAt[c]
    BY <1>0, <2>1, <2>3
  <2>5. overAt' \in [Batch -> 0..MaxStamp]
    BY <1>0, <2>3
  <2> QED
    BY <1>0, <2>1, <2>2, <2>4, <2>5 DEF StampInv, Grows
<1>2. ASSUME NEW b \in Batch, made' = Created(b), overAt' = overAt,
             stamp' = [stamp EXCEPT ![b] = @ + 1], stamp[b] < MaxStamp
      PROVE  Grows
  <2>1. stamp' \in [Batch -> 0..MaxStamp] /\ \A c \in Batch : stamp[c] <= stamp'[c]
    BY <1>0, <1>2, TabConstants
  <2>2. \A c \in Batch : c # b => stamp'[c] = stamp[c]
    BY <1>0, <1>2
  <2> QED
    BY <1>0, <1>2, <2>1, <2>2, CreatedIs DEF StampInv, Grows
<1>3. ASSUME NEW b \in Batch, Elsewhere(b) PROVE Grows
  <2>1. /\ made' = Created(b) /\ overAt' = overAt /\ stamp' = [stamp EXCEPT ![b] = @ + 1]
        /\ ~Exists(b) \/ stamp[b] < MaxStamp
    BY <1>3 DEF Elsewhere
  <2>2. stamp[b] < MaxStamp
    BY <1>0, <2>1, TabConstants DEF StampInv, Exists
  <2> QED
    BY <1>2, <2>1, <2>2
<1>4. ASSUME NEW r \in wire, Handle(r) PROVE Grows
  <2> DEFINE b == r.batch
  <2>1. b \in Batch
    BY DEF TabsTypeOK
  <2>2. made' = Created(b) /\ overAt' = overAt
    BY <1>4 DEF Handle
  <2>3. \/ stamp' = [stamp EXCEPT ![b] = @ + 1] /\ (~Exists(b) \/ stamp[b] < MaxStamp)
        \/ stamp' = [stamp EXCEPT ![b] = @] /\ Exists(b)
    BY <1>4 DEF Handle
  <2> HIDE DEF b
  <2>4. CASE stamp' = [stamp EXCEPT ![b] = @ + 1] /\ (~Exists(b) \/ stamp[b] < MaxStamp)
    <3>1. stamp[b] < MaxStamp
      BY <1>0, <2>1, <2>4, TabConstants DEF StampInv, Exists
    <3> QED
      BY <1>2, <2>1, <2>2, <2>4, <3>1
  <2>5. CASE stamp' = [stamp EXCEPT ![b] = @] /\ Exists(b)
    <3>1. stamp' = stamp
      BY <1>0, <2>5
    <3> QED
      BY <1>0, <2>1, <2>2, <3>1, CreatedIs, TabConstants DEF StampInv, Grows
  <2> QED
    BY <2>3, <2>4, <2>5
<1>5. ASSUME NEW t \in Tab,
             \/ PollStep(t) \/ Resume(t) \/ PollFails(t) \/ Submit(t) \/ SubmitSummary(t)
             \/ TakeAnswer(t) \/ TakeRefusal(t) \/ PostFails(t) \/ Select(t) \/ Reload(t)
      PROVE  UNCHANGED server
  <2>1. PollStep(t) => UNCHANGED server
    BY DEF PollStep, Timer, FetchRecent, FetchActive, FetchOne, EndPoll
  <2>2. Resume(t) \/ PollFails(t) \/ Submit(t) \/ SubmitSummary(t) => UNCHANGED server
    BY DEF Resume, PollFails, Submit, SubmitSummary
  <2>3. TakeAnswer(t) \/ TakeRefusal(t) \/ PostFails(t) \/ Select(t) \/ Reload(t) => UNCHANGED server
    BY DEF TakeAnswer, TakeRefusal, PostFails, Select, Reload
  <2> QED
    BY <1>5, <2>1, <2>2, <2>3
<1>6. ASSUME NEW r \in wire, RefuseRequest(r) PROVE UNCHANGED server
  BY <1>6 DEF RefuseRequest
<1>7. UNCHANGED tabVars => UNCHANGED server
  BY DEF tabVars
<1> QED
  BY <1>1, <1>3, <1>4, <1>5, <1>6, <1>7, ServerStays DEF TabsNext

\* A batch that is past stays past.
LEMMA PastStays ==
    ASSUME TabsTypeOK, StampInv, Grows, NEW b \in Batch, Past(b)
    PROVE  Past(b)'
<1>1. made[b] > 0 /\ overAt[b] > 0 /\ made \in [Batch -> 0..MaxBatches]
  BY TabConstants DEF TabsTypeOK, StampInv, Past
<1>2. Newer(b) \in SUBSET Newer(b)' /\ Newer(b)' \in SUBSET Batch
  <2>1. \A c \in Batch : made[c] > made[b] => made'[c] = made[c] /\ made'[b] = made[b]
    BY <1>1, TabConstants DEF Grows
  <2> QED
    BY <2>1 DEF Newer
<1>3. Cardinality(Newer(b)) <= Cardinality(Newer(b)') /\ Cardinality(Newer(b)) \in Nat
      /\ Cardinality(Newer(b)') \in Nat
  BY <1>2, Counting
<1> QED
  BY <1>1, <1>3, TabConstants DEF Grows, Past

\* What is shown as over stays over.
LEMMA OverStays ==
    ASSUME TabsTypeOK, Grows, NEW t \in Tab, known'[t] = known[t], ~HasActive(known[t])
    PROVE  ~HasActive(known[t])'
<1>1. known[t] \in [Batch -> 0..MaxStamp]
  BY DEF TabsTypeOK
<1> QED
  BY <1>1, TabConstants DEF TabsTypeOK, Grows, HasActive, ShownActive, Over

-----------------------------------------------------------------------------
(* The shape of the state.                                                 *)

SendingOK ==
    /\ wire \subseteq [tab : Tab, batch : Batch, attempt : 1..Attempts]
    /\ owner \in [Batch -> Tab \cup {NoTab, Other}]
    /\ settled \subseteq Batch
    /\ pendingRequest \in [Tab -> Batch \cup {0}]
    /\ post \in [Tab -> PostType]

ShownOK ==
    /\ known \in [Tab -> [Batch -> 0..MaxStamp]] /\ news \in [Tab -> [Batch -> 0..MaxStamp]]
    /\ watched \in [Tab -> SUBSET Batch] /\ refresh \in [Tab -> SUBSET Batch]
    /\ url \in [Tab -> Batch \cup {0}]

BudgetOK == faults \in 0..MaxFaults /\ actions \in 0..MaxActions

\* Polls of tabs keep their shape.
LEMMA StepPollType ==
    ASSUME TabsTypeOK, PostInv, [TabsNext]_tabVars
    PROVE  poll' \in [Tab -> PollType]
<1>0. poll \in [Tab -> PollType] /\ watched \in [Tab -> SUBSET Batch]
  BY DEF TabsTypeOK
<1>1. ASSUME NEW t \in Tab, NEW p \in PollType, Become(t, p)
      PROVE  poll' \in [Tab -> PollType]
  BY <1>0, <1>1 DEF Become
<1>2. ASSUME NEW t \in Tab, PollStep(t) PROVE poll' \in [Tab -> PollType]
  <2>1. poll[t] \in PollType
    BY <1>0
  <2>2. CASE Timer(t)
    BY <1>1, <2>1, <2>2, StartedIs DEF Timer
  <2>3. CASE FetchRecent(t)
    <3>1. RecentList \in SUBSET Batch
      BY DEF RecentList
    <3>2. [Read(poll[t], RecentList) EXCEPT !.pc = "active"] \in PollType
      BY <2>1, <3>1, ReadIs DEF PollType, InFlight
    <3> QED
      BY <1>1, <2>3, <3>2 DEF FetchRecent
  <2>4. CASE FetchActive(t)
    <3>1. ActiveList \in SUBSET Batch
      BY DEF ActiveList
    <3>2. [Read(poll[t], ActiveList) EXCEPT !.pc = "ids"] \in PollType
      BY <2>1, <3>1, ReadIs DEF PollType, InFlight
    <3> QED
      BY <1>1, <2>4, <3>2 DEF FetchActive
  <2>5. CASE FetchOne(t)
    <3>1. PICK b \in ToVisit(t) :
            Become(t, [Read(poll[t], {b}) EXCEPT !.refreshed = @ \cup {b}, !.late = @ \ {b}])
      BY <2>5 DEF FetchOne
    <3>2. b \in Batch /\ Read(poll[t], {b}) \in PollType
      BY <1>0, <2>1, <3>1, ReadIs DEF ToVisit
    <3>3. [Read(poll[t], {b}) EXCEPT !.refreshed = @ \cup {b}, !.late = @ \ {b}] \in PollType
      BY <3>2 DEF PollType
    <3> QED
      BY <1>1, <3>1, <3>3
  <2>6. CASE EndPoll(t)
    <3>1. [poll[t] EXCEPT !.failed = FALSE, !.initial = FALSE] \in PollType
      BY <2>1 DEF PollType
    <3> QED
      BY <1>1, <2>6, <3>1, RestIs DEF EndPoll
  <2> QED
    BY <1>2, <2>2, <2>3, <2>4, <2>5, <2>6 DEF PollStep
<1>3. ASSUME NEW t \in Tab, NEW h \in BOOLEAN, Become(t, Woken(poll[t], h))
      PROVE  poll' \in [Tab -> PollType]
  BY <1>0, <1>1, <1>3, WokenIs
<1>4. ASSUME NEW t \in Tab, PollFails(t) PROVE poll' \in [Tab -> PollType]
  <2>1. poll[t] \in PollType
    BY <1>0
  <2>2. [poll[t] EXCEPT !.failed = TRUE, !.hist = @ \/ poll[t].recent] \in PollType
    BY <2>1 DEF PollType
  <2> QED
    BY <1>1, <1>4, <2>2, RestIs DEF PollFails
<1>5. ASSUME NEW t \in Tab, TakeAnswer(t) PROVE poll' \in [Tab -> PollType]
  <2>1. post[t].batch \in Batch
    BY <1>5 DEF TakeAnswer, PostInv
  <2>2. poll' = [u \in Tab |-> IF u = t THEN Woken(poll[t], FALSE) ELSE ToldOf(poll[u], post[t].batch)]
    BY <1>5 DEF TakeAnswer
  <2>3. \A u \in Tab : Woken(poll[u], FALSE) \in PollType /\ ToldOf(poll[u], post[t].batch) \in PollType
    BY <1>0, <2>1, WokenIs, ToldIs
  <2> QED
    BY <2>2, <2>3
<1>6. ASSUME NEW b \in Batch, Elsewhere(b) PROVE poll' \in [Tab -> PollType]
  <2>1. \A u \in Tab : ToldOf(poll[u], b) \in PollType
    BY <1>0, ToldIs
  <2> QED
    BY <1>6, <2>1 DEF Elsewhere
<1>7. ASSUME NEW t \in Tab, PostFails(t) PROVE poll' \in [Tab -> PollType]
  BY <1>0, <1>3, <1>7 DEF PostFails
<1>8. ASSUME NEW t \in Tab, Resume(t) \/ Select(t) PROVE poll' \in [Tab -> PollType]
  BY <1>3, <1>8 DEF Resume, Select
<1>9. ASSUME NEW t \in Tab, Reload(t) PROVE poll' \in [Tab -> PollType]
  BY <1>1, <1>9, LoadedIs DEF Reload
<1>10. ASSUME NEW t \in Tab, Submit(t) \/ SubmitSummary(t) \/ TakeRefusal(t)
       PROVE  poll' = poll
  BY <1>10 DEF Submit, SubmitSummary, TakeRefusal
<1>11. ASSUME NEW b \in Batch, Progress(b) PROVE poll' = poll
  BY <1>11 DEF Progress
<1>12. ASSUME NEW r \in wire, Handle(r) \/ RefuseRequest(r) PROVE poll' = poll
  BY <1>12 DEF Handle, RefuseRequest
<1>13. UNCHANGED tabVars => poll' = poll
  BY DEF tabVars
<1> QED
  BY <1>0, <1>2, <1>4, <1>5, <1>6, <1>7, <1>8, <1>9, <1>10, <1>11, <1>12, <1>13 DEF TabsNext

-----------------------------------------------------------------------------
(* What tabs send.                                                         *)

KeysOK == SendingOK /\ PostInv /\ NothingAskedTwice

LEMMA NoPostIs ==
    NoPost \in PostType /\ NoPost.pc = "idle" /\ NoPost.batch = 0 /\ NoPost.stamp = 0
BY TabConstants DEF NoPost, PostType, Attempts

\* A tab sends what it stores, and nothing of it is answered.
LEMMA SendIs ==
    ASSUME SendingOK, NEW t \in Tab, NEW b \in Batch, Send(t, b)
    PROVE  /\ pendingRequest' \in [Tab -> Batch \cup {0}] /\ post' \in [Tab -> PostType]
           /\ wire' \subseteq [tab : Tab, batch : Batch, attempt : 1..Attempts]
           /\ pendingRequest'[t] = b /\ post'[t].batch = b /\ post'[t].stamp = 0
           /\ \A u \in Tab \ {t} : pendingRequest'[u] = pendingRequest[u] /\ post'[u] = post[u]
<1> DEFINE new == [NoPost EXCEPT !.pc = "waiting", !.batch = b, !.attempt = 1]
<1>1. new \in PostType /\ new.batch = b /\ new.stamp = 0
  <2>1. 1 \in 0..Attempts
    BY DEF Attempts
  <2> QED
    BY <2>1, NoPostIs DEF PostType
<1>2. Request(t, b, 1) \in [tab : Tab, batch : Batch, attempt : 1..Attempts]
  BY DEF Request, Attempts
<1>3. /\ pendingRequest' = [pendingRequest EXCEPT ![t] = b]
      /\ post' = [post EXCEPT ![t] = new] /\ wire' = wire \cup {Request(t, b, 1)}
  BY DEF Send
<1> HIDE DEF new
<1> QED
  BY <1>1, <1>2, <1>3 DEF SendingOK

LEMMA ReplyIs ==
    ASSUME SendingOK, NEW r \in wire, NEW c \in {"answered", "refused"}, NEW s \in 0..MaxStamp,
           Reply(r, c, s)
    PROVE  /\ post' \in [Tab -> PostType]
           /\ \A t \in Tab :
                /\ post'[t].batch = post[t].batch
                /\ post[t].pc = "idle" => post'[t].pc = "idle"
                /\ post'[t].stamp = post[t].stamp \/ (post'[t].stamp = s /\ post[t].batch = r.batch)
<1>1. r.tab \in Tab /\ post[r.tab] \in PostType /\ post \in [Tab -> PostType]
  BY DEF SendingOK
<1>2. CASE post' = post
  BY <1>1, <1>2
<1>3. CASE /\ post[r.tab].pc = "waiting" /\ post[r.tab].batch = r.batch
           /\ post' = [post EXCEPT ![r.tab] = [post[r.tab] EXCEPT !.pc = c, !.stamp = s]]
  <2> DEFINE new == [post[r.tab] EXCEPT !.pc = c, !.stamp = s]
  <2>1. new \in PostType /\ new.batch = post[r.tab].batch /\ new.stamp = s
    BY <1>1 DEF PostType
  <2>2. post' = [post EXCEPT ![r.tab] = new]
    BY <1>3
  <2> HIDE DEF new
  <2> QED
    BY <1>1, <1>3, <2>1, <2>2
<1> QED
  BY <1>1, <1>2, <1>3 DEF Reply

\* Tabs that send nothing new, of the same keys, keep what they send.
LEMMA SendingKept ==
    ASSUME KeysOK, AnswersOK, Grows, TabsTypeOK, UNCHANGED sending
    PROVE  KeysOK' /\ AnswersOK'
<1>1. KeysOK'
  BY DEF KeysOK, SendingOK, PostInv, NothingAskedTwice, sending
<1>2. ASSUME NEW t \in Tab, post[t].batch # 0
      PROVE  post[t].stamp <= stamp'[post[t].batch]
  <2>1. /\ post[t].batch \in Batch /\ post[t].stamp \in 0..MaxStamp
        /\ post[t].stamp <= stamp[post[t].batch]
    BY <1>2 DEF KeysOK, SendingOK, PostType, AnswersOK
  <2>2. stamp[post[t].batch] \in 0..MaxStamp /\ stamp'[post[t].batch] \in 0..MaxStamp
        /\ stamp[post[t].batch] <= stamp'[post[t].batch]
    BY <2>1 DEF TabsTypeOK, Grows
  <2> QED
    BY <2>1, <2>2, TabConstants
<1> QED
  BY <1>1, <1>2 DEF AnswersOK, sending

\* A tab forgets what it was sending: of its keys none is unsettled, or it
\* still has the request.
LEMMA Forgets ==
    ASSUME KeysOK, AnswersOK, Grows, UNCHANGED <<stamp, owner, wire>>, NEW t \in Tab,
           post' = [post EXCEPT ![t] = NoPost], settled \subseteq settled', settled' \subseteq Batch,
           \/ pendingRequest' = pendingRequest
           \/ /\ pendingRequest' = [pendingRequest EXCEPT ![t] = 0]
              /\ \A b \in Batch : owner[b] = t => b \in settled' \/ b # pendingRequest[t]
    PROVE  KeysOK' /\ AnswersOK'
<1>1. /\ post \in [Tab -> PostType] /\ pendingRequest \in [Tab -> Batch \cup {0}]
      /\ owner \in [Batch -> Tab \cup {NoTab, Other}]
  BY DEF KeysOK, SendingOK
<1>2. post' \in [Tab -> PostType] /\ post'[t] = NoPost /\ \A u \in Tab \ {t} : post'[u] = post[u]
  BY <1>1, NoPostIs
<1>3. /\ pendingRequest' \in [Tab -> Batch \cup {0}]
      /\ \A u \in Tab \ {t} : pendingRequest'[u] = pendingRequest[u]
  BY <1>1
<1>4. SendingOK' /\ PostInv'
  BY <1>2, <1>3, NoPostIs DEF KeysOK, SendingOK, PostInv
<1>5. ASSUME NEW u \in Tab, NEW b \in Batch, owner[b] = u, b \notin settled'
      PROVE  pendingRequest'[u] = b
  <2>1. pendingRequest[u] = b
    BY <1>5 DEF KeysOK, NothingAskedTwice
  <2> QED
    BY <1>1, <1>3, <1>5, <2>1
<1>6. AnswersOK'
  BY <1>2, NoPostIs DEF AnswersOK
<1> QED
  BY <1>4, <1>5, <1>6 DEF KeysOK, NothingAskedTwice

\* A request that is sent is the only one whose outcome its tab does not know.
LEMMA Sends ==
    ASSUME KeysOK, AnswersOK, TabsTypeOK, UNCHANGED <<stamp, settled>>, NEW t \in Tab,
           NEW b \in Batch, Send(t, b), owner' \in [Batch -> Tab \cup {NoTab, Other}],
           pendingRequest[t] = 0 \/ pendingRequest[t] = b,
           \A c \in Batch : owner'[c] = owner[c] \/ (c = b /\ owner'[c] = t /\ owner[c] = NoTab)
    PROVE  KeysOK' /\ AnswersOK'
<1>1. SendingOK
  BY DEF KeysOK
<1>2. SendingOK'
  BY <1>1, SendIs DEF SendingOK
<1>3. PostInv'
  BY <1>1, SendIs DEF KeysOK, PostInv
<1>4. ASSUME NEW u \in Tab, NEW c \in Batch, owner'[c] = u, c \notin settled
      PROVE  pendingRequest'[u] = c
  <2>1. CASE owner[c] = u
    <3>1. pendingRequest[u] = c
      BY <1>4, <2>1 DEF KeysOK, NothingAskedTwice
    <3>2. c # 0
      BY TabConstants
    <3> QED
      BY <1>1, <3>1, <3>2, SendIs
  <2>2. CASE owner[c] # u
    BY <1>1, <1>4, <2>2, SendIs
  <2> QED
    BY <2>1, <2>2
<1>5. AnswersOK'
  <2>1. stamp[b] >= 0
    BY TabConstants DEF TabsTypeOK
  <2> QED
    BY <1>1, <2>1, SendIs DEF AnswersOK
<1> QED
  BY <1>2, <1>3, <1>4, <1>5 DEF KeysOK, NothingAskedTwice

\* Keys, requests and answers, step by step.
LEMMA StepKeys ==
    ASSUME TabsTypeOK, StampInv, KeysOK, AnswersOK, [TabsNext]_tabVars
    PROVE  KeysOK' /\ AnswersOK'
<1>0. Grows
  BY ServerStep
<1>1. /\ post \in [Tab -> PostType] /\ pendingRequest \in [Tab -> Batch \cup {0}]
      /\ owner \in [Batch -> Tab \cup {NoTab, Other}] /\ settled \subseteq Batch
      /\ wire \subseteq [tab : Tab, batch : Batch, attempt : 1..Attempts] /\ SendingOK
  BY DEF KeysOK, SendingOK
<1>2. CASE UNCHANGED sending
  BY <1>0, <1>2, SendingKept
<1>3. ASSUME NEW t \in Tab, Submit(t) PROVE KeysOK' /\ AnswersOK'
  <2>1. PICK b \in KeyFor(t) :
            /\ Send(t, b)
            /\ owner' = [owner EXCEPT ![b] = IF b \in Unused THEN t ELSE @]
    BY <1>3 DEF Submit
  <2>2. b \in Batch /\ (pendingRequest[t] = 0 \/ pendingRequest[t] = b)
    BY <1>1, <2>1 DEF KeyFor, Unused
  <2>3. /\ owner' \in [Batch -> Tab \cup {NoTab, Other}]
        /\ \A c \in Batch : owner'[c] = owner[c] \/ (c = b /\ owner'[c] = t /\ owner[c] = NoTab)
    BY <1>1, <2>1, <2>2 DEF Unused
  <2>4. UNCHANGED <<stamp, settled>>
    BY <1>3 DEF Submit, server
  <2> QED
    BY <2>1, <2>2, <2>3, <2>4, Sends
<1>4. ASSUME NEW t \in Tab, SubmitSummary(t) PROVE KeysOK' /\ AnswersOK'
  <2>1. PICK b \in Batch : Send(t, b)
    BY <1>4 DEF SubmitSummary
  <2>2. UNCHANGED <<stamp, settled, owner>> /\ pendingRequest[t] = 0
    BY <1>4 DEF SubmitSummary, server
  <2> QED
    BY <1>1, <2>1, <2>2, Sends
<1>5. ASSUME NEW t \in Tab, TakeAnswer(t) \/ TakeRefusal(t) PROVE KeysOK' /\ AnswersOK'
  <2>1. /\ post[t].pc # "idle" /\ post' = [post EXCEPT ![t] = NoPost]
        /\ pendingRequest' = [pendingRequest EXCEPT ![t] = 0]
        /\ settled' = settled \cup Own(t, post[t].batch)
        /\ UNCHANGED <<stamp, owner, wire>>
    BY <1>5 DEF TakeAnswer, TakeRefusal, server
  <2>2. post[t].batch \in Batch /\ post[t].batch = pendingRequest[t]
    BY <2>1 DEF KeysOK, PostInv
  <2>3. settled \subseteq settled' /\ settled' \subseteq Batch
    BY <1>1, <2>1, <2>2 DEF Own
  <2>4. \A b \in Batch : owner[b] = t => b \in settled' \/ b # pendingRequest[t]
    BY <2>1, <2>2 DEF Own
  <2> QED
    BY <1>0, <2>1, <2>3, <2>4, Forgets
<1>6. ASSUME NEW t \in Tab, Reload(t) PROVE KeysOK' /\ AnswersOK'
  <2>1. /\ post' = [post EXCEPT ![t] = NoPost] /\ pendingRequest' = pendingRequest
        /\ UNCHANGED <<stamp, owner, wire, settled>>
    BY <1>6 DEF Reload, server
  <2> QED
    BY <1>0, <1>1, <2>1, Forgets
<1>7. ASSUME NEW t \in Tab, PostFails(t) PROVE KeysOK' /\ AnswersOK'
  <2>1. /\ post[t].pc # "idle" /\ UNCHANGED <<stamp, owner, settled, pendingRequest>>
    BY <1>7 DEF PostFails, server
  <2>2. CASE post' = [post EXCEPT ![t] = NoPost] /\ UNCHANGED wire
    BY <1>0, <1>1, <2>1, <2>2, Forgets
  <2>3. CASE /\ post[t].attempt < Attempts
             /\ post' = [post EXCEPT ![t].pc = "waiting", ![t].attempt = @ + 1, ![t].stamp = 0]
             /\ wire' = wire \cup {Request(t, post[t].batch, post[t].attempt + 1)}
    <3> DEFINE new == [post[t] EXCEPT !.pc = "waiting", !.attempt = @ + 1, !.stamp = 0]
    <3>1. post[t] \in PostType /\ post[t].batch \in Batch
      BY <1>1, <2>1 DEF KeysOK, PostInv
    <3>2. post[t].attempt + 1 \in 1..Attempts /\ post[t].attempt + 1 \in 0..Attempts /\ 0 \in 0..MaxStamp
      BY <2>3, <3>1, TabConstants DEF PostType, Attempts
    <3>3. new \in PostType /\ new.batch = post[t].batch /\ new.stamp = 0
      BY <3>1, <3>2 DEF PostType
    <3>4. post' = [post EXCEPT ![t] = new]
      BY <1>1, <2>3
    <3> HIDE DEF new
    <3>5. /\ post' \in [Tab -> PostType] /\ post'[t] = new
          /\ \A u \in Tab \ {t} : post'[u] = post[u]
      BY <1>1, <3>3, <3>4
    <3>6. wire' \subseteq [tab : Tab, batch : Batch, attempt : 1..Attempts]
      BY <1>1, <2>3, <3>1, <3>2 DEF Request
    <3>7. SendingOK'
      BY <1>1, <2>1, <3>5, <3>6 DEF SendingOK
    <3>8. PostInv'
      BY <2>1, <3>3, <3>5 DEF KeysOK, PostInv
    <3>9. NothingAskedTwice'
      BY <2>1 DEF KeysOK, NothingAskedTwice
    <3>10. stamp[post[t].batch] >= 0
      <4>1. stamp[post[t].batch] \in 0..MaxStamp
        BY <3>1 DEF TabsTypeOK
      <4> QED
        BY <4>1, TabConstants
    <3>11. AnswersOK'
      BY <2>1, <3>3, <3>5, <3>10 DEF AnswersOK
    <3> QED
      BY <3>7, <3>8, <3>9, <3>11 DEF KeysOK
  <2>4. \/ post' = [post EXCEPT ![t] = NoPost] /\ UNCHANGED wire
        \/ /\ post[t].attempt < Attempts
           /\ post' = [post EXCEPT ![t].pc = "waiting", ![t].attempt = @ + 1, ![t].stamp = 0]
           /\ wire' = wire \cup {Request(t, post[t].batch, post[t].attempt + 1)}
    BY <1>7 DEF PostFails
  <2> QED
    BY <2>2, <2>3, <2>4
<1>8. ASSUME NEW r \in wire, NEW c \in {"answered", "refused"}, NEW s \in 0..MaxStamp, Reply(r, c, s),
             s = 0 \/ s <= stamp'[r.batch], wire' = wire \ {r},
             UNCHANGED <<owner, settled, pendingRequest>>
      PROVE  KeysOK' /\ AnswersOK'
  <2>1. SendingOK'
    BY <1>1, <1>8, ReplyIs DEF SendingOK
  <2>2. PostInv' /\ NothingAskedTwice'
    BY <1>1, <1>8, ReplyIs DEF KeysOK, PostInv, NothingAskedTwice
  <2>3. ASSUME NEW t \in Tab, post'[t].batch # 0
        PROVE  post'[t].stamp <= stamp'[post'[t].batch]
    <3>1. /\ post'[t].batch = post[t].batch
          /\ post'[t].stamp = post[t].stamp \/ (post'[t].stamp = s /\ post[t].batch = r.batch)
      BY <1>1, <1>8, ReplyIs
    <3>2. post[t].batch \in Batch /\ post[t].stamp \in 0..MaxStamp
      BY <1>1, <2>3, <3>1 DEF PostType
    <3>3. /\ stamp[post[t].batch] \in 0..MaxStamp /\ stamp'[post[t].batch] \in 0..MaxStamp
          /\ stamp[post[t].batch] <= stamp'[post[t].batch]
      BY <1>0, <3>2 DEF TabsTypeOK, Grows
    <3>4. post[t].stamp <= stamp[post[t].batch]
      BY <2>3, <3>1 DEF AnswersOK
    <3> QED
      BY <1>8, <3>1, <3>2, <3>3, <3>4, TabConstants
  <2> QED
    BY <2>1, <2>2, <2>3 DEF KeysOK, AnswersOK
<1>9. ASSUME NEW r \in wire, Handle(r) PROVE KeysOK' /\ AnswersOK'
  <2>1. /\ Reply(r, "answered", stamp'[r.batch]) /\ wire' = wire \ {r}
        /\ UNCHANGED <<owner, settled, pendingRequest>>
    BY <1>9 DEF Handle
  <2>2. stamp'[r.batch] \in 0..MaxStamp
    BY <1>0, <1>1 DEF Grows
  <2>3. stamp'[r.batch] <= stamp'[r.batch]
    BY <2>2, TabConstants
  <2> QED
    BY <1>8, <2>1, <2>2, <2>3
<1>10. ASSUME NEW r \in wire, RefuseRequest(r) PROVE KeysOK' /\ AnswersOK'
  <2>1. /\ Reply(r, "refused", 0) /\ wire' = wire \ {r}
        /\ UNCHANGED <<owner, settled, pendingRequest>>
    BY <1>10 DEF RefuseRequest
  <2>2. 0 \in 0..MaxStamp
    BY TabConstants
  <2> QED
    BY <1>8, <2>1, <2>2
<1>11. ASSUME NEW b \in Batch, Elsewhere(b) PROVE KeysOK' /\ AnswersOK'
  <2>1. /\ owner' = [owner EXCEPT ![b] = IF @ = NoTab THEN Other ELSE @]
        /\ UNCHANGED <<wire, settled, pendingRequest, post>>
    BY <1>11 DEF Elsewhere
  <2>2. /\ owner' \in [Batch -> Tab \cup {NoTab, Other}]
        /\ \A c \in Batch : owner'[c] = owner[c] \/ owner'[c] = Other
    BY <1>1, <2>1
  <2>3. KeysOK'
    BY <1>1, <2>1, <2>2, TabConstants DEF KeysOK, SendingOK, PostInv, NothingAskedTwice
  <2>4. ASSUME NEW t \in Tab, post[t].batch # 0
        PROVE  post[t].stamp <= stamp'[post[t].batch]
    <3>1. /\ post[t].batch \in Batch /\ post[t].stamp \in 0..MaxStamp
          /\ post[t].stamp <= stamp[post[t].batch]
      BY <1>1, <2>4 DEF PostType, AnswersOK
    <3>2. /\ stamp[post[t].batch] \in 0..MaxStamp /\ stamp'[post[t].batch] \in 0..MaxStamp
          /\ stamp[post[t].batch] <= stamp'[post[t].batch]
      BY <1>0, <3>1 DEF TabsTypeOK, Grows
    <3> QED
      BY <3>1, <3>2, TabConstants
  <2> QED
    BY <2>1, <2>3, <2>4 DEF AnswersOK
<1>12. ASSUME NEW t \in Tab, PollStep(t) \/ Resume(t) \/ PollFails(t) \/ Select(t)
       PROVE  UNCHANGED sending
  BY <1>12 DEF PollStep, Timer, FetchRecent, FetchActive, FetchOne, EndPoll, Resume, PollFails, Select
<1>13. ASSUME NEW b \in Batch, Progress(b) PROVE UNCHANGED sending
  BY <1>13 DEF Progress
<1>14. UNCHANGED tabVars => UNCHANGED sending
  BY DEF tabVars
<1> QED
  BY <1>2, <1>3, <1>4, <1>5, <1>6, <1>7, <1>9, <1>10, <1>11, <1>12, <1>13, <1>14 DEF TabsNext

-----------------------------------------------------------------------------
(* What tabs show.                                                         *)

\* A tab shows of each batch what it showed, what was said of it, or nothing.
SaysOn(t) ==
    \A b \in Batch : /\ known'[t][b] <= stamp'[b]
                     /\ known'[t][b] > 0 => known'[t][b] >= known[t][b]

\* The numbers of a batch, before a step and behind it.
LEMMA Numbers ==
    ASSUME TabsTypeOK, Grows, NEW t \in Tab, NEW b \in Batch
    PROVE  /\ stamp[b] \in Nat /\ stamp'[b] \in Nat /\ stamp[b] <= stamp'[b]
           /\ known[t][b] \in Nat /\ poll[t].received[b] \in Nat
<1>1. known[t] \in [Batch -> 0..MaxStamp] /\ poll[t].received \in [Batch -> 0..MaxStamp]
  BY DEF TabsTypeOK, PollType
<1>2. stamp[b] \in 0..MaxStamp /\ stamp'[b] \in 0..MaxStamp /\ stamp[b] <= stamp'[b]
  BY DEF TabsTypeOK, Grows
<1> QED
  BY <1>1, <1>2, TabConstants

LEMMA KeepsSaying ==
    ASSUME TabsTypeOK, Grows, SaidOK, NEW t \in Tab, known'[t] = known[t]
    PROVE  SaysOn(t)
<1>1. ASSUME NEW b \in Batch
      PROVE  known'[t][b] <= stamp'[b] /\ known'[t][b] >= known[t][b]
  <2>1. known[t][b] <= stamp[b]
    BY DEF SaidOK
  <2> QED
    BY <2>1, Numbers
<1> QED
  BY <1>1 DEF SaysOn

LEMMA SaysAnswers ==
    ASSUME TabsTypeOK, Grows, SaidOK, NEW t \in Tab, NEW answers \in [Batch -> 0..MaxStamp],
           \A b \in Batch : answers[b] <= stamp[b], NEW selected, NEW told \in SUBSET Batch,
           Accept(t, answers, selected, told)
    PROVE  /\ known' \in [Tab -> [Batch -> 0..MaxStamp]] /\ watched' \in [Tab -> SUBSET Batch]
           /\ \A u \in Tab : SaysOn(u)
<1>1. ASSUME NEW b \in Batch
      PROVE  known'[t][b] <= stamp'[b] /\ (known'[t][b] > 0 => known'[t][b] >= known[t][b])
  <2>1. /\ known'[t][b] \in {0, known[t][b], answers[b]}
        /\ known'[t][b] > 0 => known'[t][b] >= known[t][b]
    BY AcceptIs
  <2>2. known[t][b] <= stamp[b] /\ answers[b] <= stamp[b] /\ answers[b] \in Nat
    BY TabConstants DEF SaidOK
  <2> QED
    BY <2>1, <2>2, Numbers
<1>2. SaysOn(t)
  BY <1>1 DEF SaysOn
<1>3. ASSUME NEW u \in Tab, u # t PROVE SaysOn(u)
  <2>1. known'[u] = known[u]
    BY <1>3, AcceptIs
  <2> QED
    BY <2>1, KeepsSaying
<1> QED
  BY <1>2, <1>3, AcceptIs

\* The answer that a tab takes.
LEMMA AnswerIs ==
    ASSUME TabsTypeOK, PostInv, AnswersOK, NEW t \in Tab, TakeAnswer(t)
    PROVE  /\ post[t].batch \in Batch
           /\ [Nothing EXCEPT ![post[t].batch] = post[t].stamp] \in [Batch -> 0..MaxStamp]
           /\ \A b \in Batch : [Nothing EXCEPT ![post[t].batch] = post[t].stamp][b] <= stamp[b]
<1>1. post[t].batch \in Batch /\ post[t].stamp \in 0..MaxStamp
  BY DEF TakeAnswer, PostInv, TabsTypeOK, PostType
<1>2. post[t].stamp <= stamp[post[t].batch]
  BY <1>1, TabConstants DEF AnswersOK
<1>3. ASSUME NEW b \in Batch PROVE 0 <= stamp[b]
  <2>1. stamp[b] \in 0..MaxStamp
    BY DEF TabsTypeOK
  <2> QED
    BY <2>1, TabConstants
<1> QED
  BY <1>1, <1>2, <1>3, TabConstants DEF Nothing

\* A step that shows an answer, shows less, or shows what it did.
LEMMA StepKnown ==
    ASSUME TabsTypeOK, StampInv, SaidOK, PostInv, AnswersOK, [TabsNext]_tabVars
    PROVE  /\ known' \in [Tab -> [Batch -> 0..MaxStamp]]
           /\ watched' \in [Tab -> SUBSET Batch]
           /\ \A u \in Tab : SaysOn(u)
<1>0. Grows
  BY ServerStep
<1>1. known \in [Tab -> [Batch -> 0..MaxStamp]] /\ watched \in [Tab -> SUBSET Batch]
  BY DEF TabsTypeOK
<1>2. known' = known => \A u \in Tab : SaysOn(u)
  BY <1>0, KeepsSaying
<1>3. ASSUME NEW t \in Tab, EndPoll(t)
      PROVE  known' \in [Tab -> [Batch -> 0..MaxStamp]] /\ watched' \in [Tab -> SUBSET Batch]
             /\ \A u \in Tab : SaysOn(u)
  <2>1. poll[t].received \in [Batch -> 0..MaxStamp] /\ \A b \in Batch : poll[t].received[b] <= stamp[b]
    BY DEF TabsTypeOK, PollType, SaidOK
  <2>2. Accept(t, poll[t].received, url[t], {})
    BY <1>3 DEF EndPoll
  <2>3. {} \in SUBSET Batch
    OBVIOUS
  <2> QED
    BY <1>0, <2>1, <2>2, <2>3, SaysAnswers
<1>4. ASSUME NEW t \in Tab, TakeAnswer(t)
      PROVE  known' \in [Tab -> [Batch -> 0..MaxStamp]] /\ watched' \in [Tab -> SUBSET Batch]
             /\ \A u \in Tab : SaysOn(u)
  <2>1. Accept(t, [Nothing EXCEPT ![post[t].batch] = post[t].stamp], url[t], {post[t].batch})
    BY <1>4 DEF TakeAnswer
  <2>2. {post[t].batch} \in SUBSET Batch
    BY <1>4, AnswerIs
  <2> QED
    BY <1>0, <1>4, <2>1, <2>2, AnswerIs, SaysAnswers
<1>5. ASSUME NEW t \in Tab, Reload(t)
      PROVE  known' \in [Tab -> [Batch -> 0..MaxStamp]] /\ watched' \in [Tab -> SUBSET Batch]
             /\ \A u \in Tab : SaysOn(u)
  <2>1. known' = [known EXCEPT ![t] = Nothing] /\ watched' = [watched EXCEPT ![t] = {url[t]} \ {0}]
    BY <1>5 DEF Reload
  <2>2. {url[t]} \ {0} \in SUBSET Batch
    BY DEF TabsTypeOK
  <2>3. known' \in [Tab -> [Batch -> 0..MaxStamp]] /\ watched' \in [Tab -> SUBSET Batch]
    BY <1>1, <2>1, <2>2, TabConstants
  <2>4. \A b \in Batch : known'[t][b] = 0
    BY <1>1, <2>1 DEF Nothing
  <2>5. SaysOn(t)
    BY <1>0, <2>4, Numbers DEF SaysOn
  <2>6. ASSUME NEW u \in Tab, u # t PROVE SaysOn(u)
    <3>1. known'[u] = known[u]
      BY <1>1, <2>1, <2>6
    <3> QED
      BY <1>0, <3>1, KeepsSaying
  <2> QED
    BY <2>3, <2>5, <2>6
<1>6. ASSUME NEW b \in Batch, Elsewhere(b)
      PROVE  known' = known /\ watched' \in [Tab -> SUBSET Batch]
  BY <1>1, <1>6 DEF Elsewhere
<1>7. ASSUME NEW t \in Tab, Select(t)
      PROVE  known' = known /\ watched' \in [Tab -> SUBSET Batch]
  <2>1. PICK b \in Batch : Follow(t, b)
    BY <1>7 DEF Select
  <2> QED
    BY <1>1, <1>7, <2>1 DEF Select, Follow
<1>8. ASSUME NEW t \in Tab,
             \/ Timer(t) \/ FetchRecent(t) \/ FetchActive(t) \/ FetchOne(t) \/ Resume(t)
             \/ PollFails(t) \/ Submit(t) \/ SubmitSummary(t) \/ TakeRefusal(t) \/ PostFails(t)
      PROVE  known' = known /\ watched' = watched
  BY <1>8 DEF Timer, FetchRecent, FetchActive, FetchOne, Resume, PollFails, Submit, SubmitSummary,
              TakeRefusal, PostFails, shown
<1>9. ASSUME NEW b \in Batch, Progress(b) PROVE known' = known /\ watched' = watched
  BY <1>9 DEF Progress, shown
<1>10. ASSUME NEW r \in wire, Handle(r) \/ RefuseRequest(r) PROVE known' = known /\ watched' = watched
  BY <1>10 DEF Handle, RefuseRequest, shown
<1>11. UNCHANGED tabVars => known' = known /\ watched' = watched
  BY DEF tabVars, shown
<1> QED
  BY <1>1, <1>2, <1>3, <1>4, <1>5, <1>6, <1>7, <1>8, <1>9, <1>10, <1>11 DEF TabsNext, PollStep

\* What the tabs were told, where they are and what is counted.
LEMMA StepRest ==
    ASSUME TabsTypeOK, StampInv, PostInv, [TabsNext]_tabVars
    PROVE  /\ refresh' \in [Tab -> SUBSET Batch] /\ url' \in [Tab -> Batch \cup {0}]
           /\ news' \in [Tab -> [Batch -> 0..MaxStamp]] /\ BudgetOK'
<1>0. Grows
  BY ServerStep
<1>1. /\ refresh \in [Tab -> SUBSET Batch] /\ url \in [Tab -> Batch \cup {0}]
      /\ news \in [Tab -> [Batch -> 0..MaxStamp]] /\ faults \in 0..MaxFaults
      /\ actions \in 0..MaxActions
  BY DEF TabsTypeOK
<1>2. /\ faults' = faults \/ (faults < MaxFaults /\ faults' = faults + 1) => faults' \in 0..MaxFaults
      /\ actions' = actions \/ (actions < MaxActions /\ actions' = actions + 1) => actions' \in 0..MaxActions
  BY <1>1, TabConstants
<1>3. \A m, n \in 0..MaxStamp : Later(m, n) \in 0..MaxStamp
  BY DEF Later
<1>4. ASSUME NEW t \in Tab, Timer(t) \/ FetchRecent(t) \/ FetchActive(t) \/ EndPoll(t) \/ Resume(t)
      PROVE  UNCHANGED <<refresh, url, news, faults, actions>>
  BY <1>4 DEF Timer, FetchRecent, FetchActive, EndPoll, Resume, shown
<1>5. ASSUME NEW t \in Tab, Submit(t) \/ TakeRefusal(t)
      PROVE  UNCHANGED <<refresh, url, news, faults, actions>>
  BY <1>5 DEF Submit, TakeRefusal, shown
<1>6. ASSUME NEW t \in Tab, FetchOne(t)
      PROVE  UNCHANGED <<url, news, faults, actions>> /\ refresh' \in [Tab -> SUBSET Batch]
  BY <1>1, <1>6 DEF FetchOne, shown
<1>7. ASSUME NEW t \in Tab, PollFails(t)
      PROVE  UNCHANGED <<url, news, actions>> /\ refresh' \in [Tab -> SUBSET Batch]
             /\ faults < MaxFaults /\ faults' = faults + 1
  <2>1. ReadAgain(t) \in SUBSET Batch
    BY <1>1 DEF ReadAgain, TabsTypeOK, PollType
  <2> QED
    BY <1>1, <1>7, <2>1 DEF PollFails, shown
<1>8. ASSUME NEW t \in Tab, SubmitSummary(t)
      PROVE  UNCHANGED <<refresh, url, news, faults>> /\ actions < MaxActions /\ actions' = actions + 1
  BY <1>8 DEF SubmitSummary, shown
<1>9. ASSUME NEW t \in Tab, TakeAnswer(t)
      PROVE  /\ UNCHANGED <<faults, actions>> /\ refresh' \in [Tab -> SUBSET Batch]
             /\ url' \in [Tab -> Batch \cup {0}] /\ news' \in [Tab -> [Batch -> 0..MaxStamp]]
  <2>1. post[t].batch \in Batch /\ post[t].stamp \in 0..MaxStamp
    BY <1>9 DEF TakeAnswer, PostInv, TabsTypeOK, PostType
  <2>2. /\ url' = [url EXCEPT ![t] = post[t].batch] /\ UNCHANGED <<faults, actions>>
        /\ Tell(Tab \ {t}, post[t].batch)
        /\ news' = [u \in Tab |-> [news[u] EXCEPT ![post[t].batch] = Later(@, post[t].stamp)]]
    BY <1>9 DEF TakeAnswer
  <2>3. refresh' \in [Tab -> SUBSET Batch]
    BY <1>1, <2>1, <2>2 DEF Tell
  <2>4. url' \in [Tab -> Batch \cup {0}]
    BY <1>1, <2>1, <2>2
  <2>5. ASSUME NEW u \in Tab
        PROVE  [news[u] EXCEPT ![post[t].batch] = Later(@, post[t].stamp)] \in [Batch -> 0..MaxStamp]
    <3>1. news[u] \in [Batch -> 0..MaxStamp] /\ Later(news[u][post[t].batch], post[t].stamp) \in 0..MaxStamp
      BY <1>1, <1>3, <2>1
    <3> QED
      BY <3>1
  <2> QED
    BY <2>2, <2>3, <2>4, <2>5
<1>10. ASSUME NEW t \in Tab, PostFails(t)
       PROVE  /\ UNCHANGED <<refresh, url, actions>> /\ news' \in [Tab -> [Batch -> 0..MaxStamp]]
              /\ faults < MaxFaults /\ faults' = faults + 1
  <2>1. post[t].batch \in Batch
    BY <1>10 DEF PostFails, PostInv
  <2>2. /\ UNCHANGED <<refresh, url, actions>> /\ faults < MaxFaults /\ faults' = faults + 1
        /\ \/ news' = news
           \/ news' = [news EXCEPT ![t][post[t].batch] = Later(@, stamp[post[t].batch])]
    BY <1>10 DEF PostFails, shown
  <2> DEFINE n == [news[t] EXCEPT ![post[t].batch] = Later(@, stamp[post[t].batch])]
  <2>3. news[t] \in [Batch -> 0..MaxStamp] /\ stamp[post[t].batch] \in 0..MaxStamp
    BY <1>1, <2>1 DEF TabsTypeOK
  <2>4. Later(news[t][post[t].batch], stamp[post[t].batch]) \in 0..MaxStamp
    BY <1>3, <2>1, <2>3
  <2>5. n \in [Batch -> 0..MaxStamp]
    BY <2>1, <2>3, <2>4
  <2>6. news' = news \/ news' = [news EXCEPT ![t] = n]
    BY <2>2
  <2> HIDE DEF n
  <2> QED
    BY <1>1, <2>2, <2>5, <2>6
<1>11. ASSUME NEW t \in Tab, Select(t)
       PROVE  /\ UNCHANGED <<refresh, news, faults>> /\ url' \in [Tab -> Batch \cup {0}]
              /\ actions < MaxActions /\ actions' = actions + 1
  <2>1. PICK b \in Batch : url' = [url EXCEPT ![t] = b]
    BY <1>11 DEF Select
  <2> QED
    BY <1>1, <1>11, <2>1 DEF Select
<1>12. ASSUME NEW t \in Tab, Reload(t)
       PROVE  /\ UNCHANGED <<url, news, actions>> /\ refresh' \in [Tab -> SUBSET Batch]
              /\ faults < MaxFaults /\ faults' = faults + 1
  BY <1>1, <1>12 DEF Reload
<1>13. ASSUME NEW b \in Batch, Elsewhere(b)
       PROVE  /\ UNCHANGED <<url, faults>> /\ refresh' \in [Tab -> SUBSET Batch]
              /\ news' \in [Tab -> [Batch -> 0..MaxStamp]]
              /\ actions < MaxActions /\ actions' = actions + 1
  <2>1. stamp'[b] \in 0..MaxStamp
    BY <1>0 DEF Grows
  <2> QED
    BY <1>1, <1>13, <2>1 DEF Elsewhere, Tell
<1>14. ASSUME NEW b \in Batch, Progress(b) PROVE UNCHANGED <<refresh, url, news, faults, actions>>
  BY <1>14 DEF Progress, shown
<1>15. ASSUME NEW r \in wire, Handle(r) \/ RefuseRequest(r)
       PROVE  UNCHANGED <<refresh, url, news, faults, actions>>
  BY <1>15 DEF Handle, RefuseRequest, shown
<1>16. UNCHANGED tabVars => UNCHANGED <<refresh, url, news, faults, actions>>
  BY DEF tabVars, shown
<1>17. UNCHANGED <<refresh, url, news, faults, actions>> =>
            /\ refresh' \in [Tab -> SUBSET Batch] /\ url' \in [Tab -> Batch \cup {0}]
            /\ news' \in [Tab -> [Batch -> 0..MaxStamp]] /\ BudgetOK'
  BY <1>1 DEF BudgetOK
<1> QED
  BY <1>1, <1>2, <1>4, <1>5, <1>6, <1>7, <1>8, <1>9, <1>10, <1>11, <1>12, <1>13, <1>14, <1>15, <1>16,
     <1>17 DEF TabsNext, PollStep, BudgetOK

-----------------------------------------------------------------------------
(* What tabs have received, and what they owe.                             *)

LEMMA StepReceived ==
    ASSUME TabsTypeOK, PostInv, [TabsNext]_tabVars, NEW u \in Tab, NEW c \in Batch
    PROVE  poll'[u].received[c] \in {0, poll[u].received[c], stamp[c]}
<1>0. poll \in [Tab -> PollType] /\ watched \in [Tab -> SUBSET Batch] /\ Nothing[c] = 0
  BY DEF TabsTypeOK, Nothing
<1>1. ASSUME NEW t \in Tab, NEW p, Become(t, p),
             p.received = poll[t].received \/ p.received[c] \in {0, poll[t].received[c], stamp[c]}
      PROVE  poll'[u].received[c] \in {0, poll[u].received[c], stamp[c]}
  BY <1>0, <1>1 DEF Become
<1>2. ASSUME NEW t \in Tab, Timer(t)
      PROVE  poll'[u].received[c] \in {0, poll[u].received[c], stamp[c]}
  BY <1>0, <1>1, <1>2, StartedIs DEF Timer
<1>3. ASSUME NEW t \in Tab, FetchRecent(t)
      PROVE  poll'[u].received[c] \in {0, poll[u].received[c], stamp[c]}
  <2>1. RecentList \in SUBSET Batch
    BY DEF RecentList
  <2>2. /\ Read(poll[t], RecentList) \in PollType
        /\ Read(poll[t], RecentList).received[c] \in {poll[t].received[c], stamp[c]}
    BY <1>0, <2>1, ReadIs
  <2>3. [Read(poll[t], RecentList) EXCEPT !.pc = "active"].received = Read(poll[t], RecentList).received
    BY <2>2 DEF PollType
  <2> QED
    BY <1>1, <1>3, <2>2, <2>3 DEF FetchRecent
<1>4. ASSUME NEW t \in Tab, FetchActive(t)
      PROVE  poll'[u].received[c] \in {0, poll[u].received[c], stamp[c]}
  <2>1. ActiveList \in SUBSET Batch
    BY DEF ActiveList
  <2>2. /\ Read(poll[t], ActiveList) \in PollType
        /\ Read(poll[t], ActiveList).received[c] \in {poll[t].received[c], stamp[c]}
    BY <1>0, <2>1, ReadIs
  <2>3. [Read(poll[t], ActiveList) EXCEPT !.pc = "ids"].received = Read(poll[t], ActiveList).received
    BY <2>2 DEF PollType
  <2> QED
    BY <1>1, <1>4, <2>2, <2>3 DEF FetchActive
<1>5. ASSUME NEW t \in Tab, FetchOne(t)
      PROVE  poll'[u].received[c] \in {0, poll[u].received[c], stamp[c]}
  <2>1. PICK b \in ToVisit(t) :
          Become(t, [Read(poll[t], {b}) EXCEPT !.refreshed = @ \cup {b}, !.late = @ \ {b}])
    BY <1>5 DEF FetchOne
  <2>2. {b} \in SUBSET Batch
    BY <1>0, <2>1 DEF ToVisit
  <2>3. /\ Read(poll[t], {b}) \in PollType
        /\ Read(poll[t], {b}).received[c] \in {poll[t].received[c], stamp[c]}
    BY <1>0, <2>2, ReadIs
  <2>4. [Read(poll[t], {b}) EXCEPT !.refreshed = @ \cup {b}, !.late = @ \ {b}].received
            = Read(poll[t], {b}).received
    BY <2>3 DEF PollType
  <2> QED
    BY <1>1, <2>1, <2>3, <2>4
<1>6. ASSUME NEW t \in Tab, EndPoll(t)
      PROVE  poll'[u].received[c] \in {0, poll[u].received[c], stamp[c]}
  <2>1. [poll[t] EXCEPT !.failed = FALSE, !.initial = FALSE] \in PollType
    <3>1. poll[t] \in PollType
      BY <1>0
    <3> QED
      BY <3>1 DEF PollType
  <2> QED
    BY <1>0, <1>1, <1>6, <2>1, RestIs DEF EndPoll
<1>7. ASSUME NEW t \in Tab, PollFails(t)
      PROVE  poll'[u].received[c] \in {0, poll[u].received[c], stamp[c]}
  <2>1. [poll[t] EXCEPT !.failed = TRUE, !.hist = @ \/ poll[t].recent] \in PollType
    <3>1. poll[t] \in PollType
      BY <1>0
    <3> QED
      BY <3>1 DEF PollType
  <2> QED
    BY <1>0, <1>1, <1>7, <2>1, RestIs DEF PollFails
<1>8. ASSUME NEW t \in Tab, NEW h \in BOOLEAN, Become(t, Woken(poll[t], h))
      PROVE  poll'[u].received[c] \in {0, poll[u].received[c], stamp[c]}
  <2>1. Woken(poll[t], h).received = poll[t].received
    BY <1>0, WokenIs
  <2> QED
    BY <1>1, <1>8, <2>1
<1>9. ASSUME NEW t \in Tab, TakeAnswer(t)
      PROVE  poll'[u].received[c] \in {0, poll[u].received[c], stamp[c]}
  <2>1. post[t].batch \in Batch
    BY <1>9 DEF TakeAnswer, PostInv
  <2>2. poll' = [v \in Tab |-> IF v = t THEN Woken(poll[t], FALSE) ELSE ToldOf(poll[v], post[t].batch)]
    BY <1>9 DEF TakeAnswer
  <2>3. \A v \in Tab : /\ Woken(poll[v], FALSE).received = poll[v].received
                       /\ ToldOf(poll[v], post[t].batch).received = poll[v].received
    BY <1>0, <2>1, WokenIs, ToldIs
  <2> QED
    BY <2>2, <2>3
<1>10. ASSUME NEW b \in Batch, Elsewhere(b)
       PROVE  poll'[u].received[c] \in {0, poll[u].received[c], stamp[c]}
  <2>1. \A v \in Tab : ToldOf(poll[v], b).received = poll[v].received
    BY <1>0, ToldIs
  <2> QED
    BY <1>10, <2>1 DEF Elsewhere
<1>11. ASSUME NEW t \in Tab, Reload(t)
       PROVE  poll'[u].received[c] \in {0, poll[u].received[c], stamp[c]}
  BY <1>0, <1>1, <1>11, LoadedIs DEF Reload
<1>12. ASSUME NEW t \in Tab, Resume(t) \/ Select(t) \/ PostFails(t)
       PROVE  poll'[u].received[c] \in {0, poll[u].received[c], stamp[c]}
  BY <1>8, <1>12 DEF Resume, Select, PostFails
<1>13. ASSUME NEW t \in Tab, Submit(t) \/ SubmitSummary(t) \/ TakeRefusal(t)
       PROVE  poll' = poll
  BY <1>13 DEF Submit, SubmitSummary, TakeRefusal
<1>14. ASSUME NEW b \in Batch, Progress(b) PROVE poll' = poll
  BY <1>14 DEF Progress
<1>15. ASSUME NEW r \in wire, Handle(r) \/ RefuseRequest(r) PROVE poll' = poll
  BY <1>15 DEF Handle, RefuseRequest
<1>16. UNCHANGED tabVars => poll' = poll
  BY DEF tabVars
<1> QED
  BY <1>2, <1>3, <1>4, <1>5, <1>6, <1>7, <1>9, <1>10, <1>11, <1>12, <1>13, <1>14, <1>15, <1>16
     DEF TabsNext, PollStep

\* What a tab showed, or received, stays said.
LEMMA StepSaid ==
    ASSUME TabsTypeOK, StampInv, SaidOK, PostInv, AnswersOK, [TabsNext]_tabVars
    PROVE  SaidOK'
<1>0. Grows
  BY ServerStep
<1>1. ASSUME NEW t \in Tab, NEW b \in Batch
      PROVE  known'[t][b] <= stamp'[b] /\ poll'[t].received[b] <= stamp'[b]
  <2>1. known'[t][b] <= stamp'[b]
    BY StepKnown DEF SaysOn
  <2>2. poll[t].received[b] <= stamp[b] /\ poll'[t].received[b] \in {0, poll[t].received[b], stamp[b]}
    BY StepReceived DEF SaidOK
  <2> QED
    BY <1>0, <2>1, <2>2, Numbers
<1> QED
  BY <1>1 DEF SaidOK

\* A tab that does nothing owes what it owed.
LEMMA Quiet ==
    ASSUME TabsTypeOK, StampInv, Grows, NEW t \in Tab, WakeOK(t), poll'[t] = poll[t],
           known'[t] = known[t], refresh'[t] = refresh[t], watched'[t] = watched[t]
    PROVE  WakeOK(t)'
<1>1. refresh[t] \in SUBSET Batch /\ poll[t].refreshed \in SUBSET Batch
  BY DEF TabsTypeOK, PollType
<1>2. ASSUME NEW b \in (refresh'[t] \cup poll'[t].refreshed) \ watched'[t] PROVE Past(b)'
  <2>1. b \in Batch /\ Past(b)
    BY <1>1, <1>2 DEF WakeOK
  <2> QED
    BY <2>1, PastStays
<1>3. ~HasActive(known[t]) => ~HasActive(known[t])'
  BY OverStays
<1> QED
  BY <1>2, <1>3 DEF WakeOK

\* What a tab was told of and does not follow is past after a step, if that
\* made it follow what is new and leave only what is past.
LEMMA Follows ==
    ASSUME TabsTypeOK, StampInv, Grows, NEW t \in Tab, WakeOK(t),
           \A b \in refresh'[t] \cup poll'[t].refreshed :
                b \in watched'[t] \/ b \in refresh[t] \cup poll[t].refreshed,
           \A b \in watched[t] : b \in watched'[t] \/ Past(b)
    PROVE  \A b \in (refresh'[t] \cup poll'[t].refreshed) \ watched'[t] : Past(b)'
<1>1. refresh[t] \in SUBSET Batch /\ poll[t].refreshed \in SUBSET Batch
  BY DEF TabsTypeOK, PollType
<1>2. ASSUME NEW b \in (refresh'[t] \cup poll'[t].refreshed) \ watched'[t] PROVE Past(b)'
  <2>1. b \in Batch /\ Past(b)
    BY <1>1, <1>2 DEF WakeOK
  <2> QED
    BY <2>1, PastStays
<1> QED
  BY <1>2

\* A tab that was woken polls now, and again if it was polling.
LEMMA Roused ==
    ASSUME TabsTypeOK, NEW t \in Tab, WakeOK(t), refresh' \in [Tab -> SUBSET Batch],
           poll'[t].pc \in InFlight, poll[t].pc \in InFlight => poll'[t].wake,
           poll'[t].received = poll[t].received, poll'[t].refreshed = poll[t].refreshed,
           poll[t].pc \notin InFlight => poll'[t].late = poll[t].late,
           \A b \in (refresh'[t] \cup poll'[t].refreshed) \ watched'[t] : Past(b)'
    PROVE  WakeOK(t)'
<1>1. poll'[t].pc # "asleep"
  BY DEF InFlight
<1>2. CASE poll[t].pc \in InFlight
  BY <1>1, <1>2 DEF WakeOK
<1>3. CASE poll[t].pc \notin InFlight
  <2>1. poll'[t].received = Nothing /\ poll'[t].refreshed = {} /\ poll'[t].late = {}
    BY <1>3 DEF WakeOK
  <2>2. \A b \in refresh'[t] : poll'[t].received[b] = 0
    BY <2>1 DEF Nothing
  <2> QED
    BY <1>1, <2>1, <2>2 DEF WakeOK
<1> QED
  BY <1>2, <1>3

\* A poll that is over leaves nothing, and the tab sleeps only if it owes
\* nothing.
LEMMA Rests ==
    ASSUME NEW t \in Tab, refresh' \in [Tab -> SUBSET Batch], poll'[t].received = Nothing,
           poll'[t].refreshed = {}, poll'[t].late = {},
           \A b \in (refresh'[t] \cup poll'[t].refreshed) \ watched'[t] : Past(b)',
           poll'[t].pc = "asleep" => ~HasActive(known[t])' /\ refresh'[t] \cap watched'[t] = {}
    PROVE  WakeOK(t)'
<1>1. \A b \in refresh'[t] : poll'[t].received[b] = 0
  BY DEF Nothing
<1> QED
  BY <1>1 DEF WakeOK

\* A step of one tab leaves the others as they are.
LEMMA Others ==
    ASSUME TabsTypeOK, StampInv, Grows, WakeInv, NEW t \in Tab, WakeOK(t)',
           \A u \in Tab \ {t} : /\ poll'[u] = poll[u] /\ known'[u] = known[u]
                                /\ refresh'[u] = refresh[u] /\ watched'[u] = watched[u]
    PROVE  WakeInv'
<1>1. ASSUME NEW u \in Tab, u # t PROVE WakeOK(u)'
  BY <1>1, Quiet DEF WakeInv
<1> QED
  BY <1>1 DEF WakeInv

\* A list that a poll reads holds no batch that is past.
LEMMA ListRead ==
    ASSUME TabsTypeOK, StampInv, WakeInv, Grows, NEW t \in Tab, NEW ids \in SUBSET Batch,
           \A b \in ids : ~Past(b), NEW c \in {"active", "ids"}, poll[t].pc \in InFlight,
           Become(t, [Read(poll[t], ids) EXCEPT !.pc = c]), UNCHANGED <<known, refresh, watched>>
    PROVE  WakeInv'
<1>1. poll \in [Tab -> PollType] /\ poll[t] \in PollType /\ refresh[t] \in SUBSET Batch /\ WakeOK(t)
  BY DEF TabsTypeOK, WakeInv
<1> DEFINE p == [Read(poll[t], ids) EXCEPT !.pc = c]
<1>2. /\ Read(poll[t], ids) \in PollType
      /\ \A b \in Batch : Read(poll[t], ids).received[b] = IF b \in ids THEN stamp[b] ELSE poll[t].received[b]
      /\ Read(poll[t], ids).wake = poll[t].wake
      /\ Read(poll[t], ids).refreshed = poll[t].refreshed /\ Read(poll[t], ids).late = poll[t].late
  BY <1>1, ReadIs
<1>3. /\ p.pc = c /\ p.wake = poll[t].wake /\ p.refreshed = poll[t].refreshed /\ p.late = poll[t].late
      /\ \A b \in Batch : b \notin ids => p.received[b] = poll[t].received[b]
  BY <1>2 DEF PollType
<1>4. poll' = [poll EXCEPT ![t] = p]
  BY DEF Become
<1> HIDE DEF p
<1>5. poll'[t] = p /\ \A u \in Tab \ {t} : poll'[u] = poll[u]
  BY <1>1, <1>4
<1>6. \A b \in (refresh'[t] \cup poll'[t].refreshed) \ watched'[t] : Past(b)'
  BY <1>1, <1>3, <1>5, Follows
<1>7. ASSUME ~poll'[t].wake
      PROVE  /\ poll'[t].late = {} /\ poll'[t].refreshed \cap refresh'[t] = {}
             /\ \A b \in refresh'[t] : poll'[t].received[b] > 0 => b \in watched'[t]
  <2>1. /\ poll[t].late = {} /\ poll[t].refreshed \cap refresh[t] = {}
        /\ \A b \in refresh[t] : poll[t].received[b] > 0 => b \in watched[t]
    BY <1>1, <1>3, <1>5, <1>7 DEF WakeOK
  <2>2. \A b \in refresh[t] : b \in watched[t] \/ b \notin ids
    BY <1>1 DEF WakeOK
  <2> QED
    BY <1>1, <1>3, <1>5, <2>1, <2>2
<1>8. WakeOK(t)'
  BY <1>3, <1>5, <1>6, <1>7 DEF WakeOK, InFlight
<1> QED
  BY <1>5, <1>8, Others

LEMMA StepPolls ==
    ASSUME TabsTypeOK, StampInv, WakeInv, NEW t \in Tab, PollStep(t)
    PROVE  WakeInv'
<1>0. /\ poll \in [Tab -> PollType] /\ poll[t] \in PollType /\ refresh[t] \in SUBSET Batch
      /\ refresh \in [Tab -> SUBSET Batch] /\ watched \in [Tab -> SUBSET Batch] /\ WakeOK(t)
  BY DEF TabsTypeOK, WakeInv
<1>1. Grows
  <2>1. UNCHANGED server
    BY DEF PollStep, Timer, FetchRecent, FetchActive, FetchOne, EndPoll
  <2> QED
    BY <2>1, ServerStays
<1>2. CASE Timer(t)
  <2>1. /\ poll[t].pc = "timer" /\ UNCHANGED <<known, refresh, watched>>
        /\ poll' = [poll EXCEPT ![t] = Started(poll[t])]
    BY <1>2 DEF Timer, Become, shown
  <2>2. poll'[t] = Started(poll[t]) /\ \A u \in Tab \ {t} : poll'[u] = poll[u]
    BY <1>0, <2>1
  <2>3. /\ poll'[t].pc \in InFlight /\ poll[t].pc \notin InFlight
        /\ poll'[t].received = poll[t].received /\ poll'[t].refreshed = poll[t].refreshed
        /\ poll'[t].late = poll[t].late
    BY <1>0, <2>1, <2>2, StartedIs DEF InFlight
  <2>4. \A b \in (refresh'[t] \cup poll'[t].refreshed) \ watched'[t] : Past(b)'
    BY <1>0, <1>1, <2>1, <2>3, Follows
  <2>5. WakeOK(t)'
    BY <1>0, <2>1, <2>3, <2>4, Roused
  <2> QED
    BY <1>1, <2>1, <2>2, <2>5, Others
<1>3. CASE FetchRecent(t)
  <2>1. RecentList \in SUBSET Batch
    BY DEF RecentList
  <2>2. ASSUME NEW b \in RecentList PROVE ~Past(b)
    <3>1. Cardinality(Newer(b)) \in Nat /\ Cardinality(Newer(b)) < Recent
      <4>1. Newer(b) \in SUBSET Batch
        BY DEF Newer
      <4> QED
        BY <2>2, <4>1, Counting DEF RecentList
    <3> QED
      BY <3>1, TabConstants DEF Past
  <2>3. /\ poll[t].pc \in InFlight /\ UNCHANGED <<known, refresh, watched>>
        /\ Become(t, [Read(poll[t], RecentList) EXCEPT !.pc = "active"])
    BY <1>3 DEF FetchRecent, InFlight, shown
  <2> QED
    BY <1>1, <2>1, <2>2, <2>3, ListRead
<1>4. CASE FetchActive(t)
  <2>1. ActiveList \in SUBSET Batch
    BY DEF ActiveList
  <2>2. \A b \in ActiveList : ~Past(b)
    BY DEF ActiveList, Active, Past
  <2>3. /\ poll[t].pc \in InFlight /\ UNCHANGED <<known, refresh, watched>>
        /\ Become(t, [Read(poll[t], ActiveList) EXCEPT !.pc = "ids"])
    BY <1>4 DEF FetchActive, InFlight, shown
  <2> QED
    BY <1>1, <2>1, <2>2, <2>3, ListRead
<1>5. CASE FetchOne(t)
  <2>1. PICK b \in ToVisit(t) :
          /\ refresh' = [refresh EXCEPT ![t] = @ \ {b}]
          /\ Become(t, [Read(poll[t], {b}) EXCEPT !.refreshed = @ \cup {b}, !.late = @ \ {b}])
    BY <1>5 DEF FetchOne
  <2> DEFINE p == [Read(poll[t], {b}) EXCEPT !.refreshed = @ \cup {b}, !.late = @ \ {b}]
  <2>2. b \in watched[t] /\ b \in Batch /\ {b} \in SUBSET Batch
    BY <1>0, <2>1 DEF ToVisit
  <2>3. /\ Read(poll[t], {b}) \in PollType
        /\ \A c \in Batch : c # b => Read(poll[t], {b}).received[c] = poll[t].received[c]
        /\ Read(poll[t], {b}).pc = poll[t].pc /\ Read(poll[t], {b}).wake = poll[t].wake
        /\ Read(poll[t], {b}).refreshed = poll[t].refreshed /\ Read(poll[t], {b}).late = poll[t].late
    BY <1>0, <2>2, ReadIs
  <2>4. /\ p.pc = poll[t].pc /\ p.wake = poll[t].wake /\ p.refreshed = poll[t].refreshed \cup {b}
        /\ p.late = poll[t].late \ {b}
        /\ \A c \in Batch : c # b => p.received[c] = poll[t].received[c]
    BY <2>3 DEF PollType
  <2>5. poll' = [poll EXCEPT ![t] = p]
    BY <2>1 DEF Become
  <2> HIDE DEF p
  <2>6. UNCHANGED <<known, watched>> /\ poll[t].pc = "ids"
    BY <1>5 DEF FetchOne, shown
  <2>7. /\ poll'[t] = p /\ refresh'[t] = refresh[t] \ {b}
        /\ \A u \in Tab \ {t} : poll'[u] = poll[u] /\ refresh'[u] = refresh[u]
    BY <1>0, <2>1, <2>5
  <2>8. \A c \in (refresh'[t] \cup poll'[t].refreshed) \ watched'[t] : Past(c)'
    BY <1>0, <1>1, <2>2, <2>4, <2>6, <2>7, Follows
  <2>9. ASSUME ~poll'[t].wake
        PROVE  /\ poll'[t].late = {} /\ poll'[t].refreshed \cap refresh'[t] = {}
               /\ \A c \in refresh'[t] : poll'[t].received[c] > 0 => c \in watched'[t]
    <3>1. /\ poll[t].late = {} /\ poll[t].refreshed \cap refresh[t] = {}
          /\ \A c \in refresh[t] : poll[t].received[c] > 0 => c \in watched[t]
      BY <1>0, <2>4, <2>7, <2>9 DEF WakeOK
    <3> QED
      BY <1>0, <2>4, <2>6, <2>7, <3>1
  <2>10. WakeOK(t)'
    BY <2>4, <2>6, <2>7, <2>8, <2>9 DEF WakeOK, InFlight
  <2> QED
    BY <1>1, <2>6, <2>7, <2>10, Others
<1>6. CASE EndPoll(t)
  <2> DEFINE q == [poll[t] EXCEPT !.failed = FALSE, !.initial = FALSE]
  <2>1. q \in PollType /\ q.wake = poll[t].wake
    BY <1>0 DEF PollType
  <2>2. /\ Accept(t, poll[t].received, url[t], {}) /\ refresh' = refresh
        /\ poll' = [poll EXCEPT ![t] = Rest(q, known'[t])] /\ UNCHANGED server
        /\ \A b \in ToVisit(t) : b \notin refresh[t] \ poll[t].late
    BY <1>6 DEF EndPoll, Become
  <2> HIDE DEF q
  <2>3. poll[t].received \in [Batch -> 0..MaxStamp] /\ {} \in SUBSET Batch
    BY <1>0 DEF PollType
  <2>4. /\ \A b \in Batch : b \in watched[t] => b \in watched'[t] \/ Past(b)
        /\ \A b \in watched'[t] : b \in watched[t] \/ poll[t].received[b] > 0
        /\ \A u \in Tab \ {t} : known'[u] = known[u] /\ watched'[u] = watched[u]
    <3> DEFINE r == poll[t].received
               none == {}
    <3>1. Accept(t, r, url[t], none) /\ r \in [Batch -> 0..MaxStamp] /\ none \in SUBSET Batch
      BY <2>2, <2>3
    <3> HIDE DEF r, none
    <3>2. /\ \A u \in Tab \ {t} : known'[u] = known[u] /\ watched'[u] = none \cup watched[u]
          /\ \A b \in Batch : b \in watched[t] \/ r[b] > 0 => b \in watched'[t] \/ Past(b)
          /\ \A b \in watched'[t] : b \in none \/ b \in watched[t] \/ r[b] > 0
      BY <3>1, AcceptIs
    <3> QED
      BY <3>2 DEF r, none
  <2>5. poll'[t] = Rest(q, known'[t]) /\ \A u \in Tab \ {t} : poll'[u] = poll[u]
    BY <1>0, <2>2
  <2>6. /\ poll'[t].received = Nothing /\ poll'[t].refreshed = {} /\ poll'[t].late = {}
        /\ poll'[t].pc = "asleep" => ~poll[t].wake /\ ~HasActive(known'[t])
    BY <2>1, <2>5, RestIs
  <2>7. \A b \in (refresh'[t] \cup poll'[t].refreshed) \ watched'[t] : Past(b)'
    BY <1>0, <1>1, <2>2, <2>4, <2>6, Follows
  <2>8. ASSUME poll'[t].pc = "asleep", NEW b \in refresh[t] \cap watched'[t] PROVE FALSE
    <3>1. /\ poll[t].late = {} /\ b \notin poll[t].refreshed
          /\ poll[t].received[b] > 0 => b \in watched[t]
      BY <1>0, <2>6, <2>8 DEF WakeOK
    <3>2. b \in ToVisit(t)
      BY <2>4, <2>8, <3>1 DEF ToVisit
    <3> QED
      BY <2>2, <2>8, <3>1, <3>2
  <2>9. ~HasActive(known'[t]) => ~HasActive(known[t])'
    BY <2>2 DEF server, HasActive, ShownActive, Over
  <2>10. WakeOK(t)'
    BY <1>0, <2>2, <2>6, <2>7, <2>8, <2>9, Rests
  <2> QED
    BY <1>1, <2>2, <2>4, <2>5, <2>10, Others
<1> QED
  BY <1>2, <1>3, <1>4, <1>5, <1>6 DEF PollStep

\* Polls that fail, and what wakes polls.
LEMMA StepWakes ==
    ASSUME TabsTypeOK, StampInv, WakeInv, PostInv, NEW t \in Tab,
           PollFails(t) \/ Resume(t) \/ Select(t) \/ PostFails(t) \/ Reload(t)
    PROVE  WakeInv'
<1>0. /\ poll \in [Tab -> PollType] /\ poll[t] \in PollType /\ refresh[t] \in SUBSET Batch
      /\ refresh \in [Tab -> SUBSET Batch] /\ watched \in [Tab -> SUBSET Batch]
      /\ known \in [Tab -> [Batch -> 0..MaxStamp]] /\ WakeOK(t)
  BY DEF TabsTypeOK, WakeInv
<1>1. Grows /\ UNCHANGED server
  <2>1. UNCHANGED server
    BY DEF PollFails, Resume, Select, PostFails, Reload
  <2> QED
    BY <2>1, ServerStays
<1>2. ASSUME NEW h \in BOOLEAN, Become(t, Woken(poll[t], h)), UNCHANGED <<known, refresh>>,
             watched[t] \subseteq watched'[t], \A u \in Tab \ {t} : watched'[u] = watched[u]
      PROVE  WakeInv'
  <2>1. poll'[t] = Woken(poll[t], h) /\ \A u \in Tab \ {t} : poll'[u] = poll[u]
    BY <1>0, <1>2 DEF Become
  <2>2. /\ poll'[t].pc \in InFlight /\ (poll[t].pc \in InFlight => poll'[t].wake)
        /\ poll'[t].received = poll[t].received /\ poll'[t].refreshed = poll[t].refreshed
        /\ poll'[t].late = poll[t].late
    BY <1>0, <2>1, WokenIs
  <2>3. \A b \in (refresh'[t] \cup poll'[t].refreshed) \ watched'[t] : Past(b)'
    BY <1>0, <1>1, <1>2, <2>2, Follows
  <2>4. WakeOK(t)'
    BY <1>0, <1>2, <2>2, <2>3, Roused
  <2> QED
    BY <1>1, <1>2, <2>1, <2>4, Others
<1>3. CASE PollFails(t)
  <2> DEFINE q == [poll[t] EXCEPT !.failed = TRUE, !.hist = @ \/ poll[t].recent]
  <2>1. q \in PollType /\ q.failed
    BY <1>0 DEF PollType
  <2>2. /\ poll' = [poll EXCEPT ![t] = Rest(q, known[t])] /\ UNCHANGED <<known, watched>>
        /\ refresh' = [refresh EXCEPT ![t] = refresh[t] \cup poll[t].refreshed]
    BY <1>3 DEF PollFails, Become, ReadAgain, shown
  <2> HIDE DEF q
  <2>3. /\ poll'[t] = Rest(q, known[t]) /\ refresh'[t] = refresh[t] \cup poll[t].refreshed
        /\ \A u \in Tab \ {t} : poll'[u] = poll[u] /\ refresh'[u] = refresh[u]
    BY <1>0, <2>2
  <2>4. /\ poll'[t].received = Nothing /\ poll'[t].refreshed = {} /\ poll'[t].late = {}
        /\ poll'[t].pc # "asleep"
    BY <2>1, <2>3, RestIs
  <2>5. poll[t].refreshed \in SUBSET Batch
    BY <1>0 DEF PollType
  <2>6. refresh' \in [Tab -> SUBSET Batch]
    BY <1>0, <2>2, <2>5
  <2>7. \A b \in (refresh'[t] \cup poll'[t].refreshed) \ watched'[t] : Past(b)'
    BY <1>0, <1>1, <2>2, <2>3, <2>4, Follows
  <2>8. WakeOK(t)'
    BY <2>4, <2>6, <2>7, Rests
  <2> QED
    BY <1>1, <2>2, <2>3, <2>8, Others
<1>4. CASE Resume(t)
  BY <1>2, <1>4 DEF Resume, shown
<1>5. CASE Select(t)
  <2>1. PICK b \in Batch : watched' = [watched EXCEPT ![t] = @ \cup {b}]
    BY <1>5 DEF Select, Follow
  <2>2. Become(t, Woken(poll[t], FALSE)) /\ UNCHANGED <<known, refresh>>
    BY <1>5 DEF Select
  <2> QED
    BY <1>0, <1>2, <2>1, <2>2
<1>6. CASE PostFails(t)
  <2>1. /\ UNCHANGED <<known, refresh, watched>>
        /\ UNCHANGED poll \/ Become(t, Woken(poll[t], TRUE))
    BY <1>6 DEF PostFails, shown
  <2>2. CASE UNCHANGED poll
    BY <1>1, <2>1, <2>2, Quiet DEF WakeInv
  <2>3. CASE Become(t, Woken(poll[t], TRUE))
    BY <1>2, <2>1, <2>3
  <2> QED
    BY <2>1, <2>2, <2>3
<1>7. CASE Reload(t)
  <2>1. /\ refresh' = [refresh EXCEPT ![t] = {}] /\ poll' = [poll EXCEPT ![t] = Loaded]
        /\ known' = [known EXCEPT ![t] = Nothing] /\ watched' = [watched EXCEPT ![t] = {url[t]} \ {0}]
    BY <1>7 DEF Reload, Become
  <2>2. /\ refresh'[t] = {} /\ poll'[t] = Loaded
        /\ \A u \in Tab \ {t} : /\ refresh'[u] = refresh[u] /\ poll'[u] = poll[u]
                                /\ known'[u] = known[u] /\ watched'[u] = watched[u]
    BY <1>0, <2>1
  <2>3. WakeOK(t)'
    BY <2>2, LoadedIs DEF WakeOK, InFlight
  <2> QED
    BY <1>1, <2>2, <2>3, Others
<1> QED
  BY <1>3, <1>4, <1>5, <1>6, <1>7

\* What is told to a tab wakes its polling.
LEMMA Told ==
    ASSUME TabsTypeOK, StampInv, Grows, NEW t \in Tab, NEW b \in Batch, WakeOK(t),
           refresh' \in [Tab -> SUBSET Batch], poll'[t] = ToldOf(poll[t], b),
           refresh'[t] = refresh[t] \cup {b}, watched'[t] = watched[t] \cup {b}
    PROVE  WakeOK(t)'
<1>1. poll[t] \in PollType
  BY DEF TabsTypeOK
<1>2. /\ poll'[t].pc \in InFlight /\ (poll[t].pc \in InFlight => poll'[t].wake)
      /\ poll'[t].received = poll[t].received /\ poll'[t].refreshed = poll[t].refreshed
      /\ poll[t].pc \notin InFlight => poll'[t].late = poll[t].late
  BY <1>1, ToldIs
<1>3. \A c \in (refresh'[t] \cup poll'[t].refreshed) \ watched'[t] : Past(c)'
  BY <1>2, Follows
<1> QED
  BY <1>2, <1>3, Roused

LEMMA StepWake ==
    ASSUME TabsTypeOK, StampInv, WakeInv, PostInv, AnswersOK, [TabsNext]_tabVars
    PROVE  WakeInv'
<1>0. /\ poll \in [Tab -> PollType] /\ refresh \in [Tab -> SUBSET Batch]
      /\ watched \in [Tab -> SUBSET Batch] /\ known \in [Tab -> [Batch -> 0..MaxStamp]] /\ Grows
      /\ refresh' \in [Tab -> SUBSET Batch]
  BY ServerStep, StepRest DEF TabsTypeOK
<1>1. ASSUME UNCHANGED <<poll, refresh, watched, known>> PROVE WakeInv'
  BY <1>0, <1>1, Quiet DEF WakeInv
<1>2. ASSUME NEW t \in Tab, TakeAnswer(t) PROVE WakeInv'
  <2> DEFINE b == post[t].batch
             answers == [Nothing EXCEPT ![b] = post[t].stamp]
  <2>1. /\ Accept(t, answers, url[t], {b}) /\ Tell(Tab \ {t}, b)
        /\ poll' = [u \in Tab |-> IF u = t THEN Woken(poll[t], FALSE) ELSE ToldOf(poll[u], b)]
    BY <1>2 DEF TakeAnswer
  <2>2. b \in Batch /\ {b} \in SUBSET Batch /\ answers \in [Batch -> 0..MaxStamp]
    BY <1>2, AnswerIs
  <2> HIDE DEF b, answers
  <2>3. /\ \A u \in Tab \ {t} : known'[u] = known[u] /\ watched'[u] = {b} \cup watched[u]
        /\ \A c \in Batch : c \in watched[t] \/ answers[c] > 0 => c \in watched'[t] \/ Past(c)
    BY <2>1, <2>2, AcceptIs
  <2>4. /\ poll'[t] = Woken(poll[t], FALSE) /\ refresh'[t] = refresh[t]
        /\ \A u \in Tab \ {t} : poll'[u] = ToldOf(poll[u], b) /\ refresh'[u] = refresh[u] \cup {b}
    BY <2>1 DEF Tell
  <2>5. ASSUME NEW u \in Tab, u # t PROVE WakeOK(u)'
    <3>1. watched'[u] = watched[u] \cup {b}
      BY <2>3, <2>5
    <3> QED
      BY <1>0, <2>2, <2>4, <2>5, <3>1, Told DEF WakeInv
  <2>6. WakeOK(t)'
    <3>1. /\ poll'[t].pc \in InFlight /\ (poll[t].pc \in InFlight => poll'[t].wake)
          /\ poll'[t].received = poll[t].received /\ poll'[t].refreshed = poll[t].refreshed
          /\ poll'[t].late = poll[t].late
      <4>1. poll[t] \in PollType /\ FALSE \in BOOLEAN
        BY <1>0
      <4>2. /\ Woken(poll[t], FALSE).pc \in InFlight
            /\ poll[t].pc \in InFlight => Woken(poll[t], FALSE).wake
            /\ Woken(poll[t], FALSE).received = poll[t].received
            /\ Woken(poll[t], FALSE).refreshed = poll[t].refreshed
            /\ Woken(poll[t], FALSE).late = poll[t].late
        BY <4>1, WokenIs
      <4> QED
        BY <2>4, <4>2
    <3>2. WakeOK(t) /\ \A c \in watched[t] : c \in watched'[t] \/ Past(c)
      BY <1>0, <2>3 DEF WakeInv
    <3>3. \A c \in (refresh'[t] \cup poll'[t].refreshed) \ watched'[t] : Past(c)'
      BY <1>0, <2>4, <3>1, <3>2, Follows
    <3> QED
      BY <1>0, <3>1, <3>2, <3>3, Roused
  <2> QED
    BY <2>5, <2>6 DEF WakeInv
<1>3. ASSUME NEW b \in Batch, Elsewhere(b) PROVE WakeInv'
  <2>1. \A u \in Tab : /\ poll'[u] = ToldOf(poll[u], b) /\ refresh'[u] = refresh[u] \cup {b}
                       /\ watched'[u] = watched[u] \cup {b}
    BY <1>3 DEF Elsewhere, Tell
  <2> QED
    BY <1>0, <2>1, Told DEF WakeInv
<1>4. ASSUME NEW t \in Tab, Submit(t) \/ SubmitSummary(t) \/ TakeRefusal(t)
      PROVE  UNCHANGED <<poll, refresh, watched, known>>
  BY <1>4 DEF Submit, SubmitSummary, TakeRefusal, shown
<1>5. ASSUME NEW b \in Batch, Progress(b) PROVE UNCHANGED <<poll, refresh, watched, known>>
  BY <1>5 DEF Progress, shown
<1>6. ASSUME NEW r \in wire, Handle(r) \/ RefuseRequest(r)
      PROVE  UNCHANGED <<poll, refresh, watched, known>>
  BY <1>6 DEF Handle, RefuseRequest, shown
<1>7. UNCHANGED tabVars => UNCHANGED <<poll, refresh, watched, known>>
  BY DEF tabVars, shown
<1>8. ASSUME NEW t \in Tab,
             PollStep(t) \/ PollFails(t) \/ Resume(t) \/ Select(t) \/ PostFails(t) \/ Reload(t)
      PROVE  WakeInv'
  BY <1>8, StepPolls, StepWakes
<1> QED
  BY <1>1, <1>2, <1>3, <1>4, <1>5, <1>6, <1>7, <1>8 DEF TabsNext

-----------------------------------------------------------------------------
(* The theorems.                                                           *)

\* Every step of the tabs and the server keeps the invariant, and shows
\* nothing older.
LEMMA TabsStep ==
    ASSUME TabInv, [TabsNext]_tabVars
    PROVE  TabInv' /\ \A t \in Tab : SaysOn(t)
<1>1. TabsTypeOK /\ StampInv /\ SaidOK /\ AnswersOK /\ PostInv /\ WakeInv
  BY DEF TabInv
<1>2. KeysOK
  BY DEF TabInv, TabsTypeOK, KeysOK, SendingOK
<1>3. Grows
  BY <1>1, ServerStep
<1>4. KeysOK' /\ AnswersOK'
  BY <1>1, <1>2, StepKeys
<1>5. /\ known' \in [Tab -> [Batch -> 0..MaxStamp]] /\ watched' \in [Tab -> SUBSET Batch]
      /\ \A t \in Tab : SaysOn(t)
  BY <1>1, StepKnown
<1>6. poll' \in [Tab -> PollType]
  BY <1>1, StepPollType
<1>7. /\ refresh' \in [Tab -> SUBSET Batch] /\ url' \in [Tab -> Batch \cup {0}]
      /\ news' \in [Tab -> [Batch -> 0..MaxStamp]] /\ BudgetOK'
  BY <1>1, StepRest
<1>8. TabsTypeOK'
  BY <1>3, <1>4, <1>5, <1>6, <1>7 DEF TabsTypeOK, Grows, KeysOK, SendingOK, BudgetOK
<1>9. StampInv'
  BY <1>3 DEF StampInv, Grows
<1>10. SaidOK'
  BY <1>1, StepSaid
<1>11. WakeInv'
  BY <1>1, StepWake
<1> QED
  BY <1>4, <1>5, <1>8, <1>9, <1>10, <1>11 DEF TabInv, KeysOK

LEMMA TabsStart == TabsInit => TabInv
<1> SUFFICES ASSUME TabsInit PROVE TabInv
  OBVIOUS
<1>0. /\ made = Nothing /\ stamp = Nothing /\ overAt = Nothing /\ wire = {}
      /\ owner = [b \in Batch |-> NoTab] /\ settled = {} /\ pendingRequest = [t \in Tab |-> 0]
      /\ post = [t \in Tab |-> NoPost] /\ known = [t \in Tab |-> Nothing]
      /\ watched = [t \in Tab |-> {}] /\ refresh = [t \in Tab |-> {}] /\ url = [t \in Tab |-> 0]
      /\ poll = [t \in Tab |-> Loaded] /\ news = [t \in Tab |-> Nothing]
      /\ faults = 0 /\ actions = 0
  BY DEF TabsInit
<1>1. /\ made \in [Batch -> 0..MaxBatches] /\ stamp \in [Batch -> 0..MaxStamp]
      /\ overAt \in [Batch -> 0..MaxStamp] /\ BudgetOK
  BY <1>0, TabConstants DEF Nothing, BudgetOK
<1>2. SendingOK
  BY <1>0, NoPostIs DEF SendingOK
<1>3. ShownOK /\ poll \in [Tab -> PollType]
  BY <1>0, TabConstants, LoadedIs DEF ShownOK
<1>4. TabsTypeOK
  BY <1>1, <1>2, <1>3 DEF TabsTypeOK, SendingOK, ShownOK, BudgetOK
<1>5. StampInv
  BY <1>0 DEF StampInv, Nothing
<1>6. SaidOK
  <2>1. \A t \in Tab, b \in Batch : known[t][b] = 0 /\ poll[t].received[b] = 0 /\ stamp[b] = 0
    BY <1>0, LoadedIs DEF Nothing
  <2> QED
    BY <2>1 DEF SaidOK
<1>7. AnswersOK /\ PostInv
  BY <1>0, NoPostIs DEF AnswersOK, PostInv
<1>8. NothingAskedTwice
  BY <1>0, TabConstants DEF NothingAskedTwice
<1>9. WakeInv
  BY <1>0, LoadedIs DEF WakeInv, WakeOK, InFlight
<1> QED
  BY <1>4, <1>5, <1>6, <1>7, <1>8, <1>9 DEF TabInv

LEMMA TabsInvariance == TabsSpec => []TabInv
<1>1. TabInv /\ [TabsNext]_tabVars => TabInv'
  BY TabsStep
<1> QED
  BY <1>1, TabsStart, PTL DEF TabsSpec

\* Tabs, requests and batches keep their shape for any number of tabs,
\* batches and faults.
THEOREM TabsTypeCorrect == TabsSpec => []TabsTypeOK
<1>1. TabInv => TabsTypeOK
  BY DEF TabInv
<1> QED
  BY <1>1, TabsInvariance, PTL

\* However many answers are lost and pages loaded again, a key whose outcome
\* its tab has not learnt stays its pending request: the next click sends that
\* one again, and the work is admitted once.
THEOREM NothingIsAskedTwice == TabsSpec => []NothingAskedTwice
<1>1. TabInv => NothingAskedTwice
  BY DEF TabInv
<1> QED
  BY <1>1, TabsInvariance, PTL

\* Of answers that arrive in any order, from polls, requests and events, a tab
\* never replaces what it shows by what is older.
THEOREM OlderIsNeverShown == TabsSpec => NeverShowsOlder
<1>1. TabInv /\ [TabsNext]_tabVars =>
        [\A t \in Tab, b \in Batch : known'[t][b] > 0 => known'[t][b] >= known[t][b]]_tabVars
  BY TabsStep DEF SaysOn
<1> QED
  BY <1>1, TabsInvariance, PTL DEF TabsSpec, NeverShowsOlder

\* A tab shows no state of a batch that the server never announced.
THEOREM OnlyWhatWasSaidIsShown == TabsSpec => []ShowsWhatWasSaid
<1>1. TabInv => ShowsWhatWasSaid
  BY DEF TabInv, SaidOK, ShowsWhatWasSaid
<1> QED
  BY <1>1, TabsInvariance, PTL

\* A tab that shows an active batch, or has one that it follows to read again,
\* never sleeps: an event that arrives while a poll ends is not lost.
THEOREM NoWakeIsLost == TabsSpec => []AwakeWhileNeeded
<1>1. TabInv => AwakeWhileNeeded
  BY DEF TabInv, WakeInv, WakeOK, AwakeWhileNeeded
<1> QED
  BY <1>1, TabsInvariance, PTL
=============================================================================
