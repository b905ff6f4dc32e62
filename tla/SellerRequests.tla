--------------------------- MODULE SellerRequests ---------------------------
(***************************************************************************)
(* Requests to the Naver Commerce API and the token they share:            *)
(* naver-request.ts and the token cache of naver-commerce.service.ts.      *)
(*                                                                         *)
(* The requests of one cache key (account, client, channel) are modelled:  *)
(* keys share nothing. A token is named by the renewal that brought it.    *)
(* The API is external: it answers, fails, or rejects a token it has       *)
(* revoked, whenever it likes.                                             *)
(***************************************************************************)
EXTENDS Naturals, FiniteSets

CONSTANTS
    Caller,         \* the calls of requestSellerJson
    MaxRenewals,    \* bound on token requests
    MaxFailures,    \* bound on answers that may be retried
    NoToken

HttpAttempts == 3
TokenAttempts == 2

ASSUME BoundAssumption ==
    /\ MaxRenewals \in Nat \ {0}
    /\ MaxFailures \in Nat
    /\ NoToken \notin 1..MaxRenewals

VARIABLES
    pc,         \* where each call awaits
    token,      \* the token a call sends
    waitsFor,   \* the renewal a call awaits
    attempt,    \* tokens a call has had rejected
    tries,      \* HTTP attempts of the current request that failed
    outcome,    \* how each call ended
    cached,     \* tokenCache: the token, and whether it is outside the buffer
    pending,    \* tokenRequests: the renewal under way
    renewal,    \* the phase of each renewal
    failedTries,\* its HTTP attempts that failed
    revoked,    \* tokens the API accepts no longer
    seen,       \* rejections: the tokens that each call saw rejected
    aged,       \* tokens that came within the buffer of their expiry
    signalled,  \* calls that were aborted
    failures    \* retryable failures so far

callVars == <<pc, token, waitsFor, attempt, tries, outcome>>
tokenVars == <<cached, pending, renewal, failedTries>>
history == <<seen, aged, signalled>>
vars == <<callVars, tokenVars, revoked, history, failures>>

Token == 1..MaxRenewals
NotCached == [token |-> NoToken, fresh |-> FALSE]
Waiting == {"token", "answer", "retry"}

-----------------------------------------------------------------------------
Init ==
    /\ pc = [c \in Caller |-> "idle"]
    /\ token = [c \in Caller |-> NoToken]
    /\ waitsFor = [c \in Caller |-> NoToken]
    /\ attempt = [c \in Caller |-> 0]
    /\ tries = [c \in Caller |-> 0]
    /\ outcome = [c \in Caller |-> "none"]
    /\ cached = NotCached
    /\ pending = NoToken
    /\ renewal = [n \in Token |-> "none"]
    /\ failedTries = [n \in Token |-> 0]
    /\ revoked = {}
    /\ seen = [c \in Caller |-> {}]
    /\ aged = {}
    /\ signalled = {}
    /\ failures = 0

\* Renewals are numbered in the order in which they start.
IsNext(n) == renewal[n] = "none" /\ \A m \in 1..(n - 1) : renewal[m] # "none"

\* The renewal under way is shared, a call that finds none starts one.
Renew(c) ==
    IF pending # NoToken
    THEN /\ waitsFor' = [waitsFor EXCEPT ![c] = pending]
         /\ UNCHANGED <<pending, renewal>>
    ELSE \E n \in Token :
            /\ IsNext(n)
            /\ renewal' = [renewal EXCEPT ![n] = "asking"]
            /\ pending' = n
            /\ waitsFor' = [waitsFor EXCEPT ![c] = n]

\* getSellerToken, up to its first await, with the cache at hand.
Obtain(c, cache) ==
    /\ cached' = cache
    /\ IF cache.fresh
       THEN /\ pc' = [pc EXCEPT ![c] = "answer"]
            /\ token' = [token EXCEPT ![c] = cache.token]
            /\ tries' = [tries EXCEPT ![c] = 0]
            /\ UNCHANGED <<waitsFor, pending, renewal>>
       ELSE /\ pc' = [pc EXCEPT ![c] = "token"]
            /\ token' = [token EXCEPT ![c] = NoToken]
            /\ tries' = [tries EXCEPT ![c] = 0]
            /\ Renew(c)
    /\ UNCHANGED failedTries

Call(c) ==
    /\ pc[c] = "idle"
    /\ Obtain(c, cached)
    /\ UNCHANGED <<attempt, outcome, revoked, history, failures>>

\* The calls in cs end, and what they held is forgotten.
EndAll(cs, how) ==
    /\ pc' = [c \in Caller |-> IF c \in cs THEN "done" ELSE pc[c]]
    /\ outcome' = [c \in Caller |-> IF c \in cs THEN how ELSE outcome[c]]
    /\ token' = [c \in Caller |-> IF c \in cs THEN NoToken ELSE token[c]]
    /\ waitsFor' = [c \in Caller |-> IF c \in cs THEN NoToken ELSE waitsFor[c]]
    /\ attempt' = [c \in Caller |-> IF c \in cs THEN 0 ELSE attempt[c]]
    /\ tries' = [c \in Caller |-> IF c \in cs THEN 0 ELSE tries[c]]

End(c, how) == EndAll({c}, how)

-----------------------------------------------------------------------------
(* The answers to a request: requestNaverJson.                             *)

Succeed(c) ==
    /\ pc[c] = "answer"
    /\ token[c] \notin revoked
    /\ End(c, "ok")
    /\ UNCHANGED <<tokenVars, revoked, history, failures>>

\* An error that no retry helps, or a wait too long for a worker.
Refuse(c) ==
    /\ pc[c] = "answer"
    /\ End(c, "failed")
    /\ UNCHANGED <<tokenVars, revoked, history, failures>>

\* 429, 5xx, a lost connection or 20 seconds without an answer.
FailOnce(c) ==
    /\ pc[c] = "answer"
    /\ failures < MaxFailures
    /\ failures' = failures + 1
    /\ \/ /\ tries[c] + 1 = HttpAttempts
          /\ End(c, "failed")
       \/ /\ tries[c] + 1 < HttpAttempts
          /\ pc' = [pc EXCEPT ![c] = "retry"]
          /\ tries' = [tries EXCEPT ![c] = @ + 1]
          /\ UNCHANGED <<token, waitsFor, attempt, outcome>>
    /\ UNCHANGED <<tokenVars, revoked, history>>

Retry(c) ==
    /\ pc[c] = "retry"
    /\ pc' = [pc EXCEPT ![c] = "answer"]
    /\ UNCHANGED <<token, waitsFor, attempt, tries, outcome, tokenVars, revoked, history, failures>>

\* Variant: a rejection drops whatever token is cached.
DropAny(c) == NotCached

\* A rejection drops the token that was rejected, not one that came since.
WithoutRejected(c) == IF cached.token = token[c] THEN NotCached ELSE cached

TokenLeft(c) == attempt[c] + 1 < TokenAttempts

\* GW.AUTHN: one more attempt, with another token.
Reject(c) ==
    /\ pc[c] = "answer"
    /\ token[c] \in revoked
    /\ seen' = [seen EXCEPT ![c] = @ \cup {token[c]}]
    /\ \/ /\ TokenLeft(c)
          /\ attempt' = [attempt EXCEPT ![c] = @ + 1]
          /\ Obtain(c, WithoutRejected(c))
          /\ UNCHANGED outcome
       \/ /\ ~TokenLeft(c)
          /\ End(c, "rejected")
          /\ UNCHANGED tokenVars
    /\ UNCHANGED <<revoked, aged, signalled, failures>>

\* Variant: an abort takes the calls that wait for the same renewal with it.
TogetherWith(c) == {d \in Caller : d = c \/ (pc[c] = "token" /\ pc[d] = "token")}

\* The calls that an abort ends: the renewal, and who else awaits it, go on.
AbortedWith(c) == {c}

Abort(c) ==
    /\ pc[c] \in Waiting
    /\ signalled' = signalled \cup {c}
    /\ EndAll(AbortedWith(c), "aborted")
    /\ UNCHANGED <<tokenVars, revoked, seen, aged, failures>>

-----------------------------------------------------------------------------
(* A renewal: issueSellerToken.                                            *)

IssueRetry(n) ==
    /\ renewal[n] = "asking"
    /\ failures < MaxFailures
    /\ failures' = failures + 1
    /\ failedTries[n] + 1 < HttpAttempts
    /\ failedTries' = [failedTries EXCEPT ![n] = @ + 1]
    /\ UNCHANGED <<callVars, cached, pending, renewal, revoked, history>>

\* The token has come; when it was issued is written down before it is used.
Issue(n) ==
    /\ renewal[n] = "asking"
    /\ renewal' = [renewal EXCEPT ![n] = "recording"]
    /\ UNCHANGED <<callVars, cached, pending, failedTries, revoked, history, failures>>

\* The entry of a renewal that settled is removed, however it settled.
Cleared(n) == IF pending = n THEN NoToken ELSE pending

\* Variant: only the call that started the renewal hears of its end.
FirstWaiter(n) ==
    LET all == {c \in Caller : pc[c] = "token" /\ waitsFor[c] = n}
    IN  IF all = {} THEN {} ELSE {CHOOSE c \in all : TRUE}

Waiters(n) == {c \in Caller : pc[c] = "token" /\ waitsFor[c] = n}

\* The token is cached, and those who await it go on with it.
Recorded(n) ==
    /\ renewal[n] = "recording"
    /\ renewal' = [renewal EXCEPT ![n] = "issued"]
    /\ cached' = [token |-> n, fresh |-> TRUE]
    /\ pending' = Cleared(n)
    /\ pc' = [c \in Caller |-> IF c \in Waiters(n) THEN "answer" ELSE pc[c]]
    /\ token' = [c \in Caller |-> IF c \in Waiters(n) THEN n ELSE token[c]]
    /\ waitsFor' = [c \in Caller |-> IF c \in Waiters(n) THEN NoToken ELSE waitsFor[c]]
    /\ failedTries' = [failedTries EXCEPT ![n] = 0]
    /\ UNCHANGED <<attempt, tries, outcome, revoked, history, failures>>

\* The API refuses, sends no token, or the note of it cannot be written: all
\* who await the renewal fail with it.
IssueFails(n) ==
    /\ renewal[n] \in {"asking", "recording"}
    /\ renewal' = [renewal EXCEPT ![n] = "failed"]
    /\ pending' = Cleared(n)
    /\ failedTries' = [failedTries EXCEPT ![n] = 0]
    /\ EndAll(Waiters(n), "unissued")
    /\ UNCHANGED <<cached, revoked, history, failures>>

-----------------------------------------------------------------------------
(* Time and the API.                                                       *)

\* The cached token comes within the buffer of its expiry.
Age ==
    /\ cached.fresh
    /\ cached' = [cached EXCEPT !.fresh = FALSE]
    /\ aged' = aged \cup {cached.token}
    /\ UNCHANGED <<callVars, pending, renewal, failedTries, revoked, seen, signalled, failures>>

Revoke(n) ==
    /\ renewal[n] \in {"recording", "issued"}
    /\ n \notin revoked
    /\ revoked' = revoked \cup {n}
    /\ UNCHANGED <<callVars, tokenVars, history, failures>>

Next ==
    \/ \E c \in Caller :
        \/ Call(c)
        \/ Succeed(c)
        \/ Refuse(c)
        \/ FailOnce(c)
        \/ Retry(c)
        \/ Reject(c)
        \/ Abort(c)
    \/ \E n \in Token :
        \/ IssueRetry(n)
        \/ Issue(n)
        \/ Recorded(n)
        \/ IssueFails(n)
        \/ Revoke(n)
    \/ Age

\* A request is answered or times out, a timer fires, a token request settles.
Fairness ==
    /\ \A c \in Caller : WF_vars(Succeed(c) \/ Refuse(c) \/ Reject(c)) /\ WF_vars(Retry(c))
    /\ \A n \in Token : WF_vars(Issue(n) \/ IssueFails(n)) /\ WF_vars(Recorded(n) \/ IssueFails(n))

Spec == Init /\ [][Next]_vars /\ Fairness

-----------------------------------------------------------------------------
(* Properties.                                                             *)

\* Calls, tokens and renewals keep their shape; the renewal that is pending
\* is under way, and so is the one that a call awaits.
TypeOK ==
    /\ pc \in [Caller -> {"idle", "done"} \cup Waiting]
    /\ token \in [Caller -> Token \cup {NoToken}]
    /\ waitsFor \in [Caller -> Token \cup {NoToken}]
    /\ attempt \in [Caller -> 0..(TokenAttempts - 1)]
    /\ tries \in [Caller -> 0..(HttpAttempts - 1)]
    /\ outcome \in [Caller -> {"none", "ok", "failed", "rejected", "aborted", "unissued"}]
    /\ cached \in [token : Token \cup {NoToken}, fresh : BOOLEAN]
    /\ pending \in Token \cup {NoToken}
    /\ renewal \in [Token -> {"none", "asking", "recording", "issued", "failed"}]
    /\ failedTries \in [Token -> 0..(HttpAttempts - 1)]
    /\ revoked \subseteq Token
    /\ seen \in [Caller -> SUBSET Token]
    /\ aged \subseteq Token
    /\ signalled \subseteq Caller
    /\ failures \in 0..MaxFailures
    /\ pending # NoToken => renewal[pending] \in {"asking", "recording"}
    /\ \A c \in Caller : pc[c] = "token" => pending = waitsFor[c]

\* A token is asked for only when every earlier one failed to come, expires
\* soon, or was rejected: however many calls find out at once that the token
\* is gone, one renewal serves them, and a late rejection of an old token does
\* not cost the new one.
RenewedOnce ==
    \A m, n \in Token :
        m < n /\ renewal[n] # "none" =>
            \/ renewal[m] = "failed"
            \/ renewal[m] = "issued" /\ m \in aged \cup UNION {seen[c] : c \in Caller}

\* No call pays for another one: it is aborted only by its own signal, and it
\* fails for authentication only after two different tokens of its own were
\* rejected, so the revocation of one token is never seen by a caller.
FailsForItsOwnCause ==
    \A c \in Caller :
        /\ outcome[c] = "aborted" => c \in signalled
        /\ outcome[c] = "rejected" => Cardinality(seen[c]) = 2

\* Every call that is made ends, whatever the API answers and whoever aborts.
EveryCallEnds == \A c \in Caller : pc[c] # "idle" ~> pc[c] = "done"
=============================================================================
