---------------------------- MODULE RetryChains ----------------------------
(***************************************************************************)
(* What a prune of operations deletes: getProtectedCandidateIds and the    *)
(* rows it is applied to in prune-operations.mjs. An operation that stays  *)
(* keeps the operations that it retries, and those that they retry.        *)
(*                                                                         *)
(* retryOf maps each operation to the one it retries, or to anything that  *)
(* is no operation; candidates are the ended operations that are old.      *)
(***************************************************************************)

\* The sets of candidates that every walk stays in: a walk goes from an
\* operation that is no candidate, or from one reached, to what it retries.
Closed(S, operations, retryOf, candidates) ==
    \A o \in (operations \ candidates) \cup S :
        retryOf[o] \in candidates => retryOf[o] \in S

\* The candidates that some walk reaches.
Protected(operations, retryOf, candidates) ==
    {p \in candidates :
        \A S \in SUBSET candidates :
            Closed(S, operations, retryOf, candidates) => p \in S}

Deleted(operations, retryOf, candidates) ==
    candidates \ Protected(operations, retryOf, candidates)
=============================================================================
