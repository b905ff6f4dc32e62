--------------------------- MODULE MCMaintenance ---------------------------
(* Small instances of Maintenance and RetryChains for TLC.                 *)
EXTENDS Maintenance, RetryChains, TLC

CONSTANTS l1, o1, d1, b1, s1

\* In the order of their names: audit_logs and operations, order_items,
\* order_sync_batches and order_sync_states.
MCTables == <<{l1, o1}, {d1}, {b1, s1}>>

\* The calls are interchangeable.
MCCalls == Permutations(Call)

\* The walk as the script makes it, candidate by candidate.
RECURSIVE Walk(_, _, _, _)
Walk(o, retryOf, candidates, reached) ==
    IF o \in candidates \ reached
    THEN Walk(retryOf[o], retryOf, candidates, reached \cup {o})
    ELSE reached

ASSUME ProtectedIsWalked ==
    \A retryOf \in [1..4 -> 0..4], candidates \in SUBSET (1..4) :
        Protected(1..4, retryOf, candidates) =
            UNION {Walk(retryOf[o], retryOf, candidates, {}) : o \in (1..4) \ candidates}
=============================================================================
