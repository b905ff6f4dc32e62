-------------------------- MODULE MCOperationQueue --------------------------
(* Small instances of OperationQueue for TLC.                              *)
EXTENDS OperationQueue, TLC

\* One store, one type: every pair of operations contends for the same lock.
MCOneKey == [o \in Op |-> "s1"]

\* One tick after every failed attempt.
MCBackoff == [n \in 1..MaxAttempts |-> 1]

\* Lease owner ids and processes are interchangeable.
MCPerms == Permutations(Token) \cup Permutations(Worker)
=============================================================================
