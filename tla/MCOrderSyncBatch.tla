-------------------------- MODULE MCOrderSyncBatch --------------------------
(* Small instances of OrderSyncBatch for TLC.                              *)
EXTENDS OrderSyncBatch, TLC

\* Idempotency keys are interchangeable.
MCKeys == Permutations(Key)
=============================================================================
