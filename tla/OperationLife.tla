---------------------------- MODULE OperationLife ----------------------------
(***************************************************************************)
(* The life of an operation as its users may rely on it, whoever leases    *)
(* and executes it: it is admitted once, is started at most MaxAttempts    *)
(* times unless a start is given back, waits again after an attempt that   *)
(* did not end it while one is left, and stays as it ended.                *)
(*                                                                         *)
(* An operation whose lease has run out counts as what the next cleanup    *)
(* makes of it. Several may change in one step: leases run out together.   *)
(***************************************************************************)
EXTENDS Naturals

CONSTANTS
    Op,             \* operations
    MaxAttempts,
    Before,          \* those that go before each operation
    Rival           \* those that never run beside it

VARIABLES status, attempt

Terminal == {"SUCCEEDED", "FAILED"}
Status == {"NONE", "QUEUED", "RUNNING"} \cup Terminal

\* Operations of earlier times have ended.
Init ==
    \A o \in Op : status[o] \in {"NONE"} \cup Terminal /\ attempt[o] = 0

To(o, s, n) == status'[o] = s /\ attempt'[o] = n

Admit(o) == status[o] = "NONE" /\ To(o, "QUEUED", 0)

\* After an attempt that did not end it.
After(n) == IF n < MaxAttempts THEN "QUEUED" ELSE "FAILED"

\* A start whose lease has run out before it could be stored is over at once.
Start(o) ==
    /\ status[o] = "QUEUED"
    /\ attempt[o] < MaxAttempts
    /\ To(o, "RUNNING", attempt[o] + 1) \/ To(o, After(attempt[o] + 1), attempt[o] + 1)

GiveBack(o) == status[o] = "RUNNING" /\ To(o, "QUEUED", attempt[o] - 1)

Stop(o) ==
    /\ status[o] = "RUNNING"
    /\ \E s \in {After(attempt[o])} \cup Terminal : To(o, s, attempt[o])

Rest(o) == To(o, status[o], attempt[o])

Step == \A o \in Op : Admit(o) \/ Start(o) \/ GiveBack(o) \/ Stop(o) \/ Rest(o)

Spec == Init /\ [][Step]_<<status, attempt>>

\* The operations of a store start one at a time, the oldest first.
Turn(o) ==
    /\ \A p \in Before[o] : status[p] # "QUEUED"
    /\ \A p \in Rival[o] : status[p] # "RUNNING"

InTurn == [][\A o \in Op : attempt'[o] > attempt[o] => Turn(o)]_<<status, attempt>>

OrderedSpec == Spec /\ InTurn
=============================================================================
