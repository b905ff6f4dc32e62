--------------------------- MODULE OperationQueue ---------------------------
(***************************************************************************)
(* The durable operation queue of the backend: operations that backend     *)
(* processes lease, run under a per-store execution lock, keep alive with  *)
(* heartbeats and finish, requeue or fail through fenced commits.          *)
(*                                                                         *)
(*   operation.service.ts         pollOnce, runOperation                   *)
(*   operation-worker.service.ts  drain (one poll after another)           *)
(*   database.service.ts          the lease, heartbeat and fence queries   *)
(*                                                                         *)
(* Time is relative: lease and delay are the ticks left until              *)
(* leaseExpiresAt and runAfter, so 0 reads "not later than now".           *)
(* A lease owner is a createId() of the poll, so it is modelled as a       *)
(* token that nothing else in the system carries at that moment.           *)
(* The commit of a database call is one step; a call whose reply or whose  *)
(* connection is lost is a step of its own, drawn from the budget          *)
(* MaxFaults.                                                              *)
(***************************************************************************)
EXTENDS Naturals, FiniteSets

CONSTANTS
    Op,             \* operation ids, numbered in the order of (createdAt, id)
    Key,            \* pairs of a store and an operation type
    KeyOf,          \* the key of each operation
    SyncOp,         \* the operations of type ORDER_SYNC
    Worker,         \* backend processes, each with one sequential worker
    Token,          \* lease owner ids
    NoToken,        \* leaseOwner = null
    Free,           \* an execution lock nobody holds
    Ghost,          \* a lock held by a session that no run uses any more
    MaxAttempts,    \* maxAttempts of an operation
    LeaseTicks,     \* OPERATION_LEASE_DURATION_MS
    BusyTicks,      \* OPERATION_LOCK_BUSY_DELAY_MS
    Backoff,        \* OPERATION_BACKOFF_MS, by the attempt that failed
    RetryAfter,     \* retryAfterMs of an error (0: the error carries none)
    MaxFaults       \* bound on crashes and lost database calls

ASSUME OpAssumption == Op \subseteq Nat \ {0}
ASSUME KeyAssumption ==
    /\ KeyOf \in [Op -> Key]
    /\ SyncOp \subseteq Op
    /\ \A o, p \in Op : KeyOf[o] = KeyOf[p] => (o \in SyncOp <=> p \in SyncOp)
ASSUME WorkerAssumption == IsFiniteSet(Worker)
ASSUME NullAssumption == NoToken \notin Token /\ {Free, Ghost} \cap Worker = {}
                         /\ Free # Ghost
ASSUME NumberAssumption ==
    /\ MaxAttempts \in Nat \ {0}
    /\ LeaseTicks \in Nat \ {0}
    /\ BusyTicks \in Nat
    /\ Backoff \in [1..MaxAttempts -> Nat]
    /\ RetryAfter \subseteq Nat
    /\ MaxFaults \in Nat

VARIABLES
    ops,            \* the rows of the operations table
    worker,         \* what each process is doing
    lock,           \* the execution lock of each key
    beats,          \* interval heartbeats on their way to the database
    runs,           \* history: how often the executor of an operation began
    lastWriter,     \* history: the ORDER_SYNC operation that saved last, per key
    staleWrite,     \* history: a run wrote after its lease had been taken away
    faults          \* how many faults have happened

vars == <<ops, worker, lock, beats, runs, lastWriter, staleWrite, faults>>

-----------------------------------------------------------------------------
(* Shapes of the state.                                                    *)

Terminal == {"SUCCEEDED", "FAILED"}
Status == {"NONE", "QUEUED", "RUNNING"} \cup Terminal

Row == [status : Status, attempt : 0..MaxAttempts,
        owner : Token \cup {NoToken}, lease : Nat, delay : Nat]

NoRow == [status |-> "NONE", attempt |-> 0,
          owner |-> NoToken, lease |-> 0, delay |-> 0]

Executing == {"running", "failing", "failed"}
PC == {"idle", "cleaned", "selected", "leased", "releasing", "down"} \cup Executing

Process == [pc : PC, op : Op \cup {0}, token : Token \cup {NoToken},
            attempt : 0..MaxAttempts, ttl : Nat, retry : BOOLEAN,
            aborted : BOOLEAN, superseded : BOOLEAN, unlocked : BOOLEAN]

Idle == [pc |-> "idle", op |-> 0, token |-> NoToken, attempt |-> 0,
         ttl |-> 0, retry |-> FALSE, aborted |-> FALSE, superseded |-> FALSE,
         unlocked |-> FALSE]

Beat == [op : Op, token : Token, ttl : Nat]

(* Guards.                                                                 *)

Expired(o) == ops[o].status = "RUNNING" /\ ops[o].lease = 0
Live(o)    == ops[o].status = "RUNNING" /\ ops[o].lease > 0

\* Variant: the SQL without its attemptCount < maxAttempts.
RunnableAtAnyAttempt(o) ==
    (ops[o].status = "QUEUED" /\ ops[o].delay = 0) \/ Expired(o)

Runnable(o) ==
    /\ ops[o].attempt < MaxAttempts
    /\ \/ ops[o].status = "QUEUED" /\ ops[o].delay = 0
       \/ Expired(o)

\* Variants of the next definition without one of its two reasons.
BlocksWhenQueued(p, o) ==
    p # o /\ KeyOf[p] = KeyOf[o] /\ o \in SyncOp /\ ops[p].status = "QUEUED" /\ p < o
BlocksWhenLive(p, o) == p # o /\ KeyOf[p] = KeyOf[o] /\ Live(p)

\* Another operation of the same store and type holds o back: one with a
\* live lease, and for ORDER_SYNC also an older one still queued.
Blocks(p, o) ==
    /\ p # o
    /\ KeyOf[p] = KeyOf[o]
    /\ \/ Live(p)
       \/ o \in SyncOp /\ ops[p].status = "QUEUED" /\ p < o

RowLocked(o) == \E w \in Worker : worker[w].pc = "selected" /\ worker[w].op = o

Candidates ==
    {o \in Op : Runnable(o) /\ ~RowLocked(o) /\ \A p \in Op : ~Blocks(p, o)}

\* Expired leases are taken over before queued operations are looked at.
\* Which of several first candidates is taken (runAfter, then createdAt, then
\* id) is left open.
FirstCandidates ==
    IF \E o \in Candidates : Expired(o)
    THEN {o \in Candidates : Expired(o)}
    ELSE Candidates

TokensInUse ==
    {ops[o].owner : o \in Op} \cup {worker[w].token : w \in Worker}
        \cup {b.token : b \in beats}

\* updateOperationRecord finds the row leased to this token and in time.
HoldsLease(o, t) ==
    /\ ops[o].status = "RUNNING"
    /\ ops[o].owner = t
    /\ ops[o].lease > 0
    /\ ~RowLocked(o)

\* Variants: a commit that only looks at the status, and an unfenced one.
FenceByStatus(w) == ops[worker[w].op].status = "RUNNING"
NoFence(w) == TRUE

\* checkFence of commitOrderSync also compares the attempt; the other
\* operation types write through updateOperationRecord alone.
FenceHolds(w) ==
    /\ HoldsLease(worker[w].op, worker[w].token)
    /\ worker[w].op \in SyncOp => ops[worker[w].op].attempt = worker[w].attempt

\* Process v once the leases of the operations in S are taken away.
Overtaken(v, S) ==
    IF worker[v].op \in S THEN [worker[v] EXCEPT !.superseded = TRUE] ELSE worker[v]

Leased(o, t, left) ==
    [status |-> "RUNNING", attempt |-> ops[o].attempt + 1,
     owner |-> t, lease |-> left, delay |-> 0]

Ended(o, status) ==
    [ops[o] EXCEPT !.status = status, !.owner = NoToken, !.lease = 0, !.delay = 0]

Requeued(o, attempt, delay) ==
    [status |-> "QUEUED", attempt |-> attempt,
     owner |-> NoToken, lease |-> 0, delay |-> delay]

\* Variants: the attempt of an expired lease is given back; the last attempt
\* is requeued like any other.
RecoveredForFree(o) == Requeued(o, ops[o].attempt - 1, 0)
RecoveredAlways(o) == Requeued(o, ops[o].attempt, 0)

\* recoverExpiredOperationLease.
Recovered(o) ==
    IF ops[o].attempt >= MaxAttempts
    THEN Ended(o, "FAILED")
    ELSE Requeued(o, ops[o].attempt, 0)

\* Variant: a lock whose operation lost its lease counts as free.
AvailableWithoutLease(k) ==
    lock[k] = Free \/ (lock[k] \in Worker /\ ~Live(worker[lock[k]].op))

LockAvailable(k) == lock[k] = Free

\* Variant: the lock is given back after a success only.
ReleasedOnSuccess(w) ==
    [k \in Key |-> IF lock[k] = w /\ ops[worker[w].op].status = "SUCCEEDED"
                   THEN Free ELSE lock[k]]

Released(w) == [k \in Key |-> IF lock[k] = w THEN Free ELSE lock[k]]

Abandoned(w) == [k \in Key |-> IF lock[k] = w THEN Ghost ELSE lock[k]]

Larger(m, n) == IF m < n THEN n ELSE m

Fault == faults < MaxFaults /\ faults' = faults + 1

-----------------------------------------------------------------------------
Init ==
    /\ ops = [o \in Op |-> NoRow]
    /\ worker = [w \in Worker |-> Idle]
    /\ lock = [k \in Key |-> Free]
    /\ beats = {}
    /\ runs = [o \in Op |-> 0]
    /\ lastWriter = [k \in Key |-> 0]
    /\ staleWrite = FALSE
    /\ faults = 0

\* An operation is inserted as QUEUED, runnable at once. createdAt is read
\* inside the inserting transaction, so rows appear in its order.
Enqueue(o) ==
    /\ ops[o].status = "NONE"
    /\ \A p \in Op : p < o => ops[p].status # "NONE"
    /\ ops' = [ops EXCEPT ![o] = [NoRow EXCEPT !.status = "QUEUED"]]
    /\ UNCHANGED <<worker, lock, beats, runs, lastWriter, staleWrite, faults>>

\* cleanupStaleOperations at the head of a poll: an expired lease goes back
\* to the queue, or to FAILED when it was the last attempt.
Cleanup(w) ==
    LET gone == {o \in Op : Expired(o)} IN
    /\ worker[w].pc = "idle"
    /\ \A o \in gone : ~RowLocked(o)
    /\ ops' = [o \in Op |->
                 IF o \in gone THEN Recovered(o) ELSE ops[o]]
    /\ worker' = [v \in Worker |->
                    IF v = w THEN [Idle EXCEPT !.pc = "cleaned"]
                             ELSE Overtaken(v, gone)]
    /\ UNCHANGED <<lock, beats, runs, lastWriter, staleWrite, faults>>

\* acquireNextOperation picks a row and locks it (FOR UPDATE SKIP LOCKED).
Select(w, o, t) ==
    /\ worker[w].pc = "cleaned"
    /\ o \in FirstCandidates
    /\ t \notin TokensInUse
    /\ worker' = [worker EXCEPT ![w] =
                    [Idle EXCEPT !.pc = "selected", !.op = o, !.token = t,
                                 !.attempt = ops[o].attempt + 1,
                                 !.ttl = LeaseTicks]]
    /\ UNCHANGED <<ops, lock, beats, runs, lastWriter, staleWrite, faults>>

\* Nothing is runnable: drainInternal leaves the loop until the next tick.
NothingRunnable(w) ==
    /\ worker[w].pc = "cleaned"
    /\ Candidates = {}
    /\ worker' = [worker EXCEPT ![w] = Idle]
    /\ UNCHANGED <<ops, lock, beats, runs, lastWriter, staleWrite, faults>>

\* The acquiring transaction commits: attempt + 1, new owner, new lease.
CommitLease(w) ==
    LET me == worker[w] IN
    /\ me.pc = "selected"
    /\ ops' = [ops EXCEPT ![me.op] = Leased(me.op, me.token, me.ttl)]
    /\ worker' = [v \in Worker |->
                    IF v = w THEN [me EXCEPT !.pc = "leased", !.ttl = 0]
                             ELSE Overtaken(v, {me.op})]
    /\ UNCHANGED <<lock, beats, runs, lastWriter, staleWrite, faults>>

\* The commit happened but the poll was told of an error: the operation
\* stays leased to a token nobody uses until the lease runs out.
LoseLeaseReply(w) ==
    LET me == worker[w] IN
    /\ me.pc = "selected"
    /\ Fault
    /\ ops' = [ops EXCEPT ![me.op] = Leased(me.op, me.token, me.ttl)]
    /\ worker' = [v \in Worker |->
                    IF v = w THEN Idle ELSE Overtaken(v, {me.op})]
    /\ UNCHANGED <<lock, beats, runs, lastWriter, staleWrite>>

\* The acquiring transaction rolls back; the worker tick ends with the error.
AbortSelect(w) ==
    /\ worker[w].pc = "selected"
    /\ Fault
    /\ worker' = [worker EXCEPT ![w] = Idle]
    /\ UNCHANGED <<ops, lock, beats, runs, lastWriter, staleWrite>>

-----------------------------------------------------------------------------
(* The execution lock.                                                     *)

LockExecution(w) ==
    LET me == worker[w] IN
    /\ me.pc = "leased"
    /\ LockAvailable(KeyOf[me.op])
    /\ lock' = [lock EXCEPT ![KeyOf[me.op]] = w]
    /\ worker' = [worker EXCEPT ![w].pc = "running"]
    /\ runs' = [runs EXCEPT ![me.op] = @ + 1]
    /\ UNCHANGED <<ops, beats, lastWriter, staleWrite, faults>>

\* STORE_OPERATION_LOCK_BUSY: the lease is given back with its attempt, or
\* left alone when it is no longer this poll's.
DeferBusy(w) ==
    LET me == worker[w] IN
    /\ me.pc = "leased"
    /\ ~LockAvailable(KeyOf[me.op])
    /\ ~RowLocked(me.op)
    /\ ops' = IF HoldsLease(me.op, me.token)
              THEN [ops EXCEPT ![me.op] =
                      Requeued(me.op, ops[me.op].attempt - 1, BusyTicks)]
              ELSE ops
    /\ worker' = [worker EXCEPT ![w] = Idle]
    /\ UNCHANGED <<lock, beats, runs, lastWriter, staleWrite, faults>>

\* The lock query, or the deferral, fails: the tick ends, the lease stays.
FailLock(w) ==
    /\ worker[w].pc = "leased"
    /\ Fault
    /\ worker' = [worker EXCEPT ![w] = Idle]
    /\ UNCHANGED <<ops, lock, beats, runs, lastWriter, staleWrite>>

\* lock.release() in the finally of pollOnce.
ReleaseLock(w) ==
    /\ worker[w].pc = "releasing"
    /\ lock' = Released(w)
    /\ worker' = [worker EXCEPT ![w] = Idle]
    /\ UNCHANGED <<ops, beats, runs, lastWriter, staleWrite, faults>>

\* Its pg_advisory_unlock fails: the poll is over all the same and the
\* broken session keeps the lock until the database drops it.
LoseRelease(w) ==
    /\ worker[w].pc = "releasing"
    /\ Fault
    /\ lock' = Abandoned(w)
    /\ worker' = [worker EXCEPT ![w] = Idle]
    /\ UNCHANGED <<ops, beats, runs, lastWriter, staleWrite>>

-----------------------------------------------------------------------------
(* A run: heartbeats, progress, saves and its outcome.                     *)

\* The 30 s timer sends a heartbeat unless one of this run is pending.
SendBeat(w) ==
    LET me == worker[w] IN
    /\ me.pc \in Executing
    /\ \A b \in beats : b.token # me.token
    /\ beats' = beats \cup {[op |-> me.op, token |-> me.token, ttl |-> LeaseTicks]}
    /\ UNCHANGED <<ops, worker, lock, runs, lastWriter, staleWrite, faults>>

\* Runs of token t see their signal aborted.
Aborting(t) ==
    [w \in Worker |->
        IF worker[w].token = t /\ worker[w].pc \in Executing
        THEN [worker[w] EXCEPT !.aborted = TRUE]
        ELSE worker[w]]

\* The heartbeat reaches the row. The expiry it writes was computed when it
\* was sent. A row that is not this token's aborts the run.
DeliverBeat(b) ==
    /\ ~RowLocked(b.op)
    /\ beats' = beats \ {b}
    /\ IF HoldsLease(b.op, b.token)
       THEN /\ ops' = [ops EXCEPT ![b.op].lease = b.ttl]
            /\ UNCHANGED worker
       ELSE /\ worker' = Aborting(b.token)
            /\ UNCHANGED ops
    /\ UNCHANGED <<lock, runs, lastWriter, staleWrite, faults>>

\* OPERATION_HEARTBEAT_FAILED.
LoseBeat(b) ==
    /\ Fault
    /\ beats' = beats \ {b}
    /\ worker' = Aborting(b.token)
    /\ UNCHANGED <<ops, lock, runs, lastWriter, staleWrite>>

\* OPERATION_PROGRESS_TIMEOUT: 120 s without a progress call.
Watchdog(w) ==
    /\ worker[w].pc = "running"
    /\ ~worker[w].aborted
    /\ worker' = [worker EXCEPT ![w].aborted = TRUE]
    /\ UNCHANGED <<ops, lock, beats, runs, lastWriter, staleWrite, faults>>

\* The executor's progress call: throwIfAborted, then a heartbeat.
Progress(w) ==
    LET me == worker[w] IN
    /\ me.pc = "running"
    /\ ~me.aborted
    /\ HoldsLease(me.op, me.token)
    /\ ops[me.op].attempt = me.attempt
    /\ ops' = [ops EXCEPT ![me.op].lease = LeaseTicks]
    /\ UNCHANGED <<worker, lock, beats, runs, lastWriter, staleWrite, faults>>

\* An ORDER_SYNC run commits a chunk of orders under its fence.
SaveChunk(w) ==
    LET me == worker[w] IN
    /\ me.pc = "running"
    /\ me.op \in SyncOp
    /\ FenceHolds(w)
    /\ lastWriter' = [lastWriter EXCEPT ![KeyOf[me.op]] = me.op]
    /\ staleWrite' = (staleWrite \/ me.superseded)
    /\ UNCHANGED <<ops, worker, lock, beats, runs, faults>>

\* The outcome of a run that returned: SUCCEEDED, or FAILED for an
\* ORDER_SYNC whose result reports a coverage gap.
Outcome(o) == IF o \in SyncOp THEN {"SUCCEEDED", "FAILED"} ELSE {"SUCCEEDED"}

CommitOutcome(w, status, next) ==
    LET me == worker[w] IN
    /\ me.pc = "running"
    /\ ~me.aborted
    /\ FenceHolds(w)
    /\ status \in Outcome(me.op)
    /\ ops' = [ops EXCEPT ![me.op] = Ended(me.op, status)]
    /\ worker' = [worker EXCEPT ![w].pc = next, ![w].retry = TRUE]
    /\ staleWrite' = (staleWrite \/ me.superseded)
    /\ UNCHANGED <<lock, beats, runs, lastWriter>>

Finish(w, status) ==
    CommitOutcome(w, status, "releasing") /\ UNCHANGED faults

\* The outcome is committed but the run is told of an error and fails.
LoseFinishReply(w, status) ==
    CommitOutcome(w, status, "failing") /\ Fault

\* The executor, a progress call or the outcome's commit throws.
Throw(w, retryable) ==
    /\ worker[w].pc = "running"
    /\ worker' = [worker EXCEPT ![w].pc = "failing", ![w].retry = retryable]
    /\ UNCHANGED <<ops, lock, beats, runs, lastWriter, staleWrite, faults>>

\* The catch first writes the error into progressJson with a heartbeat.
RecordError(w) ==
    LET me == worker[w] IN
    /\ me.pc = "failing"
    /\ ~RowLocked(me.op)
    /\ ops' = IF HoldsLease(me.op, me.token)
              THEN [ops EXCEPT ![me.op].lease = LeaseTicks]
              ELSE ops
    /\ worker' = [worker EXCEPT ![w].pc = "failed"]
    /\ UNCHANGED <<lock, beats, runs, lastWriter, staleWrite, faults>>

\* Then it requeues with a delay, or fails the operation, under the fence.
PersistFailure(w, retryAfter) ==
    LET me == worker[w]
        again == me.retry /\ me.attempt < MaxAttempts
        delay == Larger(Backoff[me.attempt], retryAfter)
    IN
    /\ me.pc = "failed"
    /\ ~RowLocked(me.op)
    /\ ops' = IF ~FenceHolds(w) THEN ops
              ELSE [ops EXCEPT ![me.op] =
                      IF again THEN Requeued(me.op, ops[me.op].attempt, delay)
                               ELSE Ended(me.op, "FAILED")]
    /\ staleWrite' = (staleWrite \/ (FenceHolds(w) /\ me.superseded))
    /\ worker' = [worker EXCEPT ![w].pc = "releasing"]
    /\ UNCHANGED <<lock, beats, runs, lastWriter, faults>>

\* OPERATION_FAILURE_PERSIST_FAILED is logged; the row stays RUNNING.
LoseFailure(w) ==
    /\ worker[w].pc \in {"failing", "failed"}
    /\ Fault
    /\ worker' = [worker EXCEPT ![w].pc = "releasing"]
    /\ UNCHANGED <<ops, lock, beats, runs, lastWriter, staleWrite>>

-----------------------------------------------------------------------------
(* Processes, sessions and time.                                           *)

\* A process dies anywhere; the sessions of its locks are still open.
Crash(w) ==
    /\ worker[w].pc # "down"
    /\ Fault
    /\ worker' = [worker EXCEPT ![w] = [Idle EXCEPT !.pc = "down"]]
    /\ lock' = Abandoned(w)
    /\ UNCHANGED <<ops, beats, runs, lastWriter, staleWrite>>

Restart(w) ==
    /\ worker[w].pc = "down"
    /\ worker' = [worker EXCEPT ![w] = Idle]
    /\ UNCHANGED <<ops, lock, beats, runs, lastWriter, staleWrite, faults>>

\* The database notices a dead session and drops its advisory locks.
ReapSession(k) ==
    /\ lock[k] = Ghost
    /\ lock' = [lock EXCEPT ![k] = Free]
    /\ UNCHANGED <<ops, worker, beats, runs, lastWriter, staleWrite, faults>>

\* The session that holds a lock is cut while its run goes on.
DropSession(k) ==
    /\ lock[k] \in Worker
    /\ Fault
    /\ worker' = [worker EXCEPT ![lock[k]].unlocked = TRUE]
    /\ lock' = [lock EXCEPT ![k] = Free]
    /\ UNCHANGED <<ops, beats, runs, lastWriter, staleWrite>>

Less(n) == IF n = 0 THEN 0 ELSE n - 1

Tick ==
    /\ ops' = [o \in Op |-> [ops[o] EXCEPT !.lease = Less(@), !.delay = Less(@)]]
    /\ worker' = [w \in Worker |-> [worker[w] EXCEPT !.ttl = Less(@)]]
    /\ beats' = {[b EXCEPT !.ttl = Less(@)] : b \in beats}
    /\ UNCHANGED <<lock, runs, lastWriter, staleWrite, faults>>

-----------------------------------------------------------------------------
\* What a process does of its own accord between the start and the end of
\* a poll.
PollStep(w) ==
    \/ Cleanup(w)
    \/ \E o \in Op, t \in Token : Select(w, o, t)
    \/ NothingRunnable(w)
    \/ CommitLease(w)
    \/ LockExecution(w)
    \/ DeferBusy(w)
    \/ RecordError(w)
    \/ \E d \in RetryAfter : PersistFailure(w, d)
    \/ ReleaseLock(w)

RunEnds(w) ==
    \/ \E s \in Terminal : Finish(w, s)
    \/ \E r \in BOOLEAN : Throw(w, r)

RunStep(w) == SendBeat(w) \/ Watchdog(w) \/ Progress(w) \/ SaveChunk(w)

FaultStep(w) ==
    \/ LoseLeaseReply(w)
    \/ AbortSelect(w)
    \/ FailLock(w)
    \/ LoseRelease(w)
    \/ \E s \in Terminal : LoseFinishReply(w, s)
    \/ LoseFailure(w)
    \/ Crash(w)

Next ==
    \/ \E o \in Op : Enqueue(o)
    \/ \E w \in Worker : \/ PollStep(w) \/ RunEnds(w) \/ RunStep(w)
                         \/ FaultStep(w) \/ Restart(w)
    \/ \E b \in beats : DeliverBeat(b) \/ LoseBeat(b)
    \/ \E k \in Key : ReapSession(k) \/ DropSession(k)
    \/ Tick

Spec == Init /\ [][Next]_vars

\* Every process keeps polling (setInterval 3 s), every run ends (requests
\* and statements have timeouts), a dead process is started again, its
\* sessions are reaped, pending heartbeats settle and time passes.
Fairness ==
    /\ \A w \in Worker : /\ WF_vars(PollStep(w))
                         /\ WF_vars(RunEnds(w))
                         /\ WF_vars(Restart(w))
    /\ \A k \in Key : WF_vars(ReapSession(k))
    /\ WF_vars(\E b \in beats : DeliverBeat(b))
    /\ WF_vars(Tick)

FairSpec == Spec /\ Fairness

-----------------------------------------------------------------------------
(* Properties.                                                             *)

\* Every row, process, lock and heartbeat has the shape the code gives it.
TypeOK ==
    /\ ops \in [Op -> Row]
    /\ worker \in [Worker -> Process]
    /\ lock \in [Key -> Worker \cup {Free, Ghost}]
    /\ beats \subseteq Beat
    /\ runs \in [Op -> Nat]
    /\ lastWriter \in [Key -> Op \cup {0}]
    /\ staleWrite \in BOOLEAN
    /\ faults \in 0..MaxFaults

\* However leases expire, are handed over, deferred because the lock was
\* busy (which gives the attempt back) or left by a crash, the executor of
\* an operation is never begun more often than maxAttempts.
AttemptBudget == \A o \in Op : runs[o] <= MaxAttempts

\* No operation waits in the queue with its attempts used up. Such a row is
\* never runnable, and findNextOperationCandidate would hold every later
\* ORDER_SYNC of the store behind it for good.
NoPoisonedHead ==
    \A o \in Op : ops[o].status = "QUEUED" => ops[o].attempt < MaxAttempts

\* Two processes never run executors of the same store and type at once,
\* except when the session of one's lock was cut under its run.
ExclusiveExecution ==
    \A v, w \in Worker :
        /\ worker[v].pc \in Executing
        /\ worker[w].pc \in Executing
        /\ KeyOf[worker[v].op] = KeyOf[worker[w].op]
        /\ ~worker[v].unlocked
        /\ ~worker[w].unlocked
        => v = w

\* A run whose lease was taken away, by the cleanup of a later poll or by a
\* new acquisition, never writes again: no chunk, no outcome, no failure.
NoStaleWrite == ~staleWrite

\* A finished operation never changes again, whatever late heartbeat,
\* deferral, cleanup or second verdict still reaches its row.
TerminalIsFinal ==
    [][\A o \in Op : ops[o].status \in Terminal => ops'[o] = ops[o]]_vars

\* The orders of a store are never saved by an older synchronisation after
\* a newer one has saved: the data of a newer cutoff is not overwritten.
SavesInOrder ==
    [][\A k \in Key : lastWriter'[k] >= lastWriter[k]]_vars

\* Every admitted operation ends, SUCCEEDED or FAILED, through any finite
\* number of crashes and lost calls.
EveryOperationEnds ==
    \A o \in Op : ops[o].status = "QUEUED" ~> ops[o].status \in Terminal

\* An execution lock is always given back, also one left by a dead process.
LocksAreFreed ==
    \A k \in Key : lock[k] # Free ~> lock[k] = Free
-----------------------------------------------------------------------------
(* The life of an operation that the queue implements.                     *)

\* An expired lease is what the next cleanup makes of it.
Settled(o) == IF Expired(o) THEN Recovered(o).status ELSE ops[o].status

LifeStatus == [o \in Op |-> Settled(o)]
LifeAttempt == [o \in Op |-> ops[o].attempt]

SameKey(o) == {p \in Op : p # o /\ KeyOf[p] = KeyOf[o]}
AskedBefore == [o \in Op |-> {p \in SameKey(o) : o \in SyncOp /\ p < o}]

Life == INSTANCE OperationLife WITH
    status <- LifeStatus, attempt <- LifeAttempt,
    Before <- AskedBefore, Rival <- [o \in Op |-> SameKey(o)]

\* Whatever leases, takeovers, heartbeats, deferrals, cleanups and crashes do
\* to its row, an operation lives as its users may rely on: it is started
\* within its attempts, waits only while one is left and ends once.
OperationsLive == Life!Spec

\* With one process the operations of a store and type also start one at a
\* time, and synchronisations in the order they were asked for, although an
\* operation is chosen in one step and leased in another.
StartedInTurn == Life!InTurn
=============================================================================
