--------------------------- MODULE OrderSyncBatch ---------------------------
(***************************************************************************)
(* Order synchronisation batches: their admission under an idempotency     *)
(* key, the operation of each store with its outcome, retries of what      *)
(* failed, and the account each store keeps of the changes it has read:    *)
(* the success watermark, the baseline an acknowledged coverage gap sets   *)
(* and the historical gap.                                                 *)
(*                                                                         *)
(*   order-sync-batch.service.ts  enqueue, acknowledgeCoverageGap, get     *)
(*   operation.service.ts         the commits that end a run               *)
(*   order-sync.service.ts        performSync: what a run reads            *)
(*                                                                         *)
(* An operation is named by its batch and its store. Batches are numbered  *)
(* in the order of their createdAt; 0 stands for the operations that were  *)
(* there before batches were introduced. How operations are leased is the  *)
(* subject of OperationQueue: here a run of the oldest operation of a      *)
(* store begins, and ends in one of the ways a run can end.                *)
(*                                                                         *)
(* Times are numbers, and 0 is a time that is not set. The changes of time *)
(* t are those with from < t <= to of an interval that is read.            *)
(***************************************************************************)
EXTENDS Naturals, FiniteSets

CONSTANTS
    Store,          \* the stores
    Old,            \* stores with a failed operation that is in no batch
    OldMode,        \* the mode of those operations
    Key,            \* idempotency keys
    NoKey,          \* the key of a batch that is not there
    MaxBatches,     \* bound on batches
    MaxAttempts,    \* maxAttempts of an operation
    Window,         \* the 30 days a run can look back
    MaxTime         \* bound on time

ASSUME StoreAssumption == IsFiniteSet(Store) /\ Old \subseteq Store
ASSUME KeyAssumption == NoKey \notin Key
ASSUME BoundAssumption ==
    /\ MaxBatches \in Nat
    /\ MaxAttempts \in Nat \ {0}
    /\ Window \in Nat
    /\ MaxTime \in Nat
    /\ Window < MaxTime

VARIABLES
    now,            \* the clock
    active,         \* the active stores
    batches,        \* the admitted batches
    jobs,           \* the item and the operation of each store in each batch
    coverage,       \* the order sync state of each store
    shown,          \* lastOrderSyncStatus of each store
    read,           \* history: the change times that finished runs have read
    origin          \* history: where the reading of a store's changes began

vars == <<now, active, batches, jobs, coverage, shown, read, origin>>

-----------------------------------------------------------------------------
(* Shapes.                                                                 *)

\* MANUAL and RECENT_30_DAYS differ from YESTERDAY in their date range only.
Mode == {"CURRENT", "YESTERDAY"}
ASSUME ModeAssumption == OldMode \in Mode

Batch == 1..MaxBatches
Time == 0..MaxTime

Terminal == {"SUCCEEDED", "FAILED"}
InFlight == {"QUEUED", "RUNNING"}
ItemStatus == {"NONE", "SKIPPED"} \cup InFlight \cup Terminal

BatchRow == [key : Key \cup {NoKey}, mode : Mode, cutoff : Time,
             source : 0..MaxBatches, finished : BOOLEAN]

NoBatch == [key |-> NoKey, mode |-> "YESTERDAY", cutoff |-> 0,
            source |-> 0, finished |-> FALSE]

\* seen and open are what the run of an operation found when it began: the
\* point its store's changes had been read up to, and the store active. The
\* result of a run with a gap keeps seen as the beginning of the gap.
Job == [status : ItemStatus, attempt : 0..MaxAttempts, seen : Time,
        open : BOOLEAN, gap : BOOLEAN]

NewJob(status) == [status |-> status, attempt |-> 0, seen |-> 0,
                   open |-> FALSE, gap |-> FALSE]

\* upTo is lastSuccessfulChangedTo; from and to are historicalCoverageGap.
Coverage == [upTo : Time, baseline : Time, acknowledged : SUBSET Batch,
             from : Time, to : Time]

NoCoverage == [upTo |-> 0, baseline |-> 0, acknowledged |-> {},
               from |-> 0, to |-> 0]

Larger(m, n) == IF m < n THEN n ELSE m
Smaller(m, n) == IF m < n THEN m ELSE n

\* The changes after one time up to another.
Changes(after, upTo) == (after + 1)..upTo

-----------------------------------------------------------------------------
(* What a run reads.                                                       *)

\* changedWatermark: the later of the two points changes are known up to.
Watermark(s) == Larger(coverage[s].upTo, coverage[s].baseline)

Current(b) == batches[b].mode = "CURRENT"

RecoveryFrom(b) == batches[b].cutoff - Window

\* The changes since the watermark go back further than a run can look.
HasGap(b, s) ==
    Current(b) /\ jobs[b][s].seen # 0 /\ jobs[b][s].seen < RecoveryFrom(b)

ChangedFrom(b, s) ==
    IF jobs[b][s].seen = 0 \/ HasGap(b, s) THEN RecoveryFrom(b) ELSE jobs[b][s].seen

\* The stream of a run can be read to its end: its store was active, and
\* the changes do not begin after the cutoff (INVALID_ORDER_RANGE).
Readable(b, s) ==
    /\ jobs[b][s].open
    /\ Current(b) => ChangedFrom(b, s) <= batches[b].cutoff

-----------------------------------------------------------------------------
(* The batch as it is stored and as it is shown.                           *)

\* Variant: an operation that waits for its next attempt is taken for ended.
InFlightWhenRunning(b) == \E s \in Store : jobs[b][s].status = "RUNNING"

BatchInFlight(b) == \E s \in Store : jobs[b][s].status \in InFlight

\* Variant: the batch is over with the first of its operations.
OverWithTheFirst(b, s) == TRUE

\* finishBatchIfTerminal: no operation but that of s is still in flight.
OverWithout(b, s) == \A r \in Store \ {s} : jobs[b][r].status \notin InFlight

Having(b, S) == \E s \in Store : jobs[b][s].status \in S

\* The status that get() derives from the items.
BatchStatus(b) ==
    CASE ~Having(b, InFlight \cup Terminal) -> "NO_TARGETS"
      [] Having(b, {"RUNNING"}) -> "RUNNING"
      [] Having(b, {"QUEUED"}) ->
            IF \/ Having(b, Terminal)
               \/ \E s \in Store : jobs[b][s].attempt > 0
            THEN "RUNNING" ELSE "QUEUED"
      [] Having(b, {"FAILED"}) ->
            IF Having(b, {"SUCCEEDED"}) THEN "PARTIAL_FAILED" ELSE "FAILED"
      [] OTHER -> "SUCCEEDED"

\* get() shows a finishedAt, and the clients stop following the batch.
Done(b) == batches[b].key # NoKey /\ ~BatchInFlight(b)

-----------------------------------------------------------------------------
\* Time begins late enough for a run to look back.
Init ==
    /\ now = Window + 1
    /\ active = Store
    /\ batches = [b \in 0..MaxBatches |->
                    IF b = 0 THEN [NoBatch EXCEPT !.mode = OldMode,
                                                  !.cutoff = Window + 1]
                             ELSE NoBatch]
    /\ jobs = [b \in 0..MaxBatches |-> [s \in Store |->
                    NewJob(IF b = 0 /\ s \in Old THEN "FAILED" ELSE "NONE")]]
    /\ coverage = [s \in Store |-> NoCoverage]
    /\ shown = [s \in Store |-> "NEVER"]
    /\ read = [s \in Store |-> {}]
    /\ origin = [s \in Store |-> 0]

-----------------------------------------------------------------------------
(* Admission.                                                              *)

NextBatch(b) == \A c \in Batch : batches[c].key = NoKey <=> c >= b

\* A key that is known answers with its batch, or with a conflict when the
\* request differs; either way nothing is stored.
FreshKey(key) == \A b \in Batch : batches[b].key # key

\* The batch, an item for each store and an operation for each active store
\* are stored together.
Insert(b, key, mode, cutoff, source, stores) ==
    /\ NextBatch(b)
    /\ FreshKey(key)
    /\ batches' = [batches EXCEPT ![b] =
                     [key |-> key, mode |-> mode, cutoff |-> cutoff,
                      source |-> source, finished |-> stores \cap active = {}]]
    /\ jobs' = [jobs EXCEPT ![b] = [s \in Store |->
                     NewJob(IF s \notin stores THEN "NONE"
                            ELSE IF s \in active THEN "QUEUED" ELSE "SKIPPED")]]
    /\ UNCHANGED <<now, active, coverage, shown, read, origin>>

\* A synchronisation of one store or of all of them.
Request(b, key, mode, stores) == Insert(b, key, mode, now, 0, stores)

\* Variant: every store of the source batch is taken again.
TakenAgain(source, stores) == {s \in stores : jobs[source][s].status # "NONE"}

FailedStores(source, stores) == {s \in stores : jobs[source][s].status = "FAILED"}

\* The failed stores of a batch are retried, with its mode and its cutoff.
Retry(b, key, source, stores) ==
    /\ batches[source].key # NoKey
    /\ FailedStores(source, stores) # {}
    /\ Insert(b, key, batches[source].mode, batches[source].cutoff, source,
              FailedStores(source, stores))

\* A failed operation without a batch is retried with its own cutoff.
RetryOld(b, key, s) ==
    /\ jobs[0][s].status = "FAILED"
    /\ Insert(b, key, batches[0].mode, batches[0].cutoff, 0, {s})

-----------------------------------------------------------------------------
(* Runs.                                                                   *)

AttemptLeft(b, s) == jobs[b][s].attempt < MaxAttempts

Older(b, s) == {c \in Batch : c < b /\ jobs[c][s].status = "QUEUED"}

\* The operation once its run has looked at the state.
Begun(b, s) ==
    [jobs[b][s] EXCEPT !.status = "RUNNING", !.attempt = @ + 1,
                       !.seen = IF Current(b) THEN Watermark(s) ELSE 0,
                       !.open = s \in active]

\* The oldest operation of a store is leased and its run begins.
Begin(b, s) ==
    /\ jobs[b][s].status = "QUEUED"
    /\ AttemptLeft(b, s)
    /\ Older(b, s) = {}
    /\ \A c \in Batch : jobs[c][s].status # "RUNNING"
    /\ jobs' = [jobs EXCEPT ![b][s] = Begun(b, s)]
    /\ UNCHANGED <<now, active, batches, coverage, shown, read, origin>>

\* The operation at its end.
Final(b, s, status, gap) ==
    [jobs[b][s] EXCEPT !.status = status, !.gap = gap, !.open = FALSE,
                       !.seen = IF gap THEN @ ELSE 0]

\* The operation ends, its store shows it and its batch may be over.
End(b, s, status, gap) ==
    /\ jobs' = [jobs EXCEPT ![b][s] = Final(b, s, status, gap)]
    /\ shown' = [shown EXCEPT ![s] = status]
    /\ batches' = IF OverWithout(b, s)
                  THEN [batches EXCEPT ![b].finished = TRUE]
                  ELSE batches

\* Variant: a run that found a gap advances the watermark all the same.
AdvancedAnyhow(b, s) ==
    IF Current(b)
    THEN [coverage[s] EXCEPT !.upTo = Larger(@, batches[b].cutoff)]
    ELSE coverage[s]

\* A run of mode CURRENT without a gap advances the success watermark.
Advanced(b, s) ==
    IF Current(b) /\ ~HasGap(b, s)
    THEN [coverage[s] EXCEPT !.upTo = Larger(@, batches[b].cutoff)]
    ELSE coverage[s]

\* A run has read everything: it succeeds, or fails with the gap it found.
Complete(b, s) ==
    /\ jobs[b][s].status = "RUNNING"
    /\ Readable(b, s)
    /\ IF HasGap(b, s) THEN End(b, s, "FAILED", TRUE) ELSE End(b, s, "SUCCEEDED", FALSE)
    /\ coverage' = [coverage EXCEPT ![s] = Advanced(b, s)]
    /\ read' = IF Current(b)
               THEN [read EXCEPT ![s] =
                       @ \cup Changes(ChangedFrom(b, s), batches[b].cutoff)]
               ELSE read
    /\ origin' = IF Current(b) /\ jobs[b][s].seen = 0
                 THEN [origin EXCEPT ![s] =
                         IF @ = 0 THEN RecoveryFrom(b) ELSE Smaller(@, RecoveryFrom(b))]
                 ELSE origin
    /\ UNCHANGED <<now, active>>

\* A run fails for good: its error is not retryable or no attempt is left.
Fail(b, s) ==
    /\ jobs[b][s].status = "RUNNING"
    /\ End(b, s, "FAILED", FALSE)
    /\ UNCHANGED <<now, active, coverage, read, origin>>

\* The operation after a run that did not end it.
Left(b, s, status) ==
    [jobs[b][s] EXCEPT !.status = status, !.open = FALSE, !.seen = 0]

\* A run fails and is queued again.
Requeue(b, s) ==
    /\ jobs[b][s].status = "RUNNING"
    /\ AttemptLeft(b, s)
    /\ jobs' = [jobs EXCEPT ![b][s] = Left(b, s, "QUEUED")]
    /\ UNCHANGED <<now, active, batches, coverage, shown, read, origin>>

\* Variant: the last attempt is queued again like any other.
AlwaysQueued(b, s) == "QUEUED"

AfterExpiry(b, s) == IF AttemptLeft(b, s) THEN "QUEUED" ELSE "FAILED"

\* The process died or could not store how the run ended, and a cleanup
\* finds the expired lease. It changes the operation and nothing else.
Expire(b, s) ==
    /\ jobs[b][s].status = "RUNNING"
    /\ jobs' = [jobs EXCEPT ![b][s] = Left(b, s, AfterExpiry(b, s))]
    /\ UNCHANGED <<now, active, batches, coverage, shown, read, origin>>

-----------------------------------------------------------------------------
(* Acknowledging a coverage gap.                                           *)

Gapped(b, s) == jobs[b][s].status = "FAILED" /\ jobs[b][s].gap

\* Variant: the latest gap replaces the ones acknowledged before.
Replaced(c, from, to) == [c EXCEPT !.from = from, !.to = to]

\* The historical gap is widened to contain the one acknowledged now.
Widened(c, from, to) ==
    [c EXCEPT !.from = IF @ # 0 THEN Smaller(@, from) ELSE from,
              !.to = Larger(@, to)]

Accepted(b, s) ==
    [Widened(coverage[s], jobs[b][s].seen, RecoveryFrom(b)) EXCEPT
        !.baseline = Larger(Watermark(s), batches[b].cutoff),
        !.acknowledged = @ \cup {b}]

\* The operator accepts that the changes of the gap are lost: later runs
\* begin after it. The failed operation and the watermark stay as they are.
Acknowledge(b) ==
    /\ Done(b)
    /\ \E s \in Store : Gapped(b, s)
    /\ coverage' = [s \in Store |->
                      IF Gapped(b, s) /\ b \notin coverage[s].acknowledged
                      THEN Accepted(b, s) ELSE coverage[s]]
    /\ UNCHANGED <<now, active, batches, jobs, shown, read, origin>>

-----------------------------------------------------------------------------
(* Stores. A store is not changed while an operation of it holds a live     *)
(* lease, but the lease is looked at before the change is stored, and the  *)
(* lease of an operation that is RUNNING can have expired: neither keeps a *)
(* run and the change apart.                                               *)

Activate(s) ==
    /\ s \notin active
    /\ active' = active \cup {s}
    /\ UNCHANGED <<now, batches, jobs, coverage, shown, read, origin>>

Deactivate(s) ==
    /\ s \in active
    /\ active' = active \ {s}
    /\ UNCHANGED <<now, batches, jobs, coverage, shown, read, origin>>

Tick ==
    /\ now < MaxTime
    /\ now' = now + 1
    /\ UNCHANGED <<active, batches, jobs, coverage, shown, read, origin>>

Targets == {Store} \cup {{s} : s \in Store}

Admit ==
    \E b \in Batch, key \in Key :
        \/ \E mode \in Mode, stores \in Targets : Request(b, key, mode, stores)
        \/ \E source \in Batch, stores \in Targets : Retry(b, key, source, stores)
        \/ \E s \in Store : RetryOld(b, key, s)

Settle(b, s) == Complete(b, s) \/ Fail(b, s) \/ Requeue(b, s) \/ Expire(b, s)

Next ==
    \/ Admit
    \/ \E b \in Batch, s \in Store : Begin(b, s) \/ Settle(b, s)
    \/ \E b \in Batch : Acknowledge(b)
    \/ \E s \in Store : Activate(s) \/ Deactivate(s)
    \/ Tick

Spec == Init /\ [][Next]_vars

\* The worker polls, and every run ends or loses its lease.
Fairness ==
    \A b \in Batch, s \in Store : WF_vars(Begin(b, s)) /\ WF_vars(Settle(b, s))

FairSpec == Spec /\ Fairness

-----------------------------------------------------------------------------
(* Properties.                                                             *)

\* Every batch, operation and coverage record has the shape the code gives it.
TypeOK ==
    /\ now \in Time
    /\ active \subseteq Store
    /\ batches \in [0..MaxBatches -> BatchRow]
    /\ jobs \in [0..MaxBatches -> [Store -> Job]]
    /\ coverage \in [Store -> Coverage]
    /\ shown \in [Store -> {"NEVER"} \cup Terminal]
    /\ read \in [Store -> SUBSET Time]
    /\ origin \in [Store -> Time]

\* A retry takes only stores whose operation failed for good in the batch it
\* retries: nothing that succeeded, was skipped or is still to run is run
\* again under the old cutoff.
RetryTakesFailedOnly ==
    \A b \in Batch, s \in Store :
        batches[b].source # 0 /\ jobs[b][s].status # "NONE"
            => jobs[batches[b].source][s].status = "FAILED"

\* The stored finishedAt of a batch is only set once all its operations have
\* ended, although each run looks at the others on its own.
FinishedMeansOver ==
    \A b \in Batch : batches[b].finished => Done(b)

\* Once a batch is shown as over, the status the clients have seen, and
\* stopped asking for, never changes again.
DoneIsFinal ==
    [][\A b \in Batch : Done(b) => Done(b)' /\ BatchStatus(b)' = BatchStatus(b)]_vars

\* The success watermark of a store is the cutoff of a CURRENT operation
\* that succeeded: no failed run, no gap, no acknowledgement and no run of a
\* chosen date moves it.
WatermarkIsEarned ==
    \A s \in Store : coverage[s].upTo # 0 =>
        \E b \in Batch : /\ jobs[b][s].status = "SUCCEEDED"
                         /\ Current(b)
                         /\ batches[b].cutoff = coverage[s].upTo

\* Between the point a store's first reading began and the point its next
\* run begins at, every change time was read by some finished run or lies in
\* the historical gap shown to the operator, in whatever order batches ran,
\* failed with gaps, were retried and were acknowledged.
NoSilentGap ==
    \A s \in Store :
        Changes(origin[s], Watermark(s))
            \subseteq read[s] \cup Changes(coverage[s].from, coverage[s].to)

\* Every admitted batch is over in the end, also when its runs lose their
\* lease and its operations wait for those of older batches.
EveryBatchEnds == \A b \in Batch : batches[b].key # NoKey ~> Done(b)

\* The status a store shows is that of its last operation to end.
StoreShowsLastOutcome ==
    \A b \in Batch, s \in Store :
        /\ jobs[b][s].status \in Terminal
        /\ \A c \in Batch : jobs[c][s].status \in Terminal => c <= b
        => shown[s] = jobs[b][s].status
-----------------------------------------------------------------------------
(* The life of an operation, which OperationQueue implements as well.      *)

BatchOp == (0..MaxBatches) \X Store
JobOf(o) == jobs[o[1]][o[2]]

HasOperation(o) == JobOf(o).status \notin {"NONE", "SKIPPED"}

LifeStatus == [o \in BatchOp |-> IF HasOperation(o) THEN JobOf(o).status ELSE "NONE"]
LifeAttempt == [o \in BatchOp |-> IF HasOperation(o) THEN JobOf(o).attempt ELSE 0]

SameStore(o) == {p \in Batch \X Store : p # o /\ p[2] = o[2]}

Life == INSTANCE OperationLife WITH
    Op <- BatchOp, status <- LifeStatus, attempt <- LifeAttempt,
    Before <- [o \in BatchOp |-> {p \in SameStore(o) : p[1] < o[1]}],
    Rival <- [o \in BatchOp |-> SameStore(o)]

\* What is assumed here of the operations of batches is what the queue gives:
\* they live as it lets them, and those of a store start one at a time, the
\* oldest first, whatever is admitted, retried or expires meanwhile.
OperationsLive == Life!OrderedSpec
=============================================================================
