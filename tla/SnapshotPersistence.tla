------------------------ MODULE SnapshotPersistence ------------------------
(***************************************************************************)
(* The snapshot in memory and the rows in PostgreSQL: database.service.ts. *)
(*                                                                         *)
(* Every change takes its turn in persistenceQueue, but they differ in     *)
(* what they read, write and publish:                                      *)
(*   snapshot   writeCommitted: a copy of the memory is changed, all its   *)
(*              domain tables are written, queue-owned ones are not        *)
(*   fenced     commitOrderSync of a run: the operation is read from the   *)
(*              database, the rest from memory, changed rows are written   *)
(*   plain      commitOrderSync of a request: the batches are read from    *)
(*              the database, the rest from memory                         *)
(*   direct     mappings, summaries, units, fake purchases: rows are read  *)
(*              and written in the database, then copied into memory       *)
(*   operation  insertion, lease, heartbeat and outcome of an operation    *)
(*   cleanup    releaseExpiredOperationLeases                              *)
(* Besides, getOperationById reads one operation outside the queue and     *)
(* copies it into memory.                                                  *)
(*                                                                         *)
(* A row is the set of the changes that went into its present value, and   *)
(* its payload_hash is the value it was computed from. The backend is one  *)
(* process that is stopped, dies and is started again; what else changes   *)
(* the database meanwhile is in Maintenance.                               *)
(***************************************************************************)
EXTENDS Naturals, Sequences, FiniteSets

CONSTANTS
    Domain,     \* rows of tables that snapshots persist
    Log,        \* those of audit_logs
    Operation,  \* operation rows
    Batch,      \* rows of order_sync_batches
    State,      \* other queue-owned rows: items and states of stores
    Call,       \* the changes asked for
    NoCall,
    NoHash,     \* the payload_hash that a script has cleared
    MaxFaults   \* bound on failed commits, lost replies and crashes

ASSUME RowAssumption ==
    /\ Domain \cap (Operation \cup Batch \cup State) = {}
    /\ Operation \cap (Batch \cup State) = {}
ASSUME LogAssumption == Log \subseteq Domain
ASSUME CallAssumption == NoCall \notin Call
ASSUME HashAssumption == \A cs \in SUBSET Call : cs # NoHash
ASSUME FaultAssumption == MaxFaults \in Nat

VARIABLES
    up,         \* the backend runs
    db,         \* the committed rows
    hash,       \* their payload_hash
    mem,        \* this.database
    queue,      \* persistenceQueue: the calls that wait for their turn
    running,    \* the call whose turn it is
    draft,      \* what it is about to write and to publish
    stored,     \* it has committed
    kind,       \* how each call persists its change
    touches,    \* the rows each call changes
    told,       \* what the caller of each call was told
    fetched,    \* operations read by getOperationById, on their way
    faults      \* faults so far

callVars == <<kind, touches, told>>
turnVars == <<queue, running, draft, stored>>
dbVars == <<db, hash>>
vars == <<up, dbVars, mem, turnVars, callVars, fetched, faults>>

Row == Domain \cup Operation \cup Batch \cup State
Rows == [Row -> SUBSET Call]
Nothing == [r \in Row |-> {}]

Kind == {"snapshot", "fenced", "plain", "direct", "operation", "cleanup"}

Single(rows) == {{r} : r \in rows}
NoneOrOne(rows) == {{}} \cup Single(rows)

\* The rows a change of each kind is about. Runs write nothing to the log; the
\* last commit of one may end its batch and settle its store's state. A
\* request admits a batch, with an operation unless all its stores are
\* inactive, or acknowledges a gap. Row-level commits log what they change.
SnapshotScope == (SUBSET Domain) \ {{}}
FencedScope ==
    {{d, o} \cup bs \cup ss : d \in Domain \ Log, o \in Operation,
                             bs \in NoneOrOne(Batch), ss \in NoneOrOne(State)}
PlainScope ==
    Single(State)
    \cup {{b, s} \cup os : b \in Batch, s \in State, os \in NoneOrOne(Operation)}
DirectScope == {rs \in SUBSET Domain : rs \ Log # {}}
OperationScope == {{o} : o \in Operation}

Scope(k) ==
    CASE k = "snapshot" -> SnapshotScope
      [] k = "fenced" -> FencedScope
      [] k = "plain" -> PlainScope
      [] k = "direct" -> DirectScope
      [] OTHER -> OperationScope

\* The rows that a snapshot writes: those of tables that are not queue-owned.
Persisted == Domain

\* Variant: a row-level commit leaves the memory as it was.
Forgotten(c) == mem

\* The rows that a row-level commit changed are copied into memory.
Copied(c) == [r \in Row |-> IF r \in touches[c] THEN draft[r] ELSE mem[r]]

-----------------------------------------------------------------------------
Init ==
    /\ up = TRUE
    /\ db = Nothing
    /\ hash = Nothing
    /\ mem = Nothing
    /\ queue = <<>>
    /\ running = NoCall
    /\ draft = Nothing
    /\ stored = FALSE
    /\ kind = [c \in Call |-> "none"]
    /\ touches = [c \in Call |-> {}]
    /\ told = [c \in Call |-> "none"]
    /\ fetched = {}
    /\ faults = 0

\* An admission inserts operations under ids of their own.
New(rows) == \A c \in Call : touches[c] \cap rows = {}

Submit(c) ==
    /\ up
    /\ kind[c] = "none"
    /\ \E k \in Kind : \E rs \in Scope(k) :
        /\ k = "plain" => New(rs \cap Operation)
        /\ kind' = [kind EXCEPT ![c] = k]
        /\ touches' = [touches EXCEPT ![c] = rs]
    /\ queue' = Append(queue, c)
    /\ UNCHANGED <<up, dbVars, mem, running, draft, stored, told, fetched, faults>>

\* The calls that still wait once the turn of the first one begins.
WithoutFirst == Tail(queue)

\* What the rows are about to become: those in locked are read from the
\* database, the others from memory.
Changed(c, locked) ==
    [r \in Row |->
        LET found == IF r \in locked THEN db[r] ELSE mem[r]
        IN  IF r \in touches[c] THEN found \cup {c} ELSE found]

\* The operations that the next call is about.
Its == touches[Head(queue)] \cap Operation

\* The turn of the first call begins.
Begin(k, locked) ==
    /\ running = NoCall
    /\ queue # <<>>
    /\ kind[Head(queue)] = k
    /\ running' = Head(queue)
    /\ queue' = WithoutFirst
    /\ draft' = Changed(Head(queue), locked)
    /\ stored' = FALSE
    /\ UNCHANGED <<up, dbVars, callVars, fetched, faults>>

StartSnapshot == Begin("snapshot", {}) /\ UNCHANGED mem
\* The row of the operation is locked and read again.
StartFenced == Begin("fenced", Its) /\ UNCHANGED mem
\* Requests exclude each other and read all the batches; of the operations
\* that one inserts, neither memory nor the database has anything yet.
StartPlain == Begin("plain", Batch \cup Its) /\ UNCHANGED mem
StartDirect == Begin("direct", Row) /\ UNCHANGED mem
StartOperation == Begin("operation", Row) /\ UNCHANGED mem
\* A cleanup puts what it writes into memory before it commits.
StartCleanup ==
    /\ Begin("cleanup", Row)
    /\ mem' = [r \in Row |-> IF r \in touches[running'] THEN draft'[r] ELSE mem[r]]

\* A snapshot writes the rows whose hash differs from that of its draft.
Differing == {r \in Persisted : draft[r] # hash[r]}

\* The rows that the commit writes: a row-level commit writes its own.
Written == IF kind[running] = "snapshot" THEN Differing ELSE touches[running]

Put(rows) == [r \in Row |-> IF r \in Written THEN draft[r] ELSE rows[r]]

Store ==
    /\ db' = Put(db)
    /\ hash' = Put(hash)

Commit ==
    /\ running # NoCall
    /\ ~stored
    /\ Store
    /\ stored' = TRUE
    /\ UNCHANGED <<up, mem, queue, running, draft, callVars, fetched, faults>>

Finish(answer) ==
    /\ told' = [told EXCEPT ![running] = answer]
    /\ running' = NoCall
    /\ draft' = Nothing
    /\ stored' = FALSE
    /\ UNCHANGED <<up, queue, kind, touches, fetched>>

\* Memory follows the commit and the caller is answered: a draft replaces the
\* memory as a whole, a row-level commit its rows.
PublishDraft ==
    /\ stored
    /\ kind[running] \in {"snapshot", "fenced", "plain"}
    /\ mem' = draft
    /\ Finish("stored")
    /\ UNCHANGED <<dbVars, faults>>

PublishRows ==
    /\ stored
    /\ kind[running] \in {"direct", "operation", "cleanup"}
    /\ mem' = Copied(running)
    /\ Finish("stored")
    /\ UNCHANGED <<dbVars, faults>>

-----------------------------------------------------------------------------
(* Operations are read outside the queue.                                  *)

Fetch(o) ==
    /\ up
    /\ db[o] # {}
    /\ \A f \in fetched : f.row # o
    /\ fetched' = fetched \cup {[row |-> o, value |-> db[o]]}
    /\ UNCHANGED <<up, dbVars, mem, turnVars, callVars, faults>>

Deliver(f) ==
    /\ mem' = [mem EXCEPT ![f.row] = f.value]
    /\ fetched' = fetched \ {f}
    /\ UNCHANGED <<up, dbVars, turnVars, callVars, faults>>

-----------------------------------------------------------------------------
(* Faults, and the process.                                                *)

Fault == faults < MaxFaults /\ faults' = faults + 1

\* A statement fails and the transaction is rolled back.
Rollback ==
    /\ Fault
    /\ running # NoCall
    /\ ~stored
    /\ Finish("failed")
    /\ UNCHANGED <<dbVars, mem>>

\* The commit happens, its answer is lost: the caller is told of a failure
\* and memory is left behind the database.
LoseReply ==
    /\ Fault
    /\ running # NoCall
    /\ ~stored
    /\ Store
    /\ Finish("failed")
    /\ UNCHANGED mem

\* What the process held is gone.
Gone ==
    /\ up' = FALSE
    /\ mem' = Nothing
    /\ queue' = <<>>
    /\ running' = NoCall
    /\ draft' = Nothing
    /\ stored' = FALSE
    /\ fetched' = {}

\* The process dies: calls that were waiting or running are never answered.
Crash ==
    /\ Fault
    /\ up
    /\ Gone
    /\ UNCHANGED <<dbVars, callVars>>

\* A shutdown waits for the calls in the queue.
Stop ==
    /\ up
    /\ running = NoCall
    /\ queue = <<>>
    /\ Gone
    /\ UNCHANGED <<dbVars, callVars, faults>>

\* Cleared hashes are computed again, and the tables are loaded into memory.
Start ==
    /\ ~up
    /\ up' = TRUE
    /\ hash' = [r \in Row |-> IF hash[r] = NoHash THEN db[r] ELSE hash[r]]
    /\ mem' = db
    /\ UNCHANGED <<db, turnVars, callVars, fetched, faults>>

Next ==
    \/ \E c \in Call : Submit(c)
    \/ StartSnapshot
    \/ StartFenced
    \/ StartPlain
    \/ StartDirect
    \/ StartOperation
    \/ StartCleanup
    \/ Commit
    \/ PublishDraft
    \/ PublishRows
    \/ \E o \in Operation : Fetch(o)
    \/ \E f \in fetched : Deliver(f)
    \/ Rollback
    \/ LoseReply
    \/ Crash
    \/ Stop
    \/ Start

Spec == Init /\ [][Next]_vars

-----------------------------------------------------------------------------
(* Properties.                                                             *)

\* Rows are sets of changes, the call whose turn it is waits no longer, and a
\* process that is down holds nothing.
TypeOK ==
    /\ up \in BOOLEAN
    /\ db \in Rows
    /\ hash \in [Row -> {NoHash} \cup SUBSET Call]
    /\ mem \in Rows
    /\ draft \in Rows
    /\ queue \in Seq(Call)
    /\ running \in Call \cup {NoCall}
    /\ \A i \in 1..Len(queue) : queue[i] # running
    /\ stored \in BOOLEAN
    /\ kind \in [Call -> Kind \cup {"none", "script"}]
    /\ touches \in [Call -> SUBSET Row]
    /\ told \in [Call -> {"none", "stored", "failed", "replaced"}]
    /\ fetched \subseteq [row : Operation, value : SUBSET Call]
    /\ faults \in 0..MaxFaults
    /\ ~up => mem = Nothing /\ queue = <<>> /\ running = NoCall /\ fetched = {}
=============================================================================
