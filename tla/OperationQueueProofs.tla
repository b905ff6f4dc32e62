------------------------ MODULE OperationQueueProofs ------------------------
(***************************************************************************)
(* Theorems about OperationQueue for every number of operations, stores,   *)
(* processes, lease ids and attempts. One inductive invariant carries all  *)
(* of them.                                                                *)
(***************************************************************************)
EXTENDS OperationQueue, FiniteSetTheorems, TLAPS

Busy == PC \ {"idle", "cleaned", "down"}

\* A row's lease fields agree with its status, and its attempts with the
\* budget.
RowInv ==
    \A o \in Op :
        /\ ops[o].status = "RUNNING" => ops[o].attempt >= 1 /\ ops[o].owner \in Token
        /\ ops[o].status # "RUNNING" => ops[o].owner = NoToken
        /\ ops[o].status = "QUEUED" => ops[o].attempt < MaxAttempts
        /\ ops[o].status \in Terminal => ops[o].lease = 0 /\ ops[o].delay = 0

\* A process carries an operation, a token and an attempt exactly while it
\* is busy with one, and no other process carries its token.
ProcessInv ==
    /\ \A w \in Worker :
        IF worker[w].pc \in Busy
        THEN /\ worker[w].op \in Op
             /\ worker[w].token \in Token
             /\ worker[w].attempt \in 1..MaxAttempts
        ELSE worker[w].op = 0 /\ worker[w].token = NoToken
    /\ \A v, w \in Worker :
        worker[v].token = worker[w].token /\ worker[v].token # NoToken => v = w

\* A selected row stays as it was found, and only one process selects it.
SelectInv ==
    /\ \A w \in Worker :
        worker[w].pc = "selected" =>
            /\ Runnable(worker[w].op)
            /\ worker[w].attempt = ops[worker[w].op].attempt + 1
            /\ ~worker[w].superseded
            /\ \A o \in Op : ops[o].owner # worker[w].token
    /\ \A v, w \in Worker :
        /\ worker[v].pc = "selected"
        /\ worker[w].pc = "selected"
        /\ worker[v].op = worker[w].op
        => v = w

\* A row that carries a process's token was leased by the acquisition this
\* process is working on.
OwnerInv ==
    \A w \in Worker, o \in Op :
        worker[w].token # NoToken /\ ops[o].owner = worker[w].token
            => o = worker[w].op /\ ops[o].attempt = worker[w].attempt

\* A superseded run's token is gone from its row.
StaleInv ==
    /\ ~staleWrite
    /\ \A w \in Worker : worker[w].superseded =>
            worker[w].op \in Op /\ ops[worker[w].op].owner # worker[w].token

\* A run holds the lock of its key unless the lock's session was cut.
LockInv ==
    \A w \in Worker :
        worker[w].pc \in Executing \cup {"releasing"} /\ ~worker[w].unlocked
            => lock[KeyOf[worker[w].op]] = w

IInv == TypeOK /\ RowInv /\ ProcessInv /\ SelectInv /\ OwnerInv /\ StaleInv /\ LockInv

-----------------------------------------------------------------------------
(* What follows from the assumptions on the constants.                     *)

\* What the named assumptions say, in the forms the proofs use.
LEMMA Constants ==
    /\ 0 \notin Op
    /\ Op \subseteq Nat
    /\ NoToken \notin Token
    /\ Free \notin Worker
    /\ Ghost \notin Worker
    /\ Free # Ghost
    /\ MaxAttempts \in Nat
    /\ MaxAttempts >= 1
    /\ LeaseTicks \in Nat
    /\ LeaseTicks > 0
    /\ BusyTicks \in Nat
    /\ KeyOf \in [Op -> Key]
    /\ SyncOp \subseteq Op
    /\ MaxFaults \in Nat
    /\ Backoff \in [1..MaxAttempts -> Nat]
    /\ RetryAfter \subseteq Nat
BY OpAssumption, KeyAssumption, NullAssumption, NumberAssumption

\* The initial state satisfies the inductive invariant.
LEMMA InitInv == Init => IInv
<1> SUFFICES ASSUME Init PROVE IInv
  OBVIOUS
<1> USE Constants DEF Init
<1>1. TypeOK
  <2>1. NoRow \in Row
    BY DEF Row, NoRow, Status
  <2>2. Idle \in Process
    BY DEF Process, Idle, PC
  <2>3. staleWrite \in BOOLEAN
    BY Zenon
  <2>4. 0 \in 0..MaxFaults
    OBVIOUS
  <2> QED
    BY <2>1, <2>2, <2>3, <2>4, Zenon DEF TypeOK
<1>2. RowInv
  BY DEF RowInv, NoRow, Terminal
<1>3. ProcessInv
  BY DEF ProcessInv, Idle, Busy, PC, Executing
<1>4. SelectInv /\ OwnerInv /\ StaleInv /\ LockInv
  BY DEF SelectInv, OwnerInv, StaleInv, LockInv, NoRow, Idle, Executing
<1> QED
  BY <1>1, <1>2, <1>3, <1>4 DEF IInv

-----------------------------------------------------------------------------
(* Most steps move rows and processes in a few ways only; a step that does *)
(* preserves the parts of the invariant that relate them.                  *)

Holding == Executing \cup {"releasing"}

\* The row keeps its status, owner and attempt; what was final or runnable
\* stays so.
RowKept(o) ==
    /\ ops'[o].status = ops[o].status
    /\ ops'[o].owner = ops[o].owner
    /\ ops'[o].attempt = ops[o].attempt
    /\ ops[o].status \in Terminal => ops'[o] = ops[o]
    /\ ops[o].lease = 0 => ops'[o].lease = 0
    /\ ops[o].delay = 0 => ops'[o].delay = 0

\* The row gives up its lease.
RowReleased(o) ==
    /\ ops[o].status = "RUNNING"
    /\ ~RowLocked(o)
    /\ ops'[o].status \in {"QUEUED"} \cup Terminal
    /\ ops'[o].owner = NoToken
    /\ ops'[o].status = "QUEUED" => ops'[o].attempt < MaxAttempts
    /\ ops'[o].status \in Terminal => ops'[o].lease = 0 /\ ops'[o].delay = 0

\* The process goes on with the same acquisition.
ProcessKept(v) ==
    /\ worker'[v].op = worker[v].op
    /\ worker'[v].token = worker[v].token
    /\ worker'[v].attempt = worker[v].attempt
    /\ \/ worker'[v].pc = worker[v].pc
       \/ {worker[v].pc, worker'[v].pc} \subseteq Busy \ {"selected"}
    /\ worker'[v].superseded => \/ worker[v].superseded
                                \/ worker[v].op \in Op /\ RowReleased(worker[v].op)

\* The process drops what it had.
ProcessReset(v) ==
    /\ worker'[v].op = 0
    /\ worker'[v].token = NoToken
    /\ worker'[v].pc \notin Busy
    /\ ~worker'[v].superseded

\* A step that keeps or releases rows, and keeps or resets processes,
\* preserves every part of the invariant but the locks.
LEMMA SimpleStep ==
    ASSUME IInv, TypeOK', ~staleWrite',
           \A o \in Op : RowKept(o) \/ RowReleased(o),
           \A v \in Worker : ProcessKept(v) \/ ProcessReset(v)
    PROVE  RowInv' /\ ProcessInv' /\ SelectInv' /\ OwnerInv' /\ StaleInv'
<1>1. RowInv'
  BY Constants DEF IInv, TypeOK, Row, Status, Terminal, RowInv, RowKept, RowReleased
<1>2. ProcessInv'
  <2>1. ASSUME NEW w \in Worker
        PROVE  IF worker'[w].pc \in Busy
               THEN /\ worker'[w].op \in Op
                    /\ worker'[w].token \in Token
                    /\ worker'[w].attempt \in 1..MaxAttempts
               ELSE worker'[w].op = 0 /\ worker'[w].token = NoToken
    BY <2>1 DEF IInv, ProcessInv, ProcessKept, ProcessReset
  <2>2. ASSUME NEW v \in Worker, NEW w \in Worker,
               worker'[v].token = worker'[w].token, worker'[v].token # NoToken
        PROVE  v = w
    BY <2>2 DEF IInv, ProcessInv, ProcessKept, ProcessReset
  <2> QED
    BY <2>1, <2>2 DEF ProcessInv, Busy, PC, Executing
<1>3. SelectInv'
  <2> SUFFICES ASSUME NEW w \in Worker, worker'[w].pc = "selected"
               PROVE  /\ worker[w].pc = "selected"
                      /\ ProcessKept(w)
                      /\ RowKept(worker[w].op)
                      /\ Runnable(worker[w].op)'
                      /\ worker'[w].attempt = ops'[worker[w].op].attempt + 1
                      /\ ~worker'[w].superseded
                      /\ \A o \in Op : ops'[o].owner # worker'[w].token
    BY DEF IInv, SelectInv, ProcessKept
  <2>1. worker[w].pc = "selected" /\ ProcessKept(w)
    BY DEF ProcessKept, ProcessReset, Busy, PC, Executing
  <2>2. worker[w].op \in Op /\ RowLocked(worker[w].op) /\ RowKept(worker[w].op)
    BY <2>1 DEF IInv, ProcessInv, Busy, PC, RowLocked, RowReleased
  <2>3. Runnable(worker[w].op)'
    BY <2>1, <2>2 DEF IInv, SelectInv, Runnable, Expired, RowKept, ProcessKept
  <2>4. ~worker'[w].superseded
    BY <2>1, <2>2 DEF IInv, SelectInv, ProcessKept, RowReleased
  <2>5. \A o \in Op : ops'[o].owner # worker'[w].token
    BY <2>1, Constants DEF IInv, SelectInv, ProcessInv, Busy, PC, ProcessKept, RowKept, RowReleased
  <2>6. worker'[w].attempt = ops'[worker[w].op].attempt + 1
    BY <2>1, <2>2 DEF IInv, SelectInv, ProcessKept, RowKept
  <2> QED
    BY <2>1, <2>2, <2>3, <2>4, <2>5, <2>6
<1>4. OwnerInv'
  BY Constants DEF IInv, OwnerInv, RowKept, RowReleased, ProcessKept, ProcessReset
<1>5. StaleInv'
  <2> SUFFICES ASSUME NEW w \in Worker, worker'[w].superseded
               PROVE  worker'[w].op \in Op /\ ops'[worker'[w].op].owner # worker'[w].token
    BY DEF StaleInv
  <2>1. ProcessKept(w)
    BY DEF ProcessReset
  <2>2. CASE worker[w].superseded
    <3>1. worker[w].op \in Op /\ ops[worker[w].op].owner # worker[w].token
      BY <2>2 DEF IInv, StaleInv
    <3>2. worker[w].token \in Token
      BY <3>1, Constants DEF IInv, ProcessInv
    <3> QED
      BY <2>1, <3>1, <3>2, Constants DEF ProcessKept, RowKept, RowReleased
  <2>3. CASE worker[w].op \in Op /\ RowReleased(worker[w].op)
    BY <2>1, <2>3, Constants DEF IInv, ProcessInv, ProcessKept, RowReleased
  <2> QED
    BY <2>1, <2>2, <2>3 DEF ProcessKept
<1> QED
  BY <1>1, <1>2, <1>3, <1>4, <1>5

-----------------------------------------------------------------------------
(* The updates of rows and processes keep their shape.                     *)

\* The records the actions write into ops are rows.
LEMMA RowShape ==
    /\ NoRow \in Row
    /\ [NoRow EXCEPT !.status = "QUEUED"] \in Row
    /\ \A r \in Row, n \in Nat : [r EXCEPT !.lease = n] \in Row
    /\ \A o \in Op, s \in Terminal : ops[o] \in Row => Ended(o, s) \in Row
    /\ \A o \in Op, a \in 0..MaxAttempts, d \in Nat : Requeued(o, a, d) \in Row
    /\ \A o \in Op, t \in Token, n \in Nat :
            ops[o] \in Row /\ ops[o].attempt < MaxAttempts => Leased(o, t, n) \in Row
<1>1. NoRow \in Row /\ [NoRow EXCEPT !.status = "QUEUED"] \in Row
  BY Constants DEF NoRow, Row, Status
<1>2. \A r \in Row, n \in Nat : [r EXCEPT !.lease = n] \in Row
  BY DEF Row
<1>3. ASSUME NEW o \in Op, NEW s \in Terminal, ops[o] \in Row
      PROVE  Ended(o, s) \in Row
  BY <1>3 DEF Ended, Row, Status
<1>4. \A o \in Op, a \in 0..MaxAttempts, d \in Nat : Requeued(o, a, d) \in Row
  BY DEF Requeued, Row, Status
<1>5. ASSUME NEW o \in Op, NEW t \in Token, NEW n \in Nat,
             ops[o] \in Row, ops[o].attempt < MaxAttempts
      PROVE  Leased(o, t, n) \in Row
  <2>1. ops[o].attempt + 1 \in 0..MaxAttempts
    BY <1>5, Constants DEF Row
  <2> QED
    BY <2>1 DEF Leased, Row, Status
<1> QED
  BY <1>1, <1>2, <1>3, <1>4, <1>5

\* The records the actions write into worker are processes.
LEMMA ProcessShape ==
    /\ Idle \in Process
    /\ [Idle EXCEPT !.pc = "cleaned"] \in Process
    /\ [Idle EXCEPT !.pc = "down"] \in Process
    /\ \A p \in Process : /\ [p EXCEPT !.aborted = TRUE] \in Process
                          /\ [p EXCEPT !.superseded = TRUE] \in Process
                          /\ [p EXCEPT !.unlocked = TRUE] \in Process
                          /\ [p EXCEPT !.ttl = Less(@)] \in Process
                          /\ [p EXCEPT !.pc = "leased", !.ttl = 0] \in Process
    /\ \A p \in Process, c \in PC : [p EXCEPT !.pc = c] \in Process
    /\ \A p \in Process, c \in PC, r \in BOOLEAN :
            [p EXCEPT !.pc = c, !.retry = r] \in Process
<1>1. Idle \in Process
  BY Constants DEF Process, Idle, PC
<1>2. \A p \in Process, c \in PC : [p EXCEPT !.pc = c] \in Process
  BY DEF Process
<1>3. \A p \in Process, c \in PC, r \in BOOLEAN :
            [p EXCEPT !.pc = c, !.retry = r] \in Process
  BY DEF Process
<1>4. ASSUME NEW p \in Process
      PROVE  /\ [p EXCEPT !.aborted = TRUE] \in Process
             /\ [p EXCEPT !.superseded = TRUE] \in Process
             /\ [p EXCEPT !.unlocked = TRUE] \in Process
             /\ [p EXCEPT !.ttl = Less(@)] \in Process
             /\ [p EXCEPT !.pc = "leased", !.ttl = 0] \in Process
  <2>1. p.ttl \in Nat /\ Less(p.ttl) \in Nat
    BY DEF Process, Less
  <2> QED
    BY <2>1 DEF Process, PC
<1> QED
  BY <1>1, <1>2, <1>3, <1>4 DEF PC

\* A poll that finds nothing to run leaves everything as it was.
LEMMA NothingRunnableInv ==
    ASSUME IInv, NEW w \in Worker, NothingRunnable(w)
    PROVE  IInv'
<1>1. TypeOK'
  <2>2. worker' \in [Worker -> Process]
    BY ProcessShape DEF IInv, TypeOK, NothingRunnable, Fault, PC, Executing
  <2> QED
    BY <2>2, Constants DEF IInv, TypeOK, NothingRunnable, Fault
<1>2. \A o \in Op : RowKept(o) \/ RowReleased(o)
  BY Constants DEF IInv, TypeOK, NothingRunnable, Fault, RowKept
<1>3. \A v \in Worker : ProcessKept(v) \/ ProcessReset(v)
  BY Constants DEF IInv, TypeOK, NothingRunnable, Fault, ProcessKept, ProcessReset, Busy, PC, Executing, Process, Idle
<1>4. ~staleWrite'
  BY Constants DEF IInv, StaleInv, NothingRunnable, Fault
<1>5. LockInv'
  BY Constants DEF IInv, TypeOK, LockInv, Holding, NothingRunnable, Fault, Idle, Executing, Process, ProcessInv, Busy, PC
<1> QED
  BY <1>1, <1>2, <1>3, <1>4, <1>5, SimpleStep DEF IInv

\* A rolled back acquisition gives its row back as it found it.
LEMMA AbortSelectInv ==
    ASSUME IInv, NEW w \in Worker, AbortSelect(w)
    PROVE  IInv'
<1>1. TypeOK'
  <2>2. worker' \in [Worker -> Process]
    BY ProcessShape DEF IInv, TypeOK, AbortSelect, Fault, PC, Executing
  <2> QED
    BY <2>2, Constants DEF IInv, TypeOK, AbortSelect, Fault
<1>2. \A o \in Op : RowKept(o) \/ RowReleased(o)
  BY Constants DEF IInv, TypeOK, AbortSelect, Fault, RowKept
<1>3. \A v \in Worker : ProcessKept(v) \/ ProcessReset(v)
  BY Constants DEF IInv, TypeOK, AbortSelect, Fault, ProcessKept, ProcessReset, Busy, PC, Executing, Process, Idle
<1>4. ~staleWrite'
  BY Constants DEF IInv, StaleInv, AbortSelect, Fault
<1>5. LockInv'
  BY Constants DEF IInv, TypeOK, LockInv, Holding, AbortSelect, Fault, Idle, Executing, Process, ProcessInv, Busy, PC
<1> QED
  BY <1>1, <1>2, <1>3, <1>4, <1>5, SimpleStep DEF IInv

\* A poll that ends in an error drops the token it leased with.
LEMMA FailLockInv ==
    ASSUME IInv, NEW w \in Worker, FailLock(w)
    PROVE  IInv'
<1>1. TypeOK'
  <2>2. worker' \in [Worker -> Process]
    BY ProcessShape DEF IInv, TypeOK, FailLock, Fault, PC, Executing
  <2> QED
    BY <2>2, Constants DEF IInv, TypeOK, FailLock, Fault
<1>2. \A o \in Op : RowKept(o) \/ RowReleased(o)
  BY Constants DEF IInv, TypeOK, FailLock, Fault, RowKept
<1>3. \A v \in Worker : ProcessKept(v) \/ ProcessReset(v)
  BY Constants DEF IInv, TypeOK, FailLock, Fault, ProcessKept, ProcessReset, Busy, PC, Executing, Process, Idle
<1>4. ~staleWrite'
  BY Constants DEF IInv, StaleInv, FailLock, Fault
<1>5. LockInv'
  BY Constants DEF IInv, TypeOK, LockInv, Holding, FailLock, Fault, Idle, Executing, Process, ProcessInv, Busy, PC
<1> QED
  BY <1>1, <1>2, <1>3, <1>4, <1>5, SimpleStep DEF IInv

\* A restarted process holds nothing.
LEMMA RestartInv ==
    ASSUME IInv, NEW w \in Worker, Restart(w)
    PROVE  IInv'
<1>1. TypeOK'
  <2>2. worker' \in [Worker -> Process]
    BY ProcessShape DEF IInv, TypeOK, Restart, Fault, PC, Executing
  <2> QED
    BY <2>2, Constants DEF IInv, TypeOK, Restart, Fault
<1>2. \A o \in Op : RowKept(o) \/ RowReleased(o)
  BY Constants DEF IInv, TypeOK, Restart, Fault, RowKept
<1>3. \A v \in Worker : ProcessKept(v) \/ ProcessReset(v)
  BY Constants DEF IInv, TypeOK, Restart, Fault, ProcessKept, ProcessReset, Busy, PC, Executing, Process, Idle
<1>4. ~staleWrite'
  BY Constants DEF IInv, StaleInv, Restart, Fault
<1>5. LockInv'
  BY Constants DEF IInv, TypeOK, LockInv, Holding, Restart, Fault, Idle, Executing, Process, ProcessInv, Busy, PC
<1> QED
  BY <1>1, <1>2, <1>3, <1>4, <1>5, SimpleStep DEF IInv

\* Giving back the lock ends the poll; other processes keep theirs.
LEMMA ReleaseLockInv ==
    ASSUME IInv, NEW w \in Worker, ReleaseLock(w)
    PROVE  IInv'
<1>1. TypeOK'
  <2>2. worker' \in [Worker -> Process]
    BY ProcessShape DEF IInv, TypeOK, ReleaseLock, Fault, Released, PC, Executing
  <2> QED
    BY <2>2, Constants DEF IInv, TypeOK, ReleaseLock, Fault, Released
<1>2. \A o \in Op : RowKept(o) \/ RowReleased(o)
  BY Constants DEF IInv, TypeOK, ReleaseLock, Fault, Released, RowKept
<1>3. \A v \in Worker : ProcessKept(v) \/ ProcessReset(v)
  BY Constants DEF IInv, TypeOK, ReleaseLock, Fault, Released, ProcessKept, ProcessReset, Busy, PC, Executing, Process, Idle
<1>4. ~staleWrite'
  BY Constants DEF IInv, StaleInv, ReleaseLock, Fault, Released
<1>5. LockInv'
  <2>1. \A k \in Key : lock[k] # w => lock'[k] = lock[k]
    BY DEF IInv, TypeOK, ReleaseLock, Released
  <2>2. worker' = [worker EXCEPT ![w] = Idle]
    BY DEF ReleaseLock
  <2>3. ASSUME NEW v \in Worker, worker'[v].pc \in Executing \cup {"releasing"}, ~worker'[v].unlocked
        PROVE  lock'[KeyOf[worker'[v].op]] = v
    <3>1. v # w /\ worker'[v] = worker[v]
      BY <2>2, <2>3 DEF IInv, TypeOK, Idle, Executing
    <3>2. worker[v].op \in Op /\ KeyOf[worker[v].op] \in Key
      BY <2>3, <3>1, Constants DEF IInv, ProcessInv, Busy, PC, Executing
    <3> QED
      BY <2>1, <2>3, <3>1, <3>2 DEF IInv, LockInv
  <2> QED
    BY <2>3 DEF LockInv
<1> QED
  BY <1>1, <1>2, <1>3, <1>4, <1>5, SimpleStep DEF IInv

\* An unlock that fails ends the poll too; other processes keep theirs.
LEMMA LoseReleaseInv ==
    ASSUME IInv, NEW w \in Worker, LoseRelease(w)
    PROVE  IInv'
<1>1. TypeOK'
  <2>2. worker' \in [Worker -> Process]
    BY ProcessShape DEF IInv, TypeOK, LoseRelease, Fault, Abandoned, PC, Executing
  <2> QED
    BY <2>2, Constants DEF IInv, TypeOK, LoseRelease, Fault, Abandoned
<1>2. \A o \in Op : RowKept(o) \/ RowReleased(o)
  BY Constants DEF IInv, TypeOK, LoseRelease, Fault, Abandoned, RowKept
<1>3. \A v \in Worker : ProcessKept(v) \/ ProcessReset(v)
  BY Constants DEF IInv, TypeOK, LoseRelease, Fault, Abandoned, ProcessKept, ProcessReset, Busy, PC, Executing, Process, Idle
<1>4. ~staleWrite'
  BY Constants DEF IInv, StaleInv, LoseRelease, Fault, Abandoned
<1>5. LockInv'
  <2>1. \A k \in Key : lock[k] # w => lock'[k] = lock[k]
    BY DEF IInv, TypeOK, LoseRelease, Abandoned
  <2>2. worker' = [worker EXCEPT ![w] = Idle]
    BY DEF LoseRelease
  <2>3. ASSUME NEW v \in Worker, worker'[v].pc \in Executing \cup {"releasing"}, ~worker'[v].unlocked
        PROVE  lock'[KeyOf[worker'[v].op]] = v
    <3>1. v # w /\ worker'[v] = worker[v]
      BY <2>2, <2>3 DEF IInv, TypeOK, Idle, Executing
    <3>2. worker[v].op \in Op /\ KeyOf[worker[v].op] \in Key
      BY <2>3, <3>1, Constants DEF IInv, ProcessInv, Busy, PC, Executing
    <3> QED
      BY <2>1, <2>3, <3>1, <3>2 DEF IInv, LockInv
  <2> QED
    BY <2>3 DEF LockInv
<1> QED
  BY <1>1, <1>2, <1>3, <1>4, <1>5, SimpleStep DEF IInv

\* A process that dies loses what it had; its locks stay held for now.
LEMMA CrashInv ==
    ASSUME IInv, NEW w \in Worker, Crash(w)
    PROVE  IInv'
<1>1. TypeOK'
  <2>2. worker' \in [Worker -> Process]
    BY ProcessShape DEF IInv, TypeOK, Crash, Fault, Abandoned, PC, Executing
  <2> QED
    BY <2>2, Constants DEF IInv, TypeOK, Crash, Fault, Abandoned
<1>2. \A o \in Op : RowKept(o) \/ RowReleased(o)
  BY Constants DEF IInv, TypeOK, Crash, Fault, Abandoned, RowKept
<1>3. \A v \in Worker : ProcessKept(v) \/ ProcessReset(v)
  BY Constants DEF IInv, TypeOK, Crash, Fault, Abandoned, ProcessKept, ProcessReset, Busy, PC, Executing, Process, Idle
<1>4. ~staleWrite'
  BY Constants DEF IInv, StaleInv, Crash, Fault, Abandoned
<1>5. LockInv'
  BY Constants DEF IInv, TypeOK, LockInv, Holding, Crash, Fault, Abandoned, Idle, Executing, Process, ProcessInv, Busy, PC
<1> QED
  BY <1>1, <1>2, <1>3, <1>4, <1>5, SimpleStep DEF IInv

\* The lock was free, so its new holder is the only one.
LEMMA LockExecutionInv ==
    ASSUME IInv, NEW w \in Worker, LockExecution(w)
    PROVE  IInv'
<1>0. worker[w].op \in Op /\ KeyOf[worker[w].op] \in Key
  BY Constants DEF IInv, ProcessInv, LockExecution, Busy, PC
<1>1. TypeOK'
  <2>1. worker' \in [Worker -> Process]
    BY ProcessShape DEF IInv, TypeOK, LockExecution, PC, Executing
  <2>2. runs' \in [Op -> Nat] /\ lock' \in [Key -> Worker \cup {Free, Ghost}]
    BY <1>0 DEF IInv, TypeOK, LockExecution
  <2> QED
    BY <2>1, <2>2 DEF IInv, TypeOK, LockExecution
<1>2. \A o \in Op : RowKept(o) \/ RowReleased(o)
  BY Constants DEF IInv, TypeOK, LockExecution, Fault, RowKept
<1>3. \A v \in Worker : ProcessKept(v) \/ ProcessReset(v)
  BY Constants DEF IInv, TypeOK, LockExecution, Fault, ProcessKept, ProcessReset, Busy, PC, Executing, Process, Idle
<1>4. ~staleWrite'
  BY Constants DEF IInv, StaleInv, LockExecution, Fault
<1>5. LockInv'
  <2> SUFFICES ASSUME NEW v \in Worker, worker'[v].pc \in Holding, ~worker'[v].unlocked
               PROVE  lock'[KeyOf[worker'[v].op]] = v
    BY DEF LockInv, Holding
  <2>1. CASE v = w
    BY <2>1, <1>0 DEF IInv, TypeOK, LockExecution, Process
  <2>2. CASE v # w
    <3>1. worker'[v] = worker[v] /\ worker[v].op \in Op
      BY <2>2, Constants DEF IInv, TypeOK, ProcessInv, LockExecution, Holding, Busy, PC, Executing
    <3>2. lock[KeyOf[worker[v].op]] = v /\ v # Free
      BY <3>1, Constants DEF IInv, LockInv, Holding
    <3> QED
      BY <3>1, <3>2, <1>0, Constants DEF IInv, TypeOK, LockExecution, LockAvailable
  <2> QED
    BY <2>1, <2>2
<1> QED
  BY <1>1, <1>2, <1>3, <1>4, <1>5, SimpleStep DEF IInv

\* An error changes the process only.
LEMMA ThrowInv ==
    ASSUME IInv, NEW w \in Worker, NEW r \in BOOLEAN, Throw(w, r)
    PROVE  IInv'
<1>1. TypeOK'
  <2>2. worker' \in [Worker -> Process]
    BY ProcessShape DEF IInv, TypeOK, Throw, Fault, PC, Executing
  <2> QED
    BY <2>2, Constants DEF IInv, TypeOK, Throw, Fault, ProcessInv, Busy, PC, Executing
<1>2. \A o \in Op : RowKept(o) \/ RowReleased(o)
  BY Constants DEF IInv, TypeOK, Throw, Fault, RowKept
<1>3. \A v \in Worker : ProcessKept(v) \/ ProcessReset(v)
  BY Constants DEF IInv, TypeOK, Throw, Fault, ProcessKept, ProcessReset, Busy, PC, Executing, Process, Idle
<1>4. ~staleWrite'
  BY Constants DEF IInv, StaleInv, Throw, Fault
<1>5. LockInv'
  BY Constants DEF IInv, TypeOK, LockInv, Holding, Throw, Fault, LockAvailable, Idle, Executing, Process, ProcessInv, Busy, PC
<1> QED
  BY <1>1, <1>2, <1>3, <1>4, <1>5, SimpleStep DEF IInv

\* A failure that is not persisted changes the process only.
LEMMA LoseFailureInv ==
    ASSUME IInv, NEW w \in Worker, LoseFailure(w)
    PROVE  IInv'
<1>1. TypeOK'
  <2>2. worker' \in [Worker -> Process]
    BY ProcessShape DEF IInv, TypeOK, LoseFailure, Fault, PC, Executing
  <2> QED
    BY <2>2, Constants DEF IInv, TypeOK, LoseFailure, Fault, ProcessInv, Busy, PC, Executing
<1>2. \A o \in Op : RowKept(o) \/ RowReleased(o)
  BY Constants DEF IInv, TypeOK, LoseFailure, Fault, RowKept
<1>3. \A v \in Worker : ProcessKept(v) \/ ProcessReset(v)
  BY Constants DEF IInv, TypeOK, LoseFailure, Fault, ProcessKept, ProcessReset, Busy, PC, Executing, Process, Idle
<1>4. ~staleWrite'
  BY Constants DEF IInv, StaleInv, LoseFailure, Fault
<1>5. LockInv'
  BY Constants DEF IInv, TypeOK, LockInv, Holding, LoseFailure, Fault, LockAvailable, Idle, Executing, Process, ProcessInv, Busy, PC
<1> QED
  BY <1>1, <1>2, <1>3, <1>4, <1>5, SimpleStep DEF IInv

\* The watchdog only sets the abort signal.
LEMMA WatchdogInv ==
    ASSUME IInv, NEW w \in Worker, Watchdog(w)
    PROVE  IInv'
<1>1. TypeOK'
  <2>2. worker' \in [Worker -> Process]
    BY ProcessShape DEF IInv, TypeOK, Watchdog, Fault, PC, Executing
  <2> QED
    BY <2>2, Constants DEF IInv, TypeOK, Watchdog, Fault, ProcessInv, Busy, PC, Executing
<1>2. \A o \in Op : RowKept(o) \/ RowReleased(o)
  BY Constants DEF IInv, TypeOK, Watchdog, Fault, RowKept
<1>3. \A v \in Worker : ProcessKept(v) \/ ProcessReset(v)
  BY Constants DEF IInv, TypeOK, Watchdog, Fault, ProcessKept, ProcessReset, Busy, PC, Executing, Process, Idle
<1>4. ~staleWrite'
  BY Constants DEF IInv, StaleInv, Watchdog, Fault
<1>5. LockInv'
  BY Constants DEF IInv, TypeOK, LockInv, Holding, Watchdog, Fault, LockAvailable, Idle, Executing, Process, ProcessInv, Busy, PC
<1> QED
  BY <1>1, <1>2, <1>3, <1>4, <1>5, SimpleStep DEF IInv

\* Only a lock whose holder died is reaped.
LEMMA ReapSessionInv ==
    ASSUME IInv, NEW k \in Key, ReapSession(k)
    PROVE  IInv'
<1>1. TypeOK'
  <2>2. worker' \in [Worker -> Process]
    BY ProcessShape DEF IInv, TypeOK, ReapSession, Fault, PC, Executing
  <2> QED
    BY <2>2, Constants DEF IInv, TypeOK, ReapSession, Fault
<1>2. \A o \in Op : RowKept(o) \/ RowReleased(o)
  BY Constants DEF IInv, TypeOK, ReapSession, Fault, RowKept
<1>3. \A v \in Worker : ProcessKept(v) \/ ProcessReset(v)
  BY Constants DEF IInv, TypeOK, ReapSession, Fault, ProcessKept, ProcessReset, Busy, PC, Executing, Process, Idle
<1>4. ~staleWrite'
  BY Constants DEF IInv, StaleInv, ReapSession, Fault
<1>5. LockInv'
  <2> SUFFICES ASSUME NEW v \in Worker, worker[v].pc \in Holding, ~worker[v].unlocked
               PROVE  lock'[KeyOf[worker[v].op]] = v
    BY DEF LockInv, Holding, ReapSession
  <2>1. worker[v].op \in Op /\ lock[KeyOf[worker[v].op]] = v
    BY DEF IInv, ProcessInv, LockInv, Holding, Busy, PC, Executing
  <2> QED
    BY <2>1, Constants DEF IInv, TypeOK, ReapSession
<1> QED
  BY <1>1, <1>2, <1>3, <1>4, <1>5, SimpleStep DEF IInv

\* Cutting a session frees its lock and exempts its holder.
LEMMA DropSessionInv ==
    ASSUME IInv, NEW k \in Key, DropSession(k)
    PROVE  IInv'
<1>1. TypeOK'
  <2>2. worker' \in [Worker -> Process]
    BY ProcessShape DEF IInv, TypeOK, DropSession, Fault, PC, Executing
  <2> QED
    BY <2>2, Constants DEF IInv, TypeOK, DropSession, Fault
<1>2. \A o \in Op : RowKept(o) \/ RowReleased(o)
  BY Constants DEF IInv, TypeOK, DropSession, Fault, RowKept
<1>3. \A v \in Worker : ProcessKept(v) \/ ProcessReset(v)
  BY Constants, SMTT(20) DEF IInv, TypeOK, DropSession, Fault, ProcessKept, ProcessReset, Busy, PC, Executing, Process, Idle
<1>4. ~staleWrite'
  BY Constants DEF IInv, StaleInv, DropSession, Fault
<1>5. LockInv'
  BY Constants DEF IInv, TypeOK, LockInv, Holding, DropSession, Fault, Idle, Executing, Process, ProcessInv, Busy, PC
<1> QED
  BY <1>1, <1>2, <1>3, <1>4, <1>5, SimpleStep DEF IInv

\* A heartbeat on its way changes no row and no process.
LEMMA SendBeatInv ==
    ASSUME IInv, NEW w \in Worker, SendBeat(w)
    PROVE  IInv'
<1>1. TypeOK'
  <2>1. [op |-> worker[w].op, token |-> worker[w].token, ttl |-> LeaseTicks] \in Beat
    BY Constants DEF IInv, ProcessInv, SendBeat, Beat, Busy, PC, Executing
  <2> QED
    BY <2>1 DEF IInv, TypeOK, SendBeat
<1>2. \A o \in Op : RowKept(o) \/ RowReleased(o)
  BY Constants DEF IInv, TypeOK, SendBeat, RowKept
<1>3. \A v \in Worker : ProcessKept(v) \/ ProcessReset(v)
  BY Constants DEF IInv, TypeOK, SendBeat, ProcessKept, ProcessReset, Busy, PC, Executing, Process, Idle
<1>4. ~staleWrite'
  BY Constants DEF IInv, StaleInv, SendBeat
<1>5. LockInv'
  BY Constants DEF IInv, TypeOK, LockInv, Holding, SendBeat, Idle, Executing, Process, ProcessInv, Busy, PC
<1> QED
  BY <1>1, <1>2, <1>3, <1>4, <1>5, SimpleStep DEF IInv

\* A lost heartbeat at most aborts the run that sent it.
LEMMA LoseBeatInv ==
    ASSUME IInv, NEW b \in beats, LoseBeat(b)
    PROVE  IInv'
<1>1. TypeOK'
  <2>2. worker' \in [Worker -> Process]
    BY ProcessShape DEF IInv, TypeOK, LoseBeat, Aborting, Fault, PC, Executing
  <2> QED
    BY <2>2, Constants DEF IInv, TypeOK, LoseBeat, Aborting, Fault
<1>2. \A o \in Op : RowKept(o) \/ RowReleased(o)
  BY Constants DEF IInv, TypeOK, LoseBeat, Aborting, Fault, RowKept
<1>3. \A v \in Worker : ProcessKept(v) \/ ProcessReset(v)
  BY Constants DEF IInv, TypeOK, LoseBeat, Aborting, Fault, ProcessKept, ProcessReset, Busy, PC, Executing, Process, Idle
<1>4. ~staleWrite'
  BY Constants DEF IInv, StaleInv, LoseBeat, Aborting, Fault
<1>5. LockInv'
  BY Constants DEF IInv, TypeOK, LockInv, Holding, LoseBeat, Aborting, Fault, Idle, Executing, Process, ProcessInv, Busy, PC
<1> QED
  BY <1>1, <1>2, <1>3, <1>4, <1>5, SimpleStep DEF IInv

\* A progress heartbeat extends a lease that is still held.
LEMMA ProgressInv ==
    ASSUME IInv, NEW w \in Worker, Progress(w)
    PROVE  IInv'
<1>1. TypeOK'
  <2>1. ops' \in [Op -> Row]
    <3>1. LeaseTicks \in Nat /\ ops' = [ops EXCEPT ![worker[w].op].lease = LeaseTicks]
      BY Constants DEF Progress
    <3> QED
      BY <3>1 DEF IInv, TypeOK, Row
  <2>2. worker' \in [Worker -> Process]
    BY ProcessShape DEF IInv, TypeOK, Progress, PC, Executing
  <2> QED
    BY <2>1, <2>2, Constants DEF IInv, TypeOK, Progress
<1>2. \A o \in Op : RowKept(o) \/ RowReleased(o)
  BY Constants DEF IInv, TypeOK, Progress, Row, HoldsLease, Terminal, RowKept
<1>3. \A v \in Worker : ProcessKept(v) \/ ProcessReset(v)
  BY Constants DEF IInv, TypeOK, Progress, ProcessKept, ProcessReset, Busy, PC, Executing, Process, Idle
<1>4. ~staleWrite'
  BY Constants DEF IInv, StaleInv, Progress
<1>5. LockInv'
  BY Constants DEF IInv, TypeOK, LockInv, Holding, Progress, Idle, Executing, Process, ProcessInv, Busy, PC
<1> QED
  BY <1>1, <1>2, <1>3, <1>4, <1>5, SimpleStep DEF IInv

\* A heartbeat renews the lease it finds, or aborts its run.
LEMMA DeliverBeatInv ==
    ASSUME IInv, NEW b \in beats, DeliverBeat(b)
    PROVE  IInv'
<1>0. b \in Beat /\ b.op \in Op /\ b.ttl \in Nat
  BY DEF IInv, TypeOK, Beat
<1>1. CASE HoldsLease(b.op, b.token)
  <2>1. ops' = [ops EXCEPT ![b.op].lease = b.ttl] /\ worker' = worker
    BY <1>1 DEF DeliverBeat
  <2>2. TypeOK'
    <3>1. ops' \in [Op -> Row]
      BY <2>1, <1>0 DEF IInv, TypeOK, Row
    <3> QED
      BY <2>1, <3>1 DEF IInv, TypeOK, DeliverBeat
  <2>3. \A o \in Op : RowKept(o) \/ RowReleased(o)
    BY <1>0, <1>1, <2>1 DEF IInv, TypeOK, HoldsLease, Row, Terminal, RowKept
  <2>4. \A v \in Worker : ProcessKept(v) \/ ProcessReset(v)
    BY <2>1 DEF ProcessKept
  <2>5. ~staleWrite' /\ LockInv'
    BY <2>1 DEF IInv, StaleInv, LockInv, DeliverBeat
  <2> QED
    BY <2>2, <2>3, <2>4, <2>5, SimpleStep DEF IInv
<1>2. CASE ~HoldsLease(b.op, b.token)
  <2>1. worker' = Aborting(b.token) /\ ops' = ops
    BY <1>2 DEF DeliverBeat
  <2>2. TypeOK'
    <3>1. worker' \in [Worker -> Process]
      BY <2>1, ProcessShape DEF IInv, TypeOK, Aborting
    <3> QED
      BY <2>1, <3>1 DEF IInv, TypeOK, DeliverBeat
  <2>3. \A o \in Op : RowKept(o) \/ RowReleased(o)
    BY <2>1 DEF RowKept
  <2>4. \A v \in Worker : ProcessKept(v) \/ ProcessReset(v)
    BY <2>1 DEF IInv, TypeOK, Aborting, Process, ProcessKept
  <2>5. ~staleWrite' /\ LockInv'
    BY <2>1 DEF IInv, TypeOK, StaleInv, LockInv, DeliverBeat, Aborting, Process
  <2> QED
    BY <2>2, <2>3, <2>4, <2>5, SimpleStep DEF IInv
<1> QED
  BY <1>1, <1>2

\* Recording the error renews the lease when the run still holds it.
LEMMA RecordErrorInv ==
    ASSUME IInv, NEW w \in Worker, RecordError(w)
    PROVE  IInv'
<1>0. worker[w].op \in Op
  BY DEF IInv, ProcessInv, RecordError, Busy, PC, Executing
<1>1. ops' \in [Op -> Row] /\ \A o \in Op : RowKept(o)
  <2>1. CASE HoldsLease(worker[w].op, worker[w].token)
    <3>1. ops' = [ops EXCEPT ![worker[w].op].lease = LeaseTicks]
      BY <2>1 DEF RecordError
    <3>2. ops' \in [Op -> Row]
      <4>1. [ops[worker[w].op] EXCEPT !.lease = LeaseTicks] \in Row
        BY <1>0, RowShape, Constants DEF IInv, TypeOK
      <4> QED
        BY <1>0, <3>1, <4>1 DEF IInv, TypeOK
    <3>3. \A o \in Op : RowKept(o)
      BY <1>0, <2>1, <3>1 DEF IInv, TypeOK, HoldsLease, Row, Terminal, RowKept
    <3> QED
      BY <3>2, <3>3
  <2>2. CASE ~HoldsLease(worker[w].op, worker[w].token)
    BY <2>2 DEF IInv, TypeOK, RecordError, RowKept
  <2> QED
    BY <2>1, <2>2
<1>2. TypeOK'
  <2>1. worker' \in [Worker -> Process]
    BY ProcessShape DEF IInv, TypeOK, RecordError, PC, Executing
  <2> QED
    BY <1>1, <2>1 DEF IInv, TypeOK, RecordError
<1>3. \A v \in Worker : ProcessKept(v) \/ ProcessReset(v)
  BY DEF IInv, TypeOK, RecordError, ProcessKept, Busy, PC, Executing, Process
<1>4. ~staleWrite' /\ LockInv'
  BY DEF IInv, TypeOK, StaleInv, LockInv, RecordError, Executing, Process
<1> QED
  BY <1>1, <1>2, <1>3, <1>4, SimpleStep DEF IInv

\* Time passes for every row, process and heartbeat.
LEMMA TickInv ==
    ASSUME IInv, Tick
    PROVE  IInv'
<1>0. \A n \in Nat : Less(n) \in Nat /\ (n = 0 => Less(n) = 0)
  BY DEF Less
<1>1. ops' \in [Op -> Row] /\ \A o \in Op : RowKept(o)
  <2>1. ASSUME NEW o \in Op
        PROVE  /\ ops'[o] = [ops[o] EXCEPT !.lease = Less(ops[o].lease),
                                           !.delay = Less(ops[o].delay)]
               /\ ops[o] \in Row
    BY DEF IInv, TypeOK, Tick
  <2>2. ASSUME NEW o \in Op PROVE ops'[o] \in Row
    <3> DEFINE l == Less(ops[o].lease)
               d == Less(ops[o].delay)
    <3>1. l \in Nat /\ d \in Nat /\ ops'[o] = [ops[o] EXCEPT !.lease = l, !.delay = d]
      BY <1>0, <2>1 DEF Row
    <3> HIDE DEF l, d
    <3> QED
      BY <2>1, <3>1 DEF Row
  <2>3. ASSUME NEW o \in Op PROVE RowKept(o)
    <3>1. /\ ops'[o].status = ops[o].status
          /\ ops'[o].owner = ops[o].owner
          /\ ops'[o].attempt = ops[o].attempt
          /\ ops'[o].lease = Less(ops[o].lease)
          /\ ops'[o].delay = Less(ops[o].delay)
      BY <2>1 DEF Row
    <3>2. ops[o].lease \in Nat /\ ops[o].delay \in Nat
      BY <2>1 DEF Row
    <3>3. ops[o].status \in Terminal => ops'[o] = ops[o]
      <4>1. HAVE ops[o].status \in Terminal
      <4>2. Less(ops[o].lease) = ops[o].lease /\ Less(ops[o].delay) = ops[o].delay
        BY <1>0, <4>1 DEF IInv, RowInv
      <4>3. ASSUME NEW r \in Row
            PROVE  [r EXCEPT !.lease = r.lease, !.delay = r.delay] = r
        BY DEF Row
      <4> QED
        BY <2>1, <4>2, <4>3
    <3> QED
      BY <1>0, <3>1, <3>2, <3>3 DEF RowKept
  <2> QED
    BY <2>2, <2>3 DEF Tick
<1>2. TypeOK'
  <2>1. worker' \in [Worker -> Process]
    BY ProcessShape DEF IInv, TypeOK, Tick
  <2>2. ASSUME NEW b \in Beat PROVE [b EXCEPT !.ttl = Less(b.ttl)] \in Beat
    <3> DEFINE t == Less(b.ttl)
    <3>1. t \in Nat
      BY <1>0 DEF Beat
    <3> HIDE DEF t
    <3>2. [b EXCEPT !.ttl = t] \in Beat
      BY <3>1 DEF Beat
    <3> QED
      BY <3>2 DEF t
  <2>3. beats' \subseteq Beat
    BY <2>2 DEF IInv, TypeOK, Tick
  <2> QED
    BY <1>1, <2>1, <2>3 DEF IInv, TypeOK, Tick
<1>3. \A v \in Worker : ProcessKept(v) \/ ProcessReset(v)
  BY DEF IInv, TypeOK, Tick, ProcessKept, Process
<1>4. LockInv'
  <2>1. ASSUME NEW v \in Worker
        PROVE  /\ worker'[v].pc = worker[v].pc
               /\ worker'[v].op = worker[v].op
               /\ worker'[v].unlocked = worker[v].unlocked
    BY DEF IInv, TypeOK, Tick, Process
  <2> QED
    BY <2>1 DEF IInv, LockInv, Tick
<1>5. ~staleWrite'
  BY DEF IInv, StaleInv, Tick
<1> QED
  BY <1>1, <1>2, <1>3, <1>4, <1>5, SimpleStep DEF IInv

\* A busy lock gives the lease back, if it is still this poll's.
LEMMA DeferBusyInv ==
    ASSUME IInv, NEW w \in Worker, DeferBusy(w)
    PROVE  IInv'
<1> DEFINE p == worker[w].op
<1>0. p \in Op /\ ops[p] \in Row /\ ops[p].attempt \in 0..MaxAttempts
  BY DEF IInv, TypeOK, ProcessInv, DeferBusy, Busy, PC, Row
<1>1. ops' \in [Op -> Row] /\ \A o \in Op : RowKept(o) \/ RowReleased(o)
  <2>1. CASE HoldsLease(p, worker[w].token)
    <3>1. ops' = [ops EXCEPT ![p] = Requeued(p, ops[p].attempt - 1, BusyTicks)]
      BY <2>1 DEF DeferBusy
    <3>a. ops[p].attempt >= 1
      BY <1>0, <2>1 DEF IInv, RowInv, HoldsLease
    <3>b. ops[p].attempt - 1 \in 0..MaxAttempts /\ ops[p].attempt - 1 < MaxAttempts
      BY <1>0, <3>a, Constants
    <3>2. ops' \in [Op -> Row]
      BY <1>0, <3>1, <3>b, RowShape, Constants DEF IInv, TypeOK
    <3>3. RowReleased(p)
      BY <1>0, <2>1, <3>1, <3>b, Constants
         DEF IInv, TypeOK, HoldsLease, Requeued, RowReleased, Terminal
    <3> QED
      BY <1>0, <3>1, <3>2, <3>3 DEF IInv, TypeOK, RowKept
  <2>2. CASE ~HoldsLease(p, worker[w].token)
    BY <2>2 DEF IInv, TypeOK, DeferBusy, RowKept
  <2> QED
    BY <2>1, <2>2
<1>2. TypeOK'
  <2>1. worker' \in [Worker -> Process]
    BY ProcessShape DEF IInv, TypeOK, DeferBusy
  <2> QED
    BY <1>1, <2>1 DEF IInv, TypeOK, DeferBusy
<1>3. \A v \in Worker : ProcessKept(v) \/ ProcessReset(v)
  BY DEF IInv, TypeOK, DeferBusy, ProcessKept, ProcessReset, Busy, PC, Executing, Process, Idle
<1>4. ~staleWrite'
  BY DEF IInv, StaleInv, DeferBusy
<1>5. LockInv'
  BY DEF IInv, TypeOK, LockInv, DeferBusy, Idle, Executing, Process
<1> QED
  BY <1>1, <1>2, <1>3, <1>4, <1>5, SimpleStep DEF IInv

\* A run that holds its fence was not superseded.
LEMMA FenceFresh ==
    ASSUME IInv, NEW w \in Worker, FenceHolds(w)
    PROVE  /\ ~worker[w].superseded
           /\ worker[w].op \in Op => ops[worker[w].op].attempt = worker[w].attempt
<1>1. ops[worker[w].op].owner = worker[w].token
  BY DEF FenceHolds, HoldsLease
<1>2. ~worker[w].superseded
  BY <1>1 DEF IInv, StaleInv
<1>3. ASSUME worker[w].op \in Op PROVE ops[worker[w].op].attempt = worker[w].attempt
  BY <1>1, <1>3, Constants DEF IInv, ProcessInv, OwnerInv
<1> QED
  BY <1>2, <1>3

\* A chunk changes no row.
LEMMA SaveChunkInv ==
    ASSUME IInv, NEW w \in Worker, SaveChunk(w)
    PROVE  IInv'
<1>1. ~staleWrite'
  BY FenceFresh DEF IInv, StaleInv, SaveChunk
<1>2. TypeOK'
  <2>1. lastWriter' \in [Key -> Op \cup {0}]
    BY Constants DEF IInv, TypeOK, SaveChunk
  <2>2. staleWrite' \in BOOLEAN
    BY Zenon DEF SaveChunk
  <2> QED
    BY <2>1, <2>2, Zenon DEF IInv, TypeOK, SaveChunk
<1>3. \A o \in Op : RowKept(o) \/ RowReleased(o)
  BY DEF SaveChunk, RowKept
<1>4. \A v \in Worker : ProcessKept(v) \/ ProcessReset(v)
  BY DEF SaveChunk, ProcessKept
<1>5. LockInv'
  BY DEF IInv, LockInv, SaveChunk
<1> QED
  BY <1>1, <1>2, <1>3, <1>4, <1>5, SimpleStep DEF IInv

\* A run that ends records its outcome under its fence.
LEMMA CommitOutcomeInv ==
    ASSUME IInv, NEW w \in Worker, NEW s \in Terminal, NEW next \in {"releasing", "failing"},
           CommitOutcome(w, s, next), faults' \in 0..MaxFaults
    PROVE  IInv'
<1> DEFINE p == worker[w].op
<1>0. p \in Op /\ ops[p] \in Row
  BY DEF IInv, TypeOK, ProcessInv, CommitOutcome, Busy, PC, Executing
<1>1. ops' = [ops EXCEPT ![p] = Ended(p, s)] /\ Ended(p, s) \in Row
  BY <1>0, RowShape DEF CommitOutcome
<1>2. ~staleWrite' /\ staleWrite' \in BOOLEAN
  <2>1. ~staleWrite'
    BY FenceFresh DEF IInv, StaleInv, CommitOutcome
  <2>2. staleWrite' \in BOOLEAN
    BY Zenon DEF CommitOutcome
  <2> QED
    BY <2>1, <2>2
<1>3. TypeOK'
  <2>1. ops' \in [Op -> Row]
    BY <1>0, <1>1 DEF IInv, TypeOK
  <2>2. worker' \in [Worker -> Process]
    BY ProcessShape DEF IInv, TypeOK, CommitOutcome, PC, Executing
  <2> QED
    BY <2>1, <2>2, <1>2, Zenon DEF IInv, TypeOK, CommitOutcome
<1>4. \A o \in Op : RowKept(o) \/ RowReleased(o)
  <2>1. RowReleased(p)
    BY <1>0, <1>1, Constants
       DEF IInv, TypeOK, CommitOutcome, FenceHolds, HoldsLease, Ended, Row, RowReleased, Terminal
  <2> QED
    BY <2>1, <1>1 DEF IInv, TypeOK, RowKept
<1>5. \A v \in Worker : ProcessKept(v) \/ ProcessReset(v)
  BY DEF IInv, TypeOK, CommitOutcome, ProcessKept, Busy, PC, Executing, Process
<1>6. LockInv'
  BY DEF IInv, TypeOK, LockInv, CommitOutcome, Executing, Process
<1> QED
  BY <1>2, <1>3, <1>4, <1>5, <1>6, SimpleStep DEF IInv

\* A run's outcome is committed whether or not the run hears of it.
LEMMA FinishInv ==
    ASSUME IInv, NEW w \in Worker, NEW s \in Terminal,
           Finish(w, s) \/ LoseFinishReply(w, s)
    PROVE  IInv'
<1>1. CASE Finish(w, s)
  BY <1>1, CommitOutcomeInv DEF Finish, IInv, TypeOK
<1>2. CASE LoseFinishReply(w, s)
  <2>1. faults' \in 0..MaxFaults
    BY <1>2, Constants DEF LoseFinishReply, Fault, IInv, TypeOK
  <2> QED
    BY <1>2, <2>1, CommitOutcomeInv DEF LoseFinishReply
<1> QED
  BY <1>1, <1>2

\* A run that failed requeues its operation within the budget, or fails it.
LEMMA PersistFailureInv ==
    ASSUME IInv, NEW w \in Worker, NEW d \in RetryAfter, PersistFailure(w, d)
    PROVE  IInv'
<1> DEFINE p == worker[w].op
           again == worker[w].retry /\ worker[w].attempt < MaxAttempts
           delay == Larger(Backoff[worker[w].attempt], d)
<1>0. /\ p \in Op
      /\ ops[p] \in Row
      /\ ops[p].attempt \in 0..MaxAttempts
      /\ worker[w].attempt \in 1..MaxAttempts
      /\ delay \in Nat
  <2>1. worker[w].attempt \in 1..MaxAttempts /\ p \in Op
    BY DEF IInv, ProcessInv, PersistFailure, Busy, PC, Executing
  <2>2. Backoff[worker[w].attempt] \in Nat /\ d \in Nat
    BY <2>1, Constants
  <2> QED
    BY <2>1, <2>2 DEF IInv, TypeOK, Row, Larger
<1>1. ops' \in [Op -> Row] /\ \A o \in Op : RowKept(o) \/ RowReleased(o)
  <2>1. CASE ~FenceHolds(w)
    BY <2>1 DEF IInv, TypeOK, PersistFailure, RowKept
  <2>2. CASE FenceHolds(w) /\ again
    <3>1. /\ ops' = [ops EXCEPT ![p] = Requeued(p, ops[p].attempt, delay)]
          /\ ops[p].attempt < MaxAttempts
      BY <1>0, <2>2, FenceFresh DEF PersistFailure
    <3>2. ops' \in [Op -> Row]
      BY <1>0, <3>1, RowShape DEF IInv, TypeOK
    <3>3. RowReleased(p)
      BY <1>0, <2>2, <3>1
         DEF IInv, TypeOK, FenceHolds, HoldsLease, Requeued, RowReleased, Terminal
    <3> QED
      BY <3>1, <3>2, <3>3 DEF IInv, TypeOK, RowKept
  <2>3. CASE FenceHolds(w) /\ ~again
    <3>1. ops' = [ops EXCEPT ![p] = Ended(p, "FAILED")] /\ Ended(p, "FAILED") \in Row
      BY <1>0, <2>3, RowShape DEF PersistFailure, Terminal
    <3>2. RowReleased(p)
      BY <1>0, <2>3, <3>1
         DEF IInv, TypeOK, FenceHolds, HoldsLease, Ended, Row, RowReleased, Terminal
    <3> QED
      BY <1>0, <3>1, <3>2 DEF IInv, TypeOK, RowKept
  <2> QED
    BY <2>1, <2>2, <2>3
<1>2. ~staleWrite' /\ staleWrite' \in BOOLEAN
  <2>1. ~staleWrite'
    BY FenceFresh DEF IInv, StaleInv, PersistFailure
  <2>2. staleWrite' \in BOOLEAN
    BY Zenon DEF PersistFailure
  <2> QED
    BY <2>1, <2>2
<1>3. TypeOK'
  <2>1. worker' \in [Worker -> Process]
    BY ProcessShape DEF IInv, TypeOK, PersistFailure, PC, Executing
  <2> QED
    BY <2>1, <1>1, <1>2, Zenon DEF IInv, TypeOK, PersistFailure
<1>4. \A v \in Worker : ProcessKept(v) \/ ProcessReset(v)
  BY DEF IInv, TypeOK, PersistFailure, ProcessKept, Busy, PC, Executing, Process
<1>5. LockInv'
  BY DEF IInv, TypeOK, LockInv, PersistFailure, Executing, Process
<1> QED
  BY <1>1, <1>2, <1>3, <1>4, <1>5, SimpleStep DEF IInv

\* The cleanup releases the expired rows and marks the runs that held them.
LEMMA CleanupInv ==
    ASSUME IInv, NEW w \in Worker, Cleanup(w)
    PROVE  IInv'
<1> DEFINE gone == {o \in Op : Expired(o)}
<1>1. \A o \in Op : ops'[o] = IF o \in gone THEN Recovered(o) ELSE ops[o]
  BY DEF Cleanup
<1>2. ASSUME NEW o \in gone
      PROVE  Recovered(o) \in Row /\ RowReleased(o)
  <2>1. ops[o] \in Row /\ ops[o].attempt \in 0..MaxAttempts
    BY DEF IInv, TypeOK, Row
  <2>2. Recovered(o) \in Row
    BY <2>1, RowShape, Constants DEF Recovered, Terminal
  <2>3. RowReleased(o)
    <3>1. ops'[o] = Recovered(o) /\ ops[o].status = "RUNNING" /\ ~RowLocked(o)
      BY <1>1 DEF Cleanup, Expired
    <3>2. CASE ops[o].attempt >= MaxAttempts
      BY <2>1, <3>1, <3>2 DEF Recovered, Ended, Row, RowReleased, Terminal
    <3>3. CASE ~(ops[o].attempt >= MaxAttempts)
      BY <2>1, <3>1, <3>3, Constants DEF Recovered, Requeued, RowReleased, Terminal
    <3> QED
      BY <3>2, <3>3
  <2> QED
    BY <2>2, <2>3
<1>3. TypeOK'
  <2>1. ops' \in [Op -> Row]
    BY <1>1, <1>2 DEF IInv, TypeOK, Cleanup
  <2>2. worker' \in [Worker -> Process]
    BY ProcessShape DEF IInv, TypeOK, Cleanup, Overtaken
  <2> QED
    BY <2>1, <2>2 DEF IInv, TypeOK, Cleanup
<1>4. \A o \in Op : RowKept(o) \/ RowReleased(o)
  BY <1>1, <1>2 DEF RowKept
<1>5. \A v \in Worker : ProcessKept(v) \/ ProcessReset(v)
  BY <1>2 DEF IInv, TypeOK, Cleanup, Overtaken, ProcessKept, ProcessReset, Busy, PC, Executing,
              Process, Idle
<1>6. ~staleWrite'
  BY DEF IInv, StaleInv, Cleanup
<1>7. LockInv'
  BY DEF IInv, TypeOK, LockInv, Cleanup, Overtaken, Idle, Executing, Process
<1> QED
  BY <1>3, <1>4, <1>5, <1>6, <1>7, SimpleStep DEF IInv

\* A new row is queued with no attempt and no owner.
LEMMA EnqueueInv ==
    ASSUME IInv, NEW o \in Op, Enqueue(o)
    PROVE  IInv'
<1>1. /\ ops' = [ops EXCEPT ![o] = [NoRow EXCEPT !.status = "QUEUED"]]
      /\ ops[o].status = "NONE"
      /\ worker' = worker /\ lock' = lock /\ staleWrite' = staleWrite
  BY DEF Enqueue
<1>2. TypeOK'
  BY <1>1, RowShape DEF IInv, TypeOK, Enqueue
<1>3. /\ ops'[o].status = "QUEUED"
      /\ ops'[o].owner = NoToken
      /\ ops'[o].attempt = 0
      /\ \A p \in Op \ {o} : ops'[p] = ops[p]
  BY <1>1 DEF IInv, TypeOK, NoRow
<1>4. RowInv'
  BY <1>3, Constants DEF IInv, RowInv, Terminal
<1>5. ProcessInv' /\ LockInv'
  BY <1>1 DEF IInv, ProcessInv, LockInv
<1>6. SelectInv'
  BY <1>1, <1>3, Constants, SMTT(20)
     DEF IInv, SelectInv, ProcessInv, Runnable, Expired, Busy, PC
<1>7. OwnerInv'
  BY <1>1, <1>3 DEF IInv, OwnerInv
<1>8. StaleInv'
  BY <1>1, <1>3, Constants DEF IInv, StaleInv, ProcessInv
<1> QED
  BY <1>2, <1>4, <1>5, <1>6, <1>7, <1>8 DEF IInv

\* Selecting locks a runnable row for a token nothing carries.
LEMMA SelectRowInv ==
    ASSUME IInv, NEW w \in Worker, NEW o \in Op, NEW t \in Token, Select(w, o, t)
    PROVE  IInv'
<1>1. /\ ops' = ops /\ lock' = lock /\ staleWrite' = staleWrite
      /\ \A v \in Worker \ {w} : worker'[v] = worker[v]
      /\ worker'[w].pc = "selected"
      /\ worker'[w].op = o
      /\ worker'[w].token = t
      /\ worker'[w].attempt = ops[o].attempt + 1
      /\ ~worker'[w].superseded
  BY DEF IInv, TypeOK, Select, Idle
<1>2. Runnable(o) /\ ~RowLocked(o) /\ ops[o].attempt + 1 \in 1..MaxAttempts
  <2>1. o \in Candidates
    BY DEF Select, FirstCandidates
  <2> QED
    BY <2>1, Constants DEF IInv, TypeOK, Candidates, Runnable, Row
<1>3. /\ \A p \in Op : ops[p].owner # t
      /\ \A v \in Worker : worker[v].token # t
  BY DEF Select, TokensInUse
<1>4. TypeOK'
  <2>1. [Idle EXCEPT !.pc = "selected", !.op = o, !.token = t,
                     !.attempt = ops[o].attempt + 1, !.ttl = LeaseTicks] \in Process
    <3> DEFINE a == ops[o].attempt + 1
    <3>1. a \in 0..MaxAttempts
      BY <1>2, Constants
    <3> HIDE DEF a
    <3>2. [Idle EXCEPT !.pc = "selected", !.op = o, !.token = t,
                       !.attempt = a, !.ttl = LeaseTicks] \in Process
      BY <3>1, Constants DEF Idle, Process, PC
    <3> QED
      BY <3>2 DEF a
  <2> QED
    BY <2>1 DEF IInv, TypeOK, Select
<1>5. RowInv'
  BY <1>1 DEF IInv, RowInv
<1>6. ProcessInv'
  BY <1>1, <1>2, <1>3 DEF IInv, ProcessInv, Busy, PC
<1>7. SelectInv'
  BY <1>1, <1>2, <1>3 DEF IInv, SelectInv, Runnable, Expired, RowLocked
<1>8. OwnerInv' /\ StaleInv'
  BY <1>1, <1>3 DEF IInv, OwnerInv, StaleInv
<1>9. LockInv'
  BY <1>1 DEF IInv, LockInv, Executing
<1> QED
  BY <1>4, <1>5, <1>6, <1>7, <1>8, <1>9 DEF IInv

\* Both outcomes of the acquiring transaction lease the row to a token no
\* other process carries; only the first leaves the process working on it.
LEMMA LeaseInv ==
    ASSUME IInv, NEW w \in Worker, CommitLease(w) \/ LoseLeaseReply(w)
    PROVE  IInv'
<1> DEFINE p == worker[w].op
<1>1. /\ worker[w].pc = "selected"
      /\ ops' = [ops EXCEPT ![p] = Leased(p, worker[w].token, worker[w].ttl)]
      /\ worker' = [v \in Worker |-> IF v = w THEN worker'[w] ELSE Overtaken(v, {p})]
      /\ lock' = lock /\ staleWrite' = staleWrite
  BY DEF CommitLease, LoseLeaseReply
<1>2. \/ worker'[w] = [worker[w] EXCEPT !.pc = "leased", !.ttl = 0]
      \/ worker'[w] = Idle
  BY DEF CommitLease, LoseLeaseReply
<1>3. /\ p \in Op
      /\ worker[w].token \in Token
      /\ worker[w].attempt \in 1..MaxAttempts
      /\ worker[w].attempt = ops[p].attempt + 1
      /\ ops[p].attempt < MaxAttempts
      /\ Runnable(p)
      /\ ~worker[w].superseded
      /\ \A o \in Op : ops[o].owner # worker[w].token
  BY <1>1 DEF IInv, ProcessInv, SelectInv, Runnable, Busy, PC
<1>4. /\ ops'[p].status = "RUNNING"
      /\ ops'[p].owner = worker[w].token
      /\ ops'[p].attempt = worker[w].attempt
      /\ \A o \in Op \ {p} : ops'[o] = ops[o]
  BY <1>1, <1>3 DEF IInv, TypeOK, Leased
<1>5. ASSUME NEW v \in Worker \ {w}
      PROVE  /\ worker'[v].pc = worker[v].pc
             /\ worker'[v].op = worker[v].op
             /\ worker'[v].token = worker[v].token
             /\ worker'[v].attempt = worker[v].attempt
             /\ worker'[v].unlocked = worker[v].unlocked
             /\ worker[v].op # p => worker'[v].superseded = worker[v].superseded
  <2>1. worker[v] \in Process /\ worker'[v] = Overtaken(v, {p})
    BY <1>1 DEF IInv, TypeOK
  <2> QED
    BY <2>1 DEF Overtaken, Process
<1>6. TypeOK'
  <2>1. ops' \in [Op -> Row]
    <3>1. worker[w].ttl \in Nat
      BY DEF IInv, TypeOK, Process
    <3>2. Leased(p, worker[w].token, worker[w].ttl) \in Row
      BY <1>3, <3>1, RowShape DEF IInv, TypeOK
    <3> QED
      BY <1>1, <1>3, <3>2 DEF IInv, TypeOK
  <2>2. worker' \in [Worker -> Process]
    <3>1. \A v \in Worker : worker[v] \in Process
      BY DEF IInv, TypeOK
    <3>2. worker'[w] \in Process
      BY <1>2, <3>1, ProcessShape
    <3>3. \A v \in Worker : Overtaken(v, {p}) \in Process
      BY <3>1, ProcessShape DEF Overtaken
    <3> QED
      BY <1>1, <3>2, <3>3, Zenon
  <2>3. faults' \in 0..MaxFaults
    BY Constants DEF IInv, TypeOK, CommitLease, LoseLeaseReply, Fault
  <2> QED
    BY <2>1, <2>2, <2>3 DEF IInv, TypeOK, CommitLease, LoseLeaseReply
<1>7. /\ worker'[w].token = NoToken \/ worker'[w].token = worker[w].token
      /\ ~worker'[w].superseded
      /\ worker'[w].pc \in {"leased", "idle"}
      /\ worker'[w].pc = "leased" => /\ worker'[w].op = p
                                     /\ worker'[w].token = worker[w].token
                                     /\ worker'[w].attempt = worker[w].attempt
      /\ worker'[w].pc = "idle" => worker'[w].op = 0 /\ worker'[w].token = NoToken
  <2>1. worker[w] \in Process
    BY DEF IInv, TypeOK
  <2>2. CASE worker'[w] = [worker[w] EXCEPT !.pc = "leased", !.ttl = 0]
    <3>1. /\ worker'[w].pc = "leased"
          /\ worker'[w].op = p
          /\ worker'[w].token = worker[w].token
          /\ worker'[w].attempt = worker[w].attempt
      BY <2>1, <2>2 DEF Process
    <3>2. worker'[w].superseded = worker[w].superseded
      BY <2>1, <2>2, Zenon DEF Process
    <3> QED
      BY <3>1, <3>2, <1>3
  <2>3. CASE worker'[w] = Idle
    BY <2>3 DEF Idle
  <2> QED
    BY <1>2, <2>2, <2>3
<1>8. RowInv'
  BY <1>3, <1>4 DEF IInv, RowInv, Terminal
<1>9. ProcessInv'
  <2>1. ASSUME NEW v \in Worker
        PROVE  IF worker'[v].pc \in Busy
               THEN /\ worker'[v].op \in Op
                    /\ worker'[v].token \in Token
                    /\ worker'[v].attempt \in 1..MaxAttempts
               ELSE worker'[v].op = 0 /\ worker'[v].token = NoToken
    BY <1>3, <1>5, <1>7 DEF IInv, ProcessInv, Busy, PC
  <2>2. ASSUME NEW u \in Worker, NEW v \in Worker,
               worker'[u].token = worker'[v].token, worker'[u].token # NoToken
        PROVE  u = v
    BY <2>2, <1>5, <1>7 DEF IInv, ProcessInv
  <2> QED
    BY <2>1, <2>2 DEF ProcessInv
<1>10. SelectInv'
  <2>1. ASSUME NEW v \in Worker, worker'[v].pc = "selected"
        PROVE  /\ v # w
               /\ worker[v].pc = "selected"
               /\ worker[v].op \in Op \ {p}
    <3>1. v # w
      BY <1>7, <2>1
    <3>2. worker[v].pc = "selected"
      BY <1>5, <2>1, <3>1
    <3>3. worker[v].op # p
      BY <1>1, <3>1, <3>2 DEF IInv, SelectInv
    <3>4. worker[v].op \in Op
      BY <3>2 DEF IInv, ProcessInv, Busy, PC
    <3> QED
      BY <3>1, <3>2, <3>3, <3>4
  <2>2. ASSUME NEW v \in Worker, worker'[v].pc = "selected"
        PROVE  /\ Runnable(worker[v].op)'
               /\ worker'[v].attempt = ops'[worker'[v].op].attempt + 1
               /\ ~worker'[v].superseded
               /\ \A o \in Op : ops'[o].owner # worker'[v].token
    <3> DEFINE q == worker[v].op
    <3>1. v # w /\ worker[v].pc = "selected" /\ q \in Op \ {p}
      BY <2>1, <2>2
    <3>2. /\ worker'[v].op = q
          /\ worker'[v].token = worker[v].token
          /\ worker'[v].attempt = worker[v].attempt
          /\ worker'[v].superseded = worker[v].superseded
          /\ ops'[q] = ops[q]
      BY <1>4, <1>5, <3>1
    <3>3. /\ Runnable(q)
          /\ worker[v].attempt = ops[q].attempt + 1
          /\ ~worker[v].superseded
          /\ \A o \in Op : ops[o].owner # worker[v].token
      BY <3>1 DEF IInv, SelectInv
    <3>4. Runnable(worker[v].op)'
      BY <3>2, <3>3 DEF Runnable, Expired
    <3>5. worker[v].token # worker[w].token
      BY <1>3, <3>1, Constants DEF IInv, ProcessInv
    <3>6. \A o \in Op : ops'[o].owner # worker'[v].token
      BY <1>4, <3>2, <3>3, <3>5
    <3> QED
      BY <3>2, <3>3, <3>4, <3>6
  <2>3. ASSUME NEW u \in Worker, NEW v \in Worker,
               worker'[u].pc = "selected", worker'[v].pc = "selected",
               worker'[u].op = worker'[v].op
        PROVE  u = v
    <3>1. /\ u # w /\ worker[u].pc = "selected"
          /\ v # w /\ worker[v].pc = "selected"
      BY <2>1, <2>3
    <3>2. worker[u].op = worker[v].op
      BY <1>5, <2>3, <3>1
    <3> QED
      BY <3>1, <3>2 DEF IInv, SelectInv
  <2> QED
    BY <2>2, <2>3 DEF SelectInv
<1>11. OwnerInv'
  <2> SUFFICES ASSUME NEW v \in Worker, NEW o \in Op,
                      worker'[v].token # NoToken, ops'[o].owner = worker'[v].token
               PROVE  o = worker'[v].op /\ ops'[o].attempt = worker'[v].attempt
    BY DEF OwnerInv
  <2>1. CASE v = w
    BY <2>1, <1>3, <1>4, <1>7
  <2>2. CASE v # w
    BY <2>2, <1>3, <1>4, <1>5 DEF IInv, ProcessInv, OwnerInv
  <2> QED
    BY <2>1, <2>2
<1>12. StaleInv'
  <2> SUFFICES ASSUME NEW v \in Worker, worker'[v].superseded
               PROVE  worker'[v].op \in Op /\ ops'[worker'[v].op].owner # worker'[v].token
    BY <1>1 DEF IInv, StaleInv
  <2>1. v # w
    BY <1>7
  <2>2. CASE worker[v].op = p
    BY <2>1, <2>2, <1>3, <1>4, <1>5, Constants DEF IInv, ProcessInv
  <2>3. CASE worker[v].op # p
    BY <2>1, <2>3, <1>4, <1>5 DEF IInv, StaleInv
  <2> QED
    BY <2>2, <2>3
<1>13. LockInv'
  BY <1>1, <1>5, <1>7 DEF IInv, LockInv, Executing
<1> QED
  BY <1>6, <1>8, <1>9, <1>10, <1>11, <1>12, <1>13 DEF IInv

-----------------------------------------------------------------------------
(* The invariant is inductive, and what follows from it.                   *)

\* Every step of the queue preserves the inductive invariant.
LEMMA NextInv == IInv /\ [Next]_vars => IInv'
<1> SUFFICES ASSUME IInv, [Next]_vars PROVE IInv'
  OBVIOUS
<1>1. ASSUME NEW o \in Op, Enqueue(o) PROVE IInv'
  BY <1>1, EnqueueInv
<1>2. ASSUME NEW w \in Worker, PollStep(w) PROVE IInv'
  BY <1>2, CleanupInv, SelectRowInv, NothingRunnableInv, LeaseInv, LockExecutionInv,
     DeferBusyInv, RecordErrorInv, PersistFailureInv, ReleaseLockInv DEF PollStep
<1>3. ASSUME NEW w \in Worker, RunEnds(w) PROVE IInv'
  BY <1>3, FinishInv, ThrowInv DEF RunEnds
<1>4. ASSUME NEW w \in Worker, RunStep(w) PROVE IInv'
  BY <1>4, SendBeatInv, WatchdogInv, ProgressInv, SaveChunkInv DEF RunStep
<1>5. ASSUME NEW w \in Worker, FaultStep(w) PROVE IInv'
  BY <1>5, LeaseInv, AbortSelectInv, FailLockInv, FinishInv, LoseFailureInv, LoseReleaseInv,
     CrashInv DEF FaultStep
<1>6. ASSUME NEW w \in Worker, Restart(w) PROVE IInv'
  BY <1>6, RestartInv
<1>7. ASSUME NEW b \in beats, DeliverBeat(b) \/ LoseBeat(b) PROVE IInv'
  BY <1>7, DeliverBeatInv, LoseBeatInv
<1>8. ASSUME NEW k \in Key, ReapSession(k) \/ DropSession(k) PROVE IInv'
  BY <1>8, ReapSessionInv, DropSessionInv
<1>9. CASE Tick
  BY <1>9, TickInv
<1>10. CASE UNCHANGED vars
  BY <1>10 DEF vars, IInv, TypeOK, RowInv, ProcessInv, SelectInv, OwnerInv, StaleInv,
               LockInv, Runnable, Expired
<1> QED
  BY <1>1, <1>2, <1>3, <1>4, <1>5, <1>6, <1>7, <1>8, <1>9, <1>10 DEF Next

\* The inductive invariant holds in every reachable state.
LEMMA Invariance == Spec => []IInv
BY InitInv, NextInv, PTL DEF Spec

\* Rows, processes, locks and heartbeats keep their shape, for every number
\* of operations, processes and attempts; in particular no path leaves an
\* attempt count outside 0..maxAttempts.
THEOREM TypeCorrect == Spec => []TypeOK
<1>1. IInv => TypeOK
  BY DEF IInv
<1> QED
  BY <1>1, Invariance, PTL

\* No operation is left in the queue with its attempts used up, where the
\* acquisition could never pick it and the store's later ORDER_SYNC
\* operations would wait behind it.
THEOREM QueueNeverPoisoned == Spec => []NoPoisonedHead
<1>1. IInv => NoPoisonedHead
  BY DEF IInv, RowInv, NoPoisonedHead
<1> QED
  BY <1>1, Invariance, PTL

\* The executors of one store and type never overlap, across processes,
\* lost leases and crashes, unless the session of a lock was cut.
THEOREM OneRunPerKey == Spec => []ExclusiveExecution
<1>1. IInv => ExclusiveExecution
  BY Constants DEF IInv, LockInv, ExclusiveExecution
<1> QED
  BY <1>1, Invariance, PTL

\* A run that lost its lease to a cleanup or to another acquisition never
\* commits a chunk, an outcome or a failure again.
THEOREM LateRunsNeverWrite == Spec => []NoStaleWrite
<1>1. IInv => NoStaleWrite
  BY DEF IInv, StaleInv, NoStaleWrite
<1> QED
  BY <1>1, Invariance, PTL

\* The row of a selected operation is not that of a finished one.
LEMMA LeasedRow ==
    ASSUME IInv, NEW w \in Worker, worker[w].pc = "selected"
    PROVE  ops[worker[w].op].status \notin Terminal
BY DEF IInv, SelectInv, Runnable, Expired, Terminal

\* No step touches the row of a finished operation.
LEMMA TerminalStep ==
    ASSUME IInv, [Next]_vars, NEW o \in Op, ops[o].status \in Terminal
    PROVE  ops'[o] = ops[o]
<1>1. /\ ops[o] \in Row
      /\ ops[o].status \notin {"NONE", "QUEUED", "RUNNING"}
      /\ ops[o].lease = 0
      /\ ops[o].delay = 0
      /\ ops \in [Op -> Row]
  BY DEF IInv, TypeOK, RowInv, Terminal
<1>2. ASSUME NEW p \in Op, Enqueue(p) PROVE ops'[o] = ops[o]
  BY <1>1, <1>2 DEF Enqueue
<1>3. ASSUME NEW w \in Worker, PollStep(w) PROVE ops'[o] = ops[o]
  <2>1. CASE Cleanup(w)
    BY <1>1, <2>1 DEF Cleanup, Expired
  <2>2. CASE CommitLease(w)
    BY <1>1, <2>2, LeasedRow DEF CommitLease
  <2>3. CASE DeferBusy(w)
    BY <1>1, <2>3 DEF DeferBusy, HoldsLease
  <2>4. CASE RecordError(w)
    BY <1>1, <2>4 DEF RecordError, HoldsLease
  <2>5. ASSUME NEW d \in RetryAfter, PersistFailure(w, d) PROVE ops'[o] = ops[o]
    <3>1. CASE FenceHolds(w)
      BY <1>1, <2>5, <3>1 DEF PersistFailure, FenceHolds, HoldsLease
    <3>2. CASE ~FenceHolds(w)
      BY <2>5, <3>2 DEF PersistFailure
    <3> QED
      BY <3>1, <3>2
  <2> QED
    BY <1>3, <2>1, <2>2, <2>3, <2>4, <2>5
       DEF PollStep, Select, NothingRunnable, LockExecution, ReleaseLock
<1>4. ASSUME NEW w \in Worker, NEW s \in Terminal, NEW next \in {"releasing", "failing"},
             CommitOutcome(w, s, next)
      PROVE  ops'[o] = ops[o]
  BY <1>1, <1>4 DEF CommitOutcome, FenceHolds, HoldsLease
<1>5. ASSUME NEW w \in Worker, RunEnds(w) PROVE ops'[o] = ops[o]
  BY <1>4, <1>5 DEF RunEnds, Finish, Throw
<1>6. ASSUME NEW w \in Worker, RunStep(w) PROVE ops'[o] = ops[o]
  BY <1>1, <1>6 DEF RunStep, SendBeat, Watchdog, Progress, SaveChunk, HoldsLease
<1>7. ASSUME NEW w \in Worker, FaultStep(w) PROVE ops'[o] = ops[o]
  <2>1. CASE LoseLeaseReply(w)
    BY <1>1, <2>1, LeasedRow DEF LoseLeaseReply
  <2> QED
    BY <1>4, <1>7, <2>1 DEF FaultStep, AbortSelect, FailLock, LoseFinishReply, LoseFailure, LoseRelease, Crash
<1>8. ASSUME NEW b \in beats, DeliverBeat(b) \/ LoseBeat(b) PROVE ops'[o] = ops[o]
  BY <1>1, <1>8 DEF DeliverBeat, LoseBeat, HoldsLease
<1>9. CASE Tick
  <2>1. ops'[o] = [ops[o] EXCEPT !.lease = 0, !.delay = 0]
    BY <1>1, <1>9 DEF Tick, Less
  <2> QED
    BY <1>1, <2>1 DEF Row
<1>10. CASE UNCHANGED vars
  BY <1>10 DEF vars
<1> QED
  BY <1>2, <1>3, <1>5, <1>6, <1>7, <1>8, <1>9, <1>10
     DEF Next, Restart, ReapSession, DropSession

\* Once SUCCEEDED or FAILED an operation's row never changes again, whatever
\* heartbeat, deferral, cleanup or late verdict still reaches it.
THEOREM FinishedIsFinal == Spec => TerminalIsFinal
<1>1. IInv /\ [Next]_vars =>
        [\A o \in Op : ops[o].status \in Terminal => ops'[o] = ops[o]]_vars
  BY TerminalStep
<1> QED
  BY <1>1, Invariance, PTL DEF Spec, TerminalIsFinal

-----------------------------------------------------------------------------
(* The rows implement the life of an operation.                            *)

\* What a step may do to a row.
RowLives(o) ==
    LET r == ops[o]
        q == ops'[o]
    IN  \/ /\ q.status = r.status
           /\ q.attempt = r.attempt
           /\ r.status = "RUNNING" => (q.lease = 0 <=> r.lease = 0)
        \/ r.status = "NONE" /\ q.status = "QUEUED" /\ q.attempt = 0
        \/ Runnable(o) /\ q.status = "RUNNING" /\ q.attempt = r.attempt + 1
        \/ Live(o) /\ q.status = "QUEUED" /\ q.attempt = r.attempt - 1
        \/ /\ Live(o)
           /\ q.status \in {"RUNNING", Recovered(o).status} \cup Terminal
           /\ q.attempt = r.attempt
        \/ /\ Expired(o)
           /\ q.status = Recovered(o).status
           /\ q.attempt = r.attempt

\* Every step lets every row live.
LEMMA RowsLive ==
    ASSUME IInv, [Next]_vars, NEW o \in Op
    PROVE  RowLives(o)
<1>1. ops \in [Op -> Row] /\ ops[o] \in Row
  BY DEF IInv, TypeOK
<1>2. ASSUME ops' = ops PROVE RowLives(o)
  BY <1>2 DEF RowLives
<1>3. ASSUME NEW p \in Op, NEW q, ops' = [ops EXCEPT ![p] = q], o # p
      PROVE  RowLives(o)
  BY <1>1, <1>3 DEF RowLives
<1>4. ASSUME NEW p \in Op, Enqueue(p) PROVE RowLives(o)
  BY <1>1, <1>4 DEF Enqueue, NoRow, RowLives
<1>5. ASSUME NEW w \in Worker, worker[w].pc = "selected",
             ops' = [ops EXCEPT ![worker[w].op] =
                       Leased(worker[w].op, worker[w].token, worker[w].ttl)]
      PROVE  RowLives(o)
  <2>1. worker[w].op \in Op /\ Runnable(worker[w].op)
    BY <1>5 DEF IInv, ProcessInv, SelectInv, Busy, PC
  <2>2. CASE o = worker[w].op
    BY <1>1, <1>5, <2>1, <2>2 DEF Leased, RowLives
  <2> QED
    BY <1>1, <1>5, <2>1, <2>2 DEF RowLives
<1>6. ASSUME NEW p \in Op, NEW n, Live(p), ops' = [ops EXCEPT ![p].lease = n]
      PROVE  RowLives(o)
  BY <1>1, <1>6 DEF Row, Live, RowLives
<1>7. ASSUME NEW w \in Worker, PollStep(w) PROVE RowLives(o)
  <2>1. CASE Cleanup(w)
    <3>1. CASE Expired(o)
      BY <1>1, <2>1, <3>1 DEF Cleanup, Recovered, Ended, Requeued, Row, RowLives
    <3>2. CASE ~Expired(o)
      BY <1>1, <2>1, <3>2 DEF Cleanup, RowLives
    <3> QED
      BY <3>1, <3>2
  <2>2. CASE CommitLease(w)
    BY <1>5, <2>2 DEF CommitLease
  <2>3. CASE DeferBusy(w)
    <3>1. CASE HoldsLease(worker[w].op, worker[w].token)
      <4>1. Live(worker[w].op) /\ worker[w].op \in Op
        BY <2>3, <3>1 DEF DeferBusy, HoldsLease, Live, IInv, ProcessInv, Busy, PC
      <4> QED
        BY <1>1, <2>3, <3>1, <4>1 DEF DeferBusy, Requeued, RowLives
    <3> QED
      BY <1>2, <2>3, <3>1 DEF DeferBusy
  <2>4. CASE RecordError(w)
    <3>1. CASE HoldsLease(worker[w].op, worker[w].token)
      <4>1. Live(worker[w].op) /\ worker[w].op \in Op
        BY <2>4, <3>1 DEF RecordError, HoldsLease, Live, IInv, ProcessInv, Busy, PC, Executing
      <4> QED
        BY <1>6, <2>4, <3>1, <4>1 DEF RecordError
    <3> QED
      BY <1>2, <2>4, <3>1 DEF RecordError
  <2>5. ASSUME NEW d \in RetryAfter, PersistFailure(w, d) PROVE RowLives(o)
    <3>1. CASE FenceHolds(w)
      <4> DEFINE p == worker[w].op
      <4>1. Live(p) /\ p \in Op /\ ops[p].attempt = worker[w].attempt
        <5>1. worker[w].pc = "failed" /\ HoldsLease(p, worker[w].token)
          BY <2>5, <3>1 DEF PersistFailure, FenceHolds
        <5>2. p \in Op /\ worker[w].token # NoToken
          <6>1. worker[w].pc \in Busy
            BY <5>1 DEF Busy, PC, Executing
          <6>2. p \in Op /\ worker[w].token \in Token
            BY <6>1 DEF IInv, ProcessInv
          <6> QED
            BY <6>2, Constants
        <5> QED
          BY <5>1, <5>2 DEF HoldsLease, Live, IInv, OwnerInv
      <4>2. CASE o = p
        <5>1. \/ ops'[o].status = "QUEUED" /\ ops[o].attempt < MaxAttempts
              \/ ops'[o].status = "FAILED"
          BY <1>1, <2>5, <3>1, <4>1, <4>2 DEF PersistFailure, Requeued, Ended, Row
        <5>2. ops'[o].attempt = ops[o].attempt
          BY <1>1, <2>5, <3>1, <4>1, <4>2 DEF PersistFailure, Requeued, Ended, Row
        <5>3. ops[o].attempt < MaxAttempts => Recovered(o).status = "QUEUED"
          BY <1>1, Constants DEF Recovered, Requeued, Row
        <5> QED
          BY <4>1, <4>2, <5>1, <5>2, <5>3 DEF RowLives, Terminal
      <4>3. CASE o # p
        BY <1>1, <2>5, <3>1, <4>1, <4>3 DEF PersistFailure, RowLives
      <4> QED
        BY <4>2, <4>3
    <3>2. CASE ~FenceHolds(w)
      BY <1>2, <2>5, <3>2 DEF PersistFailure
    <3> QED
      BY <3>1, <3>2
  <2> QED
    BY <1>2, <1>7, <2>1, <2>2, <2>3, <2>4, <2>5
       DEF PollStep, Select, NothingRunnable, LockExecution, ReleaseLock
<1>8. ASSUME NEW w \in Worker, NEW s \in Terminal, NEW next \in {"releasing", "failing"},
             CommitOutcome(w, s, next)
      PROVE  RowLives(o)
  <2>1. Live(worker[w].op) /\ worker[w].op \in Op
    BY <1>8 DEF CommitOutcome, FenceHolds, HoldsLease, Live, IInv, ProcessInv, Busy, PC,
                Executing
  <2>2. CASE o = worker[w].op
    BY <1>1, <1>8, <2>1, <2>2 DEF CommitOutcome, Ended, Row, RowLives
  <2> QED
    BY <1>1, <1>8, <2>1, <2>2 DEF CommitOutcome, RowLives
<1>9. ASSUME NEW w \in Worker, RunEnds(w) PROVE RowLives(o)
  BY <1>2, <1>8, <1>9 DEF RunEnds, Finish, Throw
<1>10. ASSUME NEW w \in Worker, RunStep(w) PROVE RowLives(o)
  <2>1. CASE Progress(w)
    <3>1. Live(worker[w].op) /\ worker[w].op \in Op
      BY <2>1 DEF Progress, HoldsLease, Live, IInv, ProcessInv, Busy, PC, Executing
    <3> QED
      BY <1>6, <2>1, <3>1 DEF Progress
  <2> QED
    BY <1>2, <1>10, <2>1 DEF RunStep, SendBeat, Watchdog, SaveChunk
<1>11. ASSUME NEW w \in Worker, FaultStep(w) PROVE RowLives(o)
  <2>1. CASE LoseLeaseReply(w)
    BY <1>5, <2>1 DEF LoseLeaseReply
  <2> QED
    BY <1>2, <1>8, <1>11, <2>1
       DEF FaultStep, AbortSelect, FailLock, LoseFinishReply, LoseFailure, LoseRelease, Crash
<1>12. ASSUME NEW b \in beats, DeliverBeat(b) \/ LoseBeat(b) PROVE RowLives(o)
  <2>1. CASE DeliverBeat(b) /\ HoldsLease(b.op, b.token)
    <3>1. Live(b.op) /\ b.op \in Op
      BY <2>1 DEF HoldsLease, Live, IInv, TypeOK, Beat
    <3> QED
      BY <1>6, <2>1, <3>1 DEF DeliverBeat
  <2> QED
    BY <1>2, <1>12, <2>1 DEF DeliverBeat, LoseBeat
<1>13. CASE Tick
  <2>1. ops'[o] = [ops[o] EXCEPT !.lease = Less(@), !.delay = Less(@)]
    BY <1>1, <1>13 DEF Tick
  <2>2. /\ ops'[o].status = ops[o].status
        /\ ops'[o].attempt = ops[o].attempt
        /\ ops[o].lease = 0 => ops'[o].lease = 0
    BY <1>1, <2>1 DEF Less, Row
  <2>3. ops[o].status = "RUNNING" /\ ops[o].lease # 0 => Live(o)
    BY <1>1 DEF Live, Row
  <2> QED
    BY <2>2, <2>3 DEF RowLives
<1>14. CASE UNCHANGED vars
  BY <1>2, <1>14 DEF vars
<1> QED
  BY <1>2, <1>4, <1>7, <1>9, <1>10, <1>11, <1>12, <1>13, <1>14
     DEF Next, Restart, ReapSession, DropSession

\* A row that lives takes the steps of the life of its operation.
LEMMA LivesAsPromised ==
    ASSUME IInv, IInv', NEW o \in Op, RowLives(o)
    PROVE  \/ Life!Admit(o) \/ Life!Start(o) \/ Life!GiveBack(o)
           \/ Life!Stop(o) \/ Life!Rest(o)
<1> DEFINE r == ops[o]
           q == ops'[o]
           Seen(x) == IF x.status = "RUNNING" /\ x.lease = 0
                      THEN IF x.attempt >= MaxAttempts THEN "FAILED" ELSE "QUEUED"
                      ELSE x.status
<1>1. r \in Row /\ q \in Row
  BY DEF IInv, TypeOK
<1>2. /\ LifeAttempt[o] = r.attempt /\ LifeAttempt'[o] = q.attempt
      /\ r.attempt \in Nat /\ q.attempt \in Nat
      /\ r.lease \in Nat /\ q.lease \in Nat
  BY <1>1, Constants DEF LifeAttempt, Row
<1>3. /\ Recovered(o).status = IF r.attempt >= MaxAttempts THEN "FAILED" ELSE "QUEUED"
      /\ Recovered(o)'.status = IF q.attempt >= MaxAttempts THEN "FAILED" ELSE "QUEUED"
  BY <1>1 DEF Recovered, Ended, Requeued, Row
<1>4. LifeStatus[o] = Seen(r) /\ LifeStatus'[o] = Seen(q)
  BY <1>3 DEF LifeStatus, Settled, Expired
<1>5. \A n \in Nat : Life!After(n) = IF n >= MaxAttempts THEN "FAILED" ELSE "QUEUED"
  BY Constants DEF Life!After
<1>6. CASE /\ q.status = r.status
           /\ q.attempt = r.attempt
           /\ r.status = "RUNNING" => (q.lease = 0 <=> r.lease = 0)
  <2>1. Seen(q) = Seen(r)
    BY <1>6
  <2> QED
    BY <1>2, <1>4, <1>6, <2>1 DEF Life!Rest, Life!To
<1>7. CASE r.status = "NONE" /\ q.status = "QUEUED" /\ q.attempt = 0
  BY <1>2, <1>4, <1>7 DEF Life!Admit, Life!To
<1>8. CASE Runnable(o) /\ q.status = "RUNNING" /\ q.attempt = r.attempt + 1
  <2>1. Seen(r) = "QUEUED" /\ r.attempt < MaxAttempts
    BY <1>2, <1>8, Constants DEF Runnable, Expired
  <2>2. Seen(q) \in {"RUNNING", Life!After(q.attempt)}
    BY <1>2, <1>5, <1>8
  <2> QED
    BY <1>2, <1>4, <1>8, <2>1, <2>2 DEF Life!Start, Life!To
<1>9. CASE Live(o) /\ q.status = "QUEUED" /\ q.attempt = r.attempt - 1
  BY <1>2, <1>4, <1>9 DEF Live, Life!GiveBack, Life!To
<1>10. CASE /\ Live(o)
            /\ q.status \in {"RUNNING", Recovered(o).status} \cup Terminal
            /\ q.attempt = r.attempt
  <2>1. Seen(r) = "RUNNING"
    BY <1>2, <1>10 DEF Live
  <2>2. Seen(q) \in {"RUNNING", Life!After(r.attempt)} \cup Terminal
    BY <1>2, <1>3, <1>5, <1>10 DEF Terminal
  <2> QED
    BY <1>2, <1>4, <1>10, <2>1, <2>2
       DEF Life!Stop, Life!Rest, Life!To, Life!Terminal, Terminal
<1>11. CASE /\ Expired(o)
            /\ q.status = Recovered(o).status
            /\ q.attempt = r.attempt
  <2>1. Seen(q) = Seen(r)
    BY <1>2, <1>3, <1>11 DEF Expired
  <2> QED
    BY <1>2, <1>4, <1>11, <2>1 DEF Life!Rest, Life!To
<1> QED
  BY <1>6, <1>7, <1>8, <1>9, <1>10, <1>11 DEF RowLives

\* With any number of processes, whatever is taken over, delayed, lost or
\* crashes, the rows implement the life of an operation that OperationLife
\* promises: started within its attempts, waiting while one is left, ended
\* once.
THEOREM QueueKeepsOperationsAlive == Spec => OperationsLive
<1>1. Init => Life!Init
  <2> SUFFICES ASSUME Init, NEW o \in Op
               PROVE  LifeStatus[o] = "NONE" /\ LifeAttempt[o] = 0
    BY DEF Life!Init
  <2> QED
    BY DEF Init, NoRow, LifeStatus, LifeAttempt, Settled, Expired
<1>2. IInv /\ [Next]_vars => Life!Step
  BY NextInv, RowsLive, LivesAsPromised DEF Life!Step
<1> QED
  BY <1>1, <1>2, Invariance, PTL DEF Spec, OperationsLive, Life!Spec

-----------------------------------------------------------------------------
(* The budget of attempts. A process that has leased an operation and not  *)
(* begun it yet owes a run, and its lease took an attempt.                 *)

Owing(o) == {w \in Worker : worker[w].pc = "leased" /\ worker[w].op = o}

Budget(o) == runs[o] + Cardinality(Owing(o)) <= ops[o].attempt

BudgetInv ==
    \A o \in Op : Budget(o) /\ (ops[o].status = "NONE" => ops[o].attempt = 0)

\* The processes that owe a run are finitely many.
LEMMA OwingFinite ==
    ASSUME NEW o \in Op
    PROVE  /\ IsFiniteSet(Owing(o)) /\ Cardinality(Owing(o)) \in Nat
           /\ IsFiniteSet(Owing(o)') /\ Cardinality(Owing(o)') \in Nat
<1>1. Owing(o) \subseteq Worker /\ Owing(o)' \subseteq Worker
  BY DEF Owing
<1> QED
  BY <1>1, WorkerAssumption, FS_Subset, FS_CardinalityType

\* No other process begins to owe a run of o, and no attempt is given back.
BudgetKept(o) ==
    /\ runs'[o] = runs[o]
    /\ ops'[o].attempt = ops[o].attempt
    /\ \A v \in Worker : worker'[v].pc = "leased" =>
            worker[v].pc = "leased" /\ worker'[v].op = worker[v].op
    /\ ops[o].status # "NONE" => ops'[o].status # "NONE"

\* What is kept in this way stays within the budget.
LEMMA KeptBudget ==
    ASSUME IInv, TypeOK', BudgetInv, NEW o \in Op, BudgetKept(o)
    PROVE  Budget(o)' /\ (ops'[o].status = "NONE" => ops'[o].attempt = 0)
<1>1. Owing(o)' \subseteq Owing(o)
  BY DEF BudgetKept, Owing
<1>2. Cardinality(Owing(o)') <= Cardinality(Owing(o))
  BY <1>1, OwingFinite, FS_Subset
<1> QED
  BY <1>2, OwingFinite DEF BudgetKept, BudgetInv, Budget, IInv, TypeOK, Row

\* Every step but a lease, the start of a run and a deferral keeps the budget
\* of an operation that has been asked for.
LEMMA OtherStepsKeep ==
    ASSUME IInv, Next, NEW o \in Op
    PROVE  \/ BudgetKept(o)
           \/ Enqueue(o)
           \/ \E w \in Worker : \/ CommitLease(w) \/ LoseLeaseReply(w)
                               \/ LockExecution(w) \/ DeferBusy(w)
<1> USE DEF IInv, TypeOK, Row, Process, BudgetKept
<1>1. ASSUME NEW p \in Op, Enqueue(p) PROVE BudgetKept(o) \/ Enqueue(o)
  BY <1>1 DEF Enqueue
<1>2. ASSUME NEW w \in Worker, Cleanup(w) PROVE BudgetKept(o)
  <2>1. \A v \in Worker : worker'[v].pc = "leased" =>
            worker[v].pc = "leased" /\ worker'[v].op = worker[v].op
    BY <1>2 DEF Cleanup, Overtaken, Idle
  <2>2. /\ ops'[o].attempt = ops[o].attempt
        /\ ops[o].status # "NONE" => ops'[o].status # "NONE"
    <3>1. ops'[o] = ops[o] \/ ops'[o] = Recovered(o)
      BY <1>2 DEF Cleanup
    <3>2. Recovered(o).attempt = ops[o].attempt /\ Recovered(o).status \in {"FAILED", "QUEUED"}
      BY DEF Recovered, Ended, Requeued
    <3> QED
      BY <3>1, <3>2
  <2> QED
    BY <1>2, <2>1, <2>2 DEF Cleanup
<1>3. ASSUME NEW w \in Worker, NEW p \in Op, NEW t \in Token, Select(w, p, t) PROVE BudgetKept(o)
  BY <1>3 DEF Select, Idle
<1>4. ASSUME NEW w \in Worker, NothingRunnable(w) \/ AbortSelect(w) \/ FailLock(w) \/ Restart(w)
                               \/ ReleaseLock(w) \/ LoseRelease(w) \/ Crash(w)
      PROVE BudgetKept(o)
  <2>1. /\ worker' = [worker EXCEPT ![w] = Idle] \/ worker' = [worker EXCEPT ![w] = [Idle EXCEPT !.pc = "down"]]
        /\ UNCHANGED <<ops, runs>>
    BY <1>4 DEF NothingRunnable, AbortSelect, FailLock, Restart, ReleaseLock, LoseRelease, Crash
  <2>2. \A v \in Worker : v # w => worker'[v] = worker[v]
    BY <2>1
  <2>3. worker'[w].pc # "leased"
    BY <2>1 DEF Idle
  <2> QED
    BY <2>1, <2>2, <2>3
<1>5. ASSUME NEW w \in Worker, RecordError(w) PROVE BudgetKept(o)
  BY <1>5 DEF RecordError, HoldsLease
<1>6. ASSUME NEW w \in Worker, NEW d \in RetryAfter, PersistFailure(w, d) PROVE BudgetKept(o)
  BY <1>6 DEF PersistFailure, FenceHolds, HoldsLease, Requeued, Ended
<1>7. ASSUME NEW w \in Worker, NEW s \in Terminal, NEW next \in {"releasing", "failing"},
             CommitOutcome(w, s, next)
      PROVE  BudgetKept(o)
  BY <1>7 DEF CommitOutcome, FenceHolds, HoldsLease, Ended, Terminal
<1>8. ASSUME NEW w \in Worker, NEW r \in BOOLEAN, Throw(w, r) PROVE BudgetKept(o)
  BY <1>8 DEF Throw
<1>9. ASSUME NEW w \in Worker, SendBeat(w) \/ Watchdog(w) \/ SaveChunk(w) \/ LoseFailure(w)
      PROVE  BudgetKept(o)
  <2>1. CASE SendBeat(w) \/ SaveChunk(w)
    BY <2>1 DEF SendBeat, SaveChunk
  <2>2. CASE Watchdog(w)
    BY <2>2 DEF Watchdog
  <2>3. CASE LoseFailure(w)
    BY <2>3 DEF LoseFailure
  <2> QED
    BY <1>9, <2>1, <2>2, <2>3
<1>10. ASSUME NEW w \in Worker, Progress(w) PROVE BudgetKept(o)
  BY <1>10 DEF Progress, HoldsLease
<1>11. ASSUME NEW b \in beats, DeliverBeat(b) PROVE BudgetKept(o)
  <2>1. CASE HoldsLease(b.op, b.token)
    BY <1>11, <2>1 DEF DeliverBeat, HoldsLease
  <2>2. CASE ~HoldsLease(b.op, b.token)
    BY <1>11, <2>2 DEF DeliverBeat, Aborting
  <2> QED
    BY <2>1, <2>2
<1>12. ASSUME NEW b \in beats, LoseBeat(b) PROVE BudgetKept(o)
  BY <1>12 DEF LoseBeat, Aborting
<1>13. ASSUME NEW k \in Key, ReapSession(k) \/ DropSession(k) PROVE BudgetKept(o)
  <2>1. CASE ReapSession(k)
    BY <2>1 DEF ReapSession
  <2>2. CASE DropSession(k)
    BY <2>2 DEF DropSession
  <2> QED
    BY <1>13, <2>1, <2>2
<1>14. CASE Tick
  <2>1. \A v \in Worker : worker'[v].pc = worker[v].pc /\ worker'[v].op = worker[v].op
    BY <1>14 DEF Tick
  <2>2. ops'[o].attempt = ops[o].attempt /\ ops'[o].status = ops[o].status
    BY <1>14 DEF Tick
  <2> QED
    BY <1>14, <2>1, <2>2 DEF Tick
<1> QED
  BY <1>1, <1>2, <1>3, <1>4, <1>5, <1>6, <1>7, <1>8, <1>9, <1>10, <1>11, <1>12, <1>13, <1>14
     DEF Next, PollStep, RunEnds, RunStep, FaultStep, Finish, LoseFinishReply

\* A process that had leased o no longer owes its run.
LEMMA OneOwesLess ==
    ASSUME NEW o \in Op, NEW w \in Owing(o), Owing(o)' \subseteq Owing(o) \ {w}
    PROVE  Cardinality(Owing(o)') + 1 <= Cardinality(Owing(o))
<1>1. IsFiniteSet(Owing(o) \ {w}) /\ Cardinality(Owing(o) \ {w}) = Cardinality(Owing(o)) - 1
  BY OwingFinite, FS_RemoveElement
<1>2. Cardinality(Owing(o)') <= Cardinality(Owing(o) \ {w})
  BY <1>1, FS_Subset
<1> QED
  BY <1>1, <1>2, OwingFinite

\* Every step keeps the budget of every operation.
LEMMA StepBudget == IInv /\ IInv' /\ BudgetInv /\ Next => BudgetInv'
<1> SUFFICES ASSUME IInv, IInv', BudgetInv, Next, NEW o \in Op
             PROVE  Budget(o)' /\ (ops'[o].status = "NONE" => ops'[o].attempt = 0)
  BY DEF BudgetInv
<1> DEFINE Goal == Budget(o)' /\ (ops'[o].status = "NONE" => ops'[o].attempt = 0)
<1>0. /\ runs[o] \in Nat
      /\ runs[o] + Cardinality(Owing(o)) <= ops[o].attempt
      /\ ops[o].status = "NONE" => ops[o].attempt = 0
      /\ ops[o].attempt \in Nat
      /\ IsFiniteSet(Owing(o)) /\ Cardinality(Owing(o)) \in Nat
      /\ IsFiniteSet(Owing(o)') /\ Cardinality(Owing(o)') \in Nat
  BY OwingFinite DEF BudgetInv, Budget, IInv, TypeOK, Row
<1>1. CASE BudgetKept(o)
  BY <1>1, KeptBudget DEF IInv
<1>2. CASE Enqueue(o)
  <2>1. ops'[o].attempt = 0 /\ ops'[o].status = "QUEUED" /\ ops[o].attempt = 0
    BY <1>0, <1>2 DEF Enqueue, NoRow, IInv, TypeOK
  <2>2. Owing(o)' = Owing(o) /\ runs' = runs
    BY <1>2 DEF Enqueue, Owing
  <2> QED
    BY <1>0, <2>1, <2>2 DEF Budget
<1>3. ASSUME NEW w \in Worker, CommitLease(w) \/ LoseLeaseReply(w) PROVE Goal
  <2>1. /\ worker[w].pc = "selected"
        /\ ops' = [ops EXCEPT ![worker[w].op] =
                      Leased(worker[w].op, worker[w].token, worker[w].ttl)]
        /\ runs' = runs
    BY <1>3 DEF CommitLease, LoseLeaseReply
  <2>2. \A v \in Worker : v # w =>
            worker'[v].pc = worker[v].pc /\ worker'[v].op = worker[v].op
    BY <1>3 DEF CommitLease, LoseLeaseReply, Overtaken, IInv, TypeOK, Process
  <2>3. CASE o # worker[w].op
    <3>0. worker'[w].pc = "leased" => worker'[w].op = worker[w].op
      <4>1. worker'[w] = Idle \/ worker'[w] = [worker[w] EXCEPT !.pc = "leased", !.ttl = 0]
        BY <1>3 DEF CommitLease, LoseLeaseReply
      <4>2. worker[w] \in Process
        BY DEF IInv, TypeOK
      <4> QED
        <5>1. Idle.pc # "leased"
          BY DEF Idle
        <5>2. \A r \in Process : [r EXCEPT !.pc = "leased", !.ttl = 0].op = r.op
          BY DEF Process
        <5> QED
          BY <4>1, <4>2, <5>1, <5>2
    <3>1. Owing(o)' \subseteq Owing(o)
      BY <2>2, <2>3, <3>0 DEF Owing
    <3>2. Cardinality(Owing(o)') <= Cardinality(Owing(o))
      BY <1>0, <3>1, FS_Subset
    <3> QED
      BY <1>0, <2>1, <2>3, <3>2 DEF Budget, IInv, TypeOK
  <2>4. CASE o = worker[w].op
    <3>1. ops'[o].attempt = ops[o].attempt + 1 /\ ops'[o].status = "RUNNING"
      BY <2>1, <2>4 DEF Leased, IInv, TypeOK
    <3>2. Owing(o)' \subseteq Owing(o) \cup {w}
      BY <2>2 DEF Owing
    <3>3. /\ IsFiniteSet(Owing(o) \cup {w})
          /\ Cardinality(Owing(o) \cup {w}) <= Cardinality(Owing(o)) + 1
      <4>1. /\ IsFiniteSet(Owing(o) \cup {w})
            /\ Cardinality(Owing(o) \cup {w}) =
                 IF w \in Owing(o) THEN Cardinality(Owing(o)) ELSE Cardinality(Owing(o)) + 1
        BY <1>0, FS_AddElement, Zenon
      <4> QED
        BY <1>0, <4>1
    <3>4. Cardinality(Owing(o) \cup {w}) \in Nat
      BY <3>3, FS_CardinalityType
    <3>5. Cardinality(Owing(o)') <= Cardinality(Owing(o) \cup {w})
      BY <3>2, <3>3, FS_Subset
    <3> QED
      BY <1>0, <2>1, <3>1, <3>3, <3>4, <3>5 DEF Budget
  <2> QED
    BY <2>3, <2>4
<1>4. ASSUME NEW w \in Worker, LockExecution(w) PROVE Goal
  <2>1. /\ worker[w].pc = "leased"
        /\ ops' = ops
        /\ runs' = [runs EXCEPT ![worker[w].op] = @ + 1]
        /\ worker' = [worker EXCEPT ![w].pc = "running"]
    BY <1>4 DEF LockExecution
  <2>2. Owing(o)' \subseteq Owing(o) \ {w}
    BY <2>1 DEF Owing, IInv, TypeOK, Process
  <2>3. CASE o # worker[w].op
    <3>1. Cardinality(Owing(o)') <= Cardinality(Owing(o))
      BY <1>0, <2>2, FS_Subset
    <3> QED
      BY <1>0, <2>1, <2>3, <3>1 DEF Budget, IInv, TypeOK
  <2>4. CASE o = worker[w].op
    <3>1. Cardinality(Owing(o)') + 1 <= Cardinality(Owing(o))
      BY <2>1, <2>2, <2>4, OneOwesLess DEF Owing
    <3>2. runs'[o] = runs[o] + 1
      BY <2>1, <2>4 DEF IInv, TypeOK
    <3> QED
      BY <1>0, <2>1, <3>1, <3>2 DEF Budget
  <2> QED
    BY <2>3, <2>4
<1>5. ASSUME NEW w \in Worker, DeferBusy(w) PROVE Goal
  <2>1. /\ worker[w].pc = "leased"
        /\ worker' = [worker EXCEPT ![w] = Idle]
        /\ runs' = runs
    BY <1>5 DEF DeferBusy
  <2>2. Owing(o)' \subseteq Owing(o) \ {w}
    BY <2>1 DEF Owing, Idle, IInv, TypeOK
  <2>3. Cardinality(Owing(o)') <= Cardinality(Owing(o))
    BY <1>0, <2>2, FS_Subset
  <2>4. CASE ops'[o] = ops[o]
    BY <1>0, <2>1, <2>3, <2>4 DEF Budget
  <2>5. CASE o = worker[w].op /\ HoldsLease(o, worker[w].token)
             /\ ops'[o] = Requeued(o, ops[o].attempt - 1, BusyTicks)
    <3>1. ops'[o].attempt = ops[o].attempt - 1 /\ ops'[o].status = "QUEUED"
      BY <2>5 DEF Requeued
    <3>2. Cardinality(Owing(o)') + 1 <= Cardinality(Owing(o))
      BY <2>1, <2>2, <2>5, OneOwesLess DEF Owing
    <3> QED
      BY <1>0, <2>1, <3>1, <3>2 DEF Budget
  <2> QED
    BY <1>5, <2>4, <2>5 DEF DeferBusy, IInv, TypeOK
<1> QED
  BY <1>1, <1>2, <1>3, <1>4, <1>5, OtherStepsKeep

\* However leases expire, are handed over, deferred because the lock was busy
\* or left by a crash, the executor of an operation is never begun more often
\* than maxAttempts.
THEOREM AttemptsAreBounded == Spec => []AttemptBudget
<1>1. Init => BudgetInv
  <2> SUFFICES ASSUME Init, NEW o \in Op
               PROVE  Budget(o) /\ (ops[o].status = "NONE" => ops[o].attempt = 0)
    BY DEF BudgetInv
  <2>1. Owing(o) = {}
    BY DEF Init, Owing, Idle
  <2> QED
    BY <2>1, FS_EmptySet DEF Init, NoRow, Budget
<1>2. IInv /\ IInv' /\ BudgetInv /\ [Next]_vars => BudgetInv'
  <2>1. BudgetInv /\ UNCHANGED vars => BudgetInv'
    BY DEF BudgetInv, Budget, Owing, vars
  <2> QED
    BY <2>1, StepBudget
<1>3. IInv /\ BudgetInv => AttemptBudget
  <2> SUFFICES ASSUME IInv, BudgetInv, NEW o \in Op PROVE runs[o] <= MaxAttempts
    BY DEF AttemptBudget
  <2>1. Cardinality(Owing(o)) \in Nat
    BY OwingFinite
  <2> QED
    BY <2>1, Constants DEF BudgetInv, Budget, IInv, TypeOK, Row
<1> QED
  BY <1>1, <1>2, <1>3, Invariance, PTL DEF Spec

-----------------------------------------------------------------------------
(* One process. The operations of a key have their turns: an operation is   *)
(* chosen in one step and leased in another, and nothing that could come    *)
(* between them takes its turn.                                             *)

Alone == \A v, w \in Worker : v = w

\* A row that runs, or will be queued again by the next cleanup.
Active(o) == ops[o].status = "RUNNING" /\ (ops[o].lease > 0 \/ ops[o].attempt < MaxAttempts)

Waits(o) == ops[o].status = "QUEUED"

Known(o) == ops[o].status # "NONE"

\* Rows appear in order.
KnownInv == \A o, p \in Op : p < o /\ Known(o) => Known(p)

\* Of the operations of a key one is active, and none that it had to wait
\* for is queued.
ActiveInv ==
    \A o \in Op : Active(o) =>
        /\ \A p \in SameKey(o) : ~Active(p)
        /\ \A p \in AskedBefore[o] : ~Waits(p)

\* Nor does any other take the turn of the one that is selected.
ChosenInv ==
    \A w \in Worker : worker[w].pc = "selected" =>
        /\ \A p \in SameKey(worker[w].op) : ~Active(p)
        /\ \A p \in AskedBefore[worker[w].op] : ~Waits(p)

\* Synchronisations that were asked for before the one that saved last are over.
WriterInv ==
    \A k \in Key : lastWriter[k] # 0 =>
        /\ lastWriter[k] \in SyncOp /\ KeyOf[lastWriter[k]] = k
        /\ \A p \in AskedBefore[lastWriter[k]] : Known(p) /\ ~Waits(p) /\ ~Active(p)

TurnInv == KnownInv /\ ActiveInv /\ ChosenInv /\ WriterInv

LEMMA BeforeIs ==
    ASSUME NEW o \in Op, NEW p
    PROVE  /\ p \in SameKey(o) <=> p \in Op /\ p # o /\ KeyOf[p] = KeyOf[o]
           /\ p \in AskedBefore[o] <=> p \in SameKey(o) /\ o \in SyncOp /\ p < o
BY DEF SameKey, AskedBefore

\* A row that is not known appears by being asked for.
LEMMA Appears ==
    ASSUME IInv, [Next]_vars, NEW o \in Op, ~Known(o), Known(o)'
    PROVE  Enqueue(o)
<1> SUFFICES ASSUME ~Enqueue(o) PROVE ops'[o].status = "NONE"
  BY DEF Known
<1>1. ops \in [Op -> Row] /\ ops[o].status = "NONE"
  BY DEF IInv, TypeOK, Known
<1>2. ASSUME NEW p \in Op, Enqueue(p) PROVE ops'[o].status = "NONE"
  BY <1>1, <1>2 DEF Enqueue
<1>3. ASSUME NEW w \in Worker, worker[w].pc = "selected" PROVE worker[w].op # o
  BY <1>1, <1>3 DEF IInv, SelectInv, Runnable, Expired
<1>4. ASSUME NEW w \in Worker, PollStep(w) PROVE ops'[o].status = "NONE"
  <2>1. CASE Cleanup(w)
    BY <1>1, <2>1 DEF Cleanup, Expired
  <2>2. CASE CommitLease(w)
    BY <1>1, <1>3, <2>2 DEF CommitLease
  <2>3. CASE DeferBusy(w)
    BY <1>1, <2>3 DEF DeferBusy, HoldsLease
  <2>4. CASE RecordError(w)
    BY <1>1, <2>4 DEF RecordError, HoldsLease
  <2>5. ASSUME NEW d \in RetryAfter, PersistFailure(w, d) PROVE ops'[o].status = "NONE"
    <3>1. CASE FenceHolds(w)
      BY <1>1, <2>5, <3>1 DEF PersistFailure, FenceHolds, HoldsLease
    <3>2. CASE ~FenceHolds(w)
      BY <1>1, <2>5, <3>2 DEF PersistFailure
    <3> QED
      BY <3>1, <3>2
  <2> QED
    BY <1>1, <1>4, <2>1, <2>2, <2>3, <2>4, <2>5
       DEF PollStep, Select, NothingRunnable, LockExecution, ReleaseLock
<1>5. ASSUME NEW w \in Worker, NEW s \in Terminal, NEW next \in {"releasing", "failing"},
             CommitOutcome(w, s, next)
      PROVE  ops'[o].status = "NONE"
  BY <1>1, <1>5 DEF CommitOutcome, FenceHolds, HoldsLease
<1>6. ASSUME NEW w \in Worker, RunEnds(w) PROVE ops'[o].status = "NONE"
  BY <1>1, <1>5, <1>6 DEF RunEnds, Finish, Throw
<1>7. ASSUME NEW w \in Worker, RunStep(w) PROVE ops'[o].status = "NONE"
  BY <1>1, <1>7 DEF RunStep, SendBeat, Watchdog, Progress, SaveChunk, HoldsLease
<1>8. ASSUME NEW w \in Worker, FaultStep(w) PROVE ops'[o].status = "NONE"
  <2>1. CASE LoseLeaseReply(w)
    BY <1>1, <1>3, <2>1 DEF LoseLeaseReply
  <2> QED
    BY <1>1, <1>5, <1>8, <2>1 DEF FaultStep, AbortSelect, FailLock, LoseFinishReply, LoseFailure, LoseRelease, Crash
<1>9. ASSUME NEW b \in beats, DeliverBeat(b) \/ LoseBeat(b) PROVE ops'[o].status = "NONE"
  BY <1>1, <1>9 DEF DeliverBeat, LoseBeat, HoldsLease
<1>10. CASE Tick
  BY <1>1, <1>10 DEF Tick, Row
<1>11. CASE UNCHANGED vars
  BY <1>1, <1>11 DEF vars
<1> QED
  BY <1>1, <1>2, <1>4, <1>6, <1>7, <1>8, <1>9, <1>10, <1>11
     DEF Next, Restart, ReapSession, DropSession

\* The attempt of a row is counted up by the lease of its selection.
LEMMA StartsWhenSelected ==
    ASSUME IInv, [Next]_vars, NEW o \in Op, ops'[o].attempt > ops[o].attempt
    PROVE  \E w \in Worker : /\ worker[w].pc = "selected" /\ worker[w].op = o
                             /\ worker'[w].pc # "selected"
<1>1. ops \in [Op -> Row] /\ ops[o].attempt \in Nat
  BY DEF IInv, TypeOK, Row
<1>2. Next
  BY <1>1 DEF vars
<1>3. CASE BudgetKept(o)
  BY <1>1, <1>3 DEF BudgetKept
<1>4. CASE Enqueue(o)
  BY <1>1, <1>4 DEF Enqueue, NoRow
<1>5. ASSUME NEW w \in Worker, CommitLease(w) \/ LoseLeaseReply(w)
      PROVE  worker[w].pc = "selected" /\ worker[w].op = o /\ worker'[w].pc # "selected"
  <2>1. worker[w].pc = "selected" /\ worker[w] \in Process /\ worker \in [Worker -> Process]
    BY <1>5 DEF CommitLease, LoseLeaseReply, IInv, TypeOK
  <2>2. worker[w].op = o
    BY <1>1, <1>5 DEF CommitLease, LoseLeaseReply
  <2>3. worker'[w] = Idle \/ worker'[w] = [worker[w] EXCEPT !.pc = "leased", !.ttl = 0]
    BY <1>5 DEF CommitLease, LoseLeaseReply
  <2>4. worker'[w].pc # "selected"
    <3>1. Idle.pc # "selected"
      BY DEF Idle
    <3>2. [worker[w] EXCEPT !.pc = "leased", !.ttl = 0].pc # "selected"
      BY <2>1 DEF Process
    <3> QED
      BY <2>3, <3>1, <3>2
  <2> QED
    BY <2>1, <2>2, <2>4
<1>6. ASSUME NEW w \in Worker, LockExecution(w) \/ DeferBusy(w) PROVE FALSE
  <2>1. \/ ops'[o].attempt = ops[o].attempt
        \/ ops'[o].attempt = ops[o].attempt - 1
    BY <1>1, <1>6 DEF LockExecution, DeferBusy, Requeued
  <2> QED
    BY <1>1, <2>1
<1> QED
  BY <1>2, <1>3, <1>4, <1>5, <1>6, OtherStepsKeep

\* What becomes of a row.
LEMMA TurnOfRow ==
    ASSUME IInv, [Next]_vars, NEW o \in Op
    PROVE  /\ Active(o)' => Active(o) \/ ops'[o].attempt > ops[o].attempt
           /\ Waits(o)' => Waits(o) \/ Active(o) \/ ~Known(o)
           /\ Known(o) => Known(o)'
           /\ ops'[o].attempt > ops[o].attempt => Known(o)
<1>1. ops[o] \in Row /\ ops[o].attempt \in Nat /\ ops[o].lease \in Nat
  BY DEF IInv, TypeOK, Row
<1>2. RowLives(o)
  BY RowsLive
<1>3. Recovered(o).status = IF ops[o].attempt >= MaxAttempts THEN "FAILED" ELSE "QUEUED"
  BY <1>1 DEF Recovered, Ended, Requeued, Row
<1>4. ops'[o] \in Row
  BY NextInv DEF IInv, TypeOK
<1>5. ops'[o].attempt \in Nat /\ ops'[o].lease \in Nat /\ ops[o].status \in Status
  BY <1>1, <1>4 DEF Row
<1>6. MaxAttempts \in Nat
  BY Constants
<1> QED
  BY <1>1, <1>2, <1>3, <1>5, <1>6
     DEF RowLives, Active, Waits, Known, Runnable, Expired, Live, Terminal, Status

\* A process has an operation selected only as long as it was chosen.
LEMMA StaysChosen ==
    ASSUME IInv, [Next]_vars, NEW w \in Worker, worker'[w].pc = "selected"
    PROVE  \/ worker[w].pc = "selected" /\ worker'[w].op = worker[w].op
           \/ \E o \in Op, t \in Token : Select(w, o, t)
<1> DEFINE Stayed == worker[w].pc = "selected" /\ worker'[w].op = worker[w].op
<1> USE DEF IInv, TypeOK, Row, Process
<1>1. ASSUME NEW v \in Worker, Cleanup(v) PROVE Stayed
  BY <1>1 DEF Cleanup, Overtaken, Idle
<1>2. ASSUME NEW v \in Worker, v # w, NEW o \in Op, NEW t \in Token, Select(v, o, t) PROVE Stayed
  BY <1>2 DEF Select
<1>3. ASSUME NEW v \in Worker, CommitLease(v) PROVE Stayed
  BY <1>3 DEF CommitLease, Overtaken
<1>4. ASSUME NEW v \in Worker, LoseLeaseReply(v) PROVE Stayed
  BY <1>4 DEF LoseLeaseReply, Overtaken, Idle
<1>5. ASSUME NEW v \in Worker, NothingRunnable(v) \/ AbortSelect(v) \/ FailLock(v) \/ Restart(v)
                               \/ ReleaseLock(v) \/ LoseRelease(v) \/ Crash(v)
                               \/ DeferBusy(v)
      PROVE Stayed
  <2>1. worker' = [worker EXCEPT ![v] = Idle] \/ worker' = [worker EXCEPT ![v] = [Idle EXCEPT !.pc = "down"]]
    BY <1>5 DEF NothingRunnable, AbortSelect, FailLock, Restart, ReleaseLock, LoseRelease, Crash, DeferBusy
  <2>2. v # w => worker'[w] = worker[w]
    BY <2>1
  <2>3. worker'[v].pc # "selected"
    BY <2>1 DEF Idle
  <2> QED
    BY <2>2, <2>3
<1>6. ASSUME NEW v \in Worker, NEW c, c # "selected",
             \/ worker' = [worker EXCEPT ![v].pc = c]
             \/ \E r \in BOOLEAN : worker' = [worker EXCEPT ![v].pc = c, ![v].retry = r]
      PROVE  Stayed
  <2>1. worker'[w].pc = (IF v = w THEN c ELSE worker[w].pc) /\ worker'[w].op = worker[w].op
    <3>1. CASE worker' = [worker EXCEPT ![v].pc = c]
      BY <3>1
    <3>2. ASSUME NEW r \in BOOLEAN, worker' = [worker EXCEPT ![v].pc = c, ![v].retry = r]
          PROVE  worker'[w].pc = (IF v = w THEN c ELSE worker[w].pc) /\ worker'[w].op = worker[w].op
      BY <3>2
    <3> QED
      BY <1>6, <3>1, <3>2
  <2> QED
    BY <1>6, <2>1
<1>7. ASSUME NEW v \in Worker, LockExecution(v) PROVE Stayed
  BY <1>6, <1>7 DEF LockExecution
<1>8. ASSUME NEW v \in Worker, RecordError(v) PROVE Stayed
  BY <1>6, <1>8 DEF RecordError
<1>9. ASSUME NEW v \in Worker, NEW d \in RetryAfter, PersistFailure(v, d) PROVE Stayed
  BY <1>6, <1>9 DEF PersistFailure
<1>10. ASSUME NEW v \in Worker, NEW s \in Terminal, NEW next \in {"releasing", "failing"},
             CommitOutcome(v, s, next)
      PROVE  Stayed
  BY <1>6, <1>10 DEF CommitOutcome
<1>11. ASSUME NEW v \in Worker, NEW r \in BOOLEAN, Throw(v, r) PROVE Stayed
  BY <1>6, <1>11 DEF Throw
<1>12. ASSUME NEW v \in Worker, SendBeat(v) \/ Watchdog(v) \/ SaveChunk(v) \/ Progress(v) PROVE Stayed
  <2>1. CASE SendBeat(v) \/ SaveChunk(v) \/ Progress(v)
    BY <2>1 DEF SendBeat, SaveChunk, Progress
  <2>2. CASE Watchdog(v)
    BY <2>2 DEF Watchdog
  <2> QED
    BY <1>12, <2>1, <2>2
<1>13. ASSUME NEW v \in Worker, LoseFailure(v) PROVE Stayed
  BY <1>6, <1>13 DEF LoseFailure
<1>14. ASSUME NEW b \in beats, DeliverBeat(b) \/ LoseBeat(b) PROVE Stayed
  <2>1. worker' = worker \/ worker' = Aborting(b.token)
    BY <1>14 DEF DeliverBeat, LoseBeat
  <2> QED
    BY <2>1 DEF Aborting
<1>15. ASSUME NEW k \in Key, ReapSession(k) \/ DropSession(k) PROVE Stayed
  <2>1. CASE ReapSession(k)
    BY <2>1 DEF ReapSession
  <2>2. CASE DropSession(k)
    BY <2>2 DEF DropSession
  <2> QED
    BY <1>15, <2>1, <2>2
<1>16. CASE Tick
  BY <1>16 DEF Tick
<1>17. ASSUME NEW o \in Op, Enqueue(o) PROVE Stayed
  BY <1>17 DEF Enqueue
<1>18. CASE UNCHANGED vars
  BY <1>18 DEF vars
<1> HIDE DEF Stayed
<1>19. ASSUME NEW v \in Worker, PollStep(v)
       PROVE  Stayed \/ \E o \in Op, t \in Token : Select(w, o, t)
  <2>1. ASSUME NEW o \in Op, NEW t \in Token, Select(v, o, t)
        PROVE  Stayed \/ Select(w, o, t)
    BY <1>2, <2>1
  <2> QED
    BY <1>1, <1>3, <1>5, <1>7, <1>8, <1>9, <1>19, <2>1 DEF PollStep
<1>20. ASSUME NEW v \in Worker, RunEnds(v) \/ RunStep(v) \/ FaultStep(v) PROVE Stayed
  BY <1>4, <1>5, <1>10, <1>11, <1>12, <1>13, <1>20 DEF RunEnds, RunStep, FaultStep, Finish, LoseFinishReply
<1> QED
  BY <1>5, <1>14, <1>15, <1>16, <1>17, <1>18, <1>19, <1>20 DEF Next, Stayed

\* The operation that a single process chooses has its turn. An expired lease
\* of the same key that will be queued again would be chosen before it.
LEMMA ChosenInTurn ==
    ASSUME Alone, IInv, TurnInv, NEW w \in Worker, NEW o \in Op, NEW t \in Token, Select(w, o, t)
    PROVE  /\ \A p \in SameKey(o) : ~Active(p)
           /\ \A p \in AskedBefore[o] : ~Waits(p)
<1>1. /\ worker[w].pc = "cleaned"
      /\ o \in FirstCandidates
      /\ o \in Candidates
      /\ Runnable(o)
      /\ \A p \in Op : ~Blocks(p, o)
  BY DEF Select, FirstCandidates, Candidates
<1>2. \A p \in Op : ~RowLocked(p)
  BY <1>1 DEF Alone, RowLocked
<1>3. ASSUME NEW p \in SameKey(o), Active(p) PROVE FALSE
  <2>1. p \in Op /\ p # o /\ KeyOf[p] = KeyOf[o]
    BY <1>3, BeforeIs
  <2>2. ops[p] \in Row /\ ops[o] \in Row
    BY <2>1 DEF IInv, TypeOK
  <2>3. Expired(p) /\ Runnable(p)
    <3>1. ~Live(p)
      BY <1>1, <2>1 DEF Blocks
    <3> QED
      BY <1>3, <2>2, <3>1 DEF Active, Live, Expired, Runnable, Row
  <2>4. ASSUME NEW q \in Op, Blocks(q, p) PROVE FALSE
    <3>1. q # p /\ KeyOf[q] = KeyOf[p]
      BY <2>4 DEF Blocks
    <3>2. CASE Live(q)
      <4>1. q # o
        BY <1>1, <2>2, <3>2 DEF Live, Runnable, Expired, Row
      <4> QED
        BY <1>1, <2>1, <3>1, <3>2, <4>1 DEF Blocks
    <3>3. CASE p \in SyncOp /\ Waits(q) /\ q < p
      <4>1. q \in AskedBefore[p]
        BY <2>1, <3>1, <3>3, BeforeIs
      <4> QED
        BY <1>3, <2>1, <3>3, <4>1 DEF TurnInv, ActiveInv
    <3> QED
      BY <2>4, <3>2, <3>3 DEF Blocks, Waits
  <2>5. p \in Candidates
    BY <1>2, <2>1, <2>3, <2>4 DEF Candidates
  <2>6. Expired(o)
    BY <1>1, <2>3, <2>5 DEF FirstCandidates
  <2>7. Active(o)
    BY <1>1, <2>6 DEF Expired, Runnable, Active
  <2> QED
    BY <1>3, <2>7 DEF TurnInv, ActiveInv
<1>4. ASSUME NEW p \in AskedBefore[o] PROVE ~Waits(p)
  <2>1. p \in Op /\ p # o /\ KeyOf[p] = KeyOf[o] /\ o \in SyncOp /\ p < o
    BY <1>4, BeforeIs
  <2> QED
    BY <1>1, <2>1 DEF Blocks, Waits
<1> QED
  BY <1>3, <1>4

\* An attempt of an operation starts when all before it are over and none
\* beside it is active.
LEMMA StartsInTurn ==
    ASSUME IInv, TurnInv, [Next]_vars, NEW o \in Op, ops'[o].attempt > ops[o].attempt
    PROVE  /\ \A p \in SameKey(o) : ~Active(p)
           /\ \A p \in AskedBefore[o] : ~Waits(p)
BY StartsWhenSelected DEF TurnInv, ChosenInv

\* With one process no two operations start at once.
LEMMA StartsAlone ==
    ASSUME Alone, IInv, [Next]_vars, NEW o \in Op, NEW p \in Op,
           ops'[o].attempt > ops[o].attempt, ops'[p].attempt > ops[p].attempt
    PROVE  o = p
<1>1. PICK v \in Worker : worker[v].op = o
  BY StartsWhenSelected
<1>2. PICK w \in Worker : worker[w].op = p
  BY StartsWhenSelected
<1> QED
  BY <1>1, <1>2 DEF Alone

LEMMA KnownStep == IInv /\ KnownInv /\ [Next]_vars => KnownInv'
<1> SUFFICES ASSUME IInv, KnownInv, [Next]_vars, NEW o \in Op, NEW p \in Op, p < o, Known(o)'
             PROVE  Known(p)'
  BY DEF KnownInv
<1>1. Known(p)
  <2>1. CASE Known(o)
    BY <2>1 DEF KnownInv
  <2>2. CASE ~Known(o)
    BY <2>2, Appears DEF Enqueue, Known
  <2> QED
    BY <2>1, <2>2
<1> QED
  BY <1>1, TurnOfRow

LEMMA ActiveStep == Alone /\ IInv /\ TurnInv /\ [Next]_vars => ActiveInv'
<1> SUFFICES ASSUME Alone, IInv, TurnInv, [Next]_vars, NEW o \in Op, Active(o)'
             PROVE  /\ \A p \in SameKey(o) : ~Active(p)'
                    /\ \A p \in AskedBefore[o] : ~Waits(p)'
  BY DEF ActiveInv, SameKey, AskedBefore
<1> DEFINE Began(x) == ops'[x].attempt > ops[x].attempt
<1>1. Active(o) \/ Began(o)
  BY TurnOfRow
<1>2. /\ \A p \in SameKey(o) : ~Active(p)
      /\ \A p \in AskedBefore[o] : ~Waits(p)
  BY <1>1, StartsInTurn DEF TurnInv, ActiveInv
<1>3. Known(o)
  BY <1>1, TurnOfRow DEF Active, Known
<1>4. ASSUME NEW p \in SameKey(o) PROVE ~Active(p)'
  <2>1. p \in Op /\ p # o /\ o \in SameKey(p)
    BY <1>4, BeforeIs
  <2>2. ~Began(p)
    <3>1. Began(p) => ~Active(o)
      BY <2>1, StartsInTurn
    <3>2. Began(p) => ~Began(o)
      BY <2>1, StartsAlone
    <3> QED
      BY <1>1, <3>1, <3>2
  <2> QED
    BY <1>2, <1>4, <2>1, <2>2, TurnOfRow
<1>5. ASSUME NEW p \in AskedBefore[o] PROVE ~Waits(p)'
  <2>1. p \in SameKey(o) /\ p \in Op /\ p < o
    BY <1>5, BeforeIs
  <2>2. Known(p)
    BY <1>3, <2>1 DEF TurnInv, KnownInv
  <2> QED
    BY <1>2, <1>5, <2>1, <2>2, TurnOfRow
<1> QED
  BY <1>4, <1>5

LEMMA ChosenStep == Alone /\ IInv /\ TurnInv /\ [Next]_vars => ChosenInv'
<1> SUFFICES ASSUME Alone, IInv, TurnInv, [Next]_vars, NEW w \in Worker, worker'[w].pc = "selected"
             PROVE  /\ \A p \in SameKey(worker'[w].op) : ~Active(p)'
                    /\ \A p \in AskedBefore[worker'[w].op] : ~Waits(p)'
  BY DEF ChosenInv, SameKey, AskedBefore
<1>1. CASE worker[w].pc = "selected" /\ worker'[w].op = worker[w].op
  <2> DEFINE o == worker[w].op
  <2>1. o \in Op /\ Known(o)
    BY <1>1 DEF IInv, ProcessInv, SelectInv, Busy, PC, Runnable, Expired, Known
  <2>2. /\ \A p \in SameKey(o) : ~Active(p)
        /\ \A p \in AskedBefore[o] : ~Waits(p)
    BY <1>1 DEF TurnInv, ChosenInv
  <2>3. \A p \in Op : ~(ops'[p].attempt > ops[p].attempt)
    <3> SUFFICES ASSUME NEW p \in Op, ops'[p].attempt > ops[p].attempt PROVE FALSE
      OBVIOUS
    <3>1. PICK v \in Worker : worker'[v].pc # "selected"
      BY StartsWhenSelected
    <3> QED
      BY <3>1 DEF Alone
  <2>4. ASSUME NEW p \in SameKey(o) PROVE ~Active(p)'
    <3>1. p \in Op
      BY <2>1, <2>4, BeforeIs
    <3> QED
      BY <2>2, <2>3, <2>4, <3>1, TurnOfRow
  <2>5. ASSUME NEW p \in AskedBefore[o] PROVE ~Waits(p)'
    <3>1. p \in SameKey(o) /\ p \in Op /\ p < o
      BY <2>1, <2>5, BeforeIs
    <3>2. Known(p)
      BY <2>1, <3>1 DEF TurnInv, KnownInv
    <3> QED
      BY <2>2, <2>5, <3>1, <3>2, TurnOfRow
  <2> QED
    BY <1>1, <2>4, <2>5
<1>2. ASSUME NEW o \in Op, NEW t \in Token, Select(w, o, t)
      PROVE  /\ \A p \in SameKey(worker'[w].op) : ~Active(p)'
             /\ \A p \in AskedBefore[worker'[w].op] : ~Waits(p)'
  <2>1. /\ \A p \in SameKey(o) : ~Active(p)
        /\ \A p \in AskedBefore[o] : ~Waits(p)
    BY <1>2, ChosenInTurn
  <2>2. worker'[w].op = o /\ ops' = ops
    BY <1>2 DEF Select, Idle, IInv, TypeOK
  <2> QED
    BY <2>1, <2>2 DEF Active, Waits
<1> QED
  BY <1>1, <1>2, StaysChosen

\* A synchronisation saves while it is active: those before it are over.
LEMMA SavesWhenActive ==
    ASSUME IInv, NEW w \in Worker, SaveChunk(w)
    PROVE  worker[w].op \in SyncOp /\ worker[w].op \in Op /\ Active(worker[w].op)
<1>1. worker[w].op \in SyncOp /\ worker[w].op \in Op
  BY Constants, KeyAssumption DEF SaveChunk
<1> QED
  BY <1>1 DEF SaveChunk, FenceHolds, HoldsLease, Active

LEMMA Saving ==
    ASSUME IInv, [Next]_vars
    PROVE  lastWriter' = lastWriter \/ \E w \in Worker : SaveChunk(w)
<1>1. ASSUME NEW w \in Worker, PollStep(w) \/ RunEnds(w) \/ FaultStep(w) \/ Restart(w)
      PROVE  lastWriter' = lastWriter
  BY <1>1 DEF PollStep, Cleanup, Select, NothingRunnable, CommitLease, LockExecution, DeferBusy,
       RecordError, PersistFailure, ReleaseLock, RunEnds, Finish, CommitOutcome, Throw, FaultStep,
       LoseLeaseReply, AbortSelect, FailLock, LoseFinishReply, LoseFailure, LoseRelease, Crash,
       Restart
<1>2. ASSUME NEW w \in Worker, RunStep(w), ~SaveChunk(w) PROVE lastWriter' = lastWriter
  BY <1>2 DEF RunStep, SendBeat, Watchdog, Progress
<1> QED
  BY <1>1, <1>2 DEF Next, vars, Enqueue, DeliverBeat, LoseBeat, ReapSession, DropSession, Tick

LEMMA WriterStep == Alone /\ IInv /\ TurnInv /\ [Next]_vars => WriterInv'
<1> SUFFICES ASSUME Alone, IInv, TurnInv, [Next]_vars, NEW k \in Key, lastWriter'[k] # 0
             PROVE  /\ lastWriter'[k] \in SyncOp /\ KeyOf[lastWriter'[k]] = k
                    /\ \A p \in AskedBefore[lastWriter'[k]] : Known(p)' /\ ~Waits(p)' /\ ~Active(p)'
  BY DEF WriterInv, AskedBefore, SameKey
<1>1. ASSUME NEW o \in Op, \A p \in AskedBefore[o] : Known(p) /\ ~Waits(p) /\ ~Active(p),
             NEW p \in AskedBefore[o]
      PROVE  Known(p)' /\ ~Waits(p)' /\ ~Active(p)'
  <2>1. p \in Op /\ Known(p) /\ ~Waits(p) /\ ~Active(p)
    BY <1>1, BeforeIs
  <2>2. ~(ops'[p].attempt > ops[p].attempt)
    <3> SUFFICES ASSUME ops'[p].attempt > ops[p].attempt PROVE FALSE
      OBVIOUS
    <3>1. PICK w \in Worker : worker[w].pc = "selected" /\ worker[w].op = p
      BY <2>1, StartsWhenSelected
    <3>2. Runnable(p)
      BY <3>1 DEF IInv, SelectInv
    <3> QED
      BY <2>1, <3>2 DEF Runnable, Expired, Active, Waits
  <2> QED
    BY <2>1, <2>2, TurnOfRow
<1>2. SyncOp \subseteq Op
  BY KeyAssumption
<1>3. CASE lastWriter'[k] = lastWriter[k]
  BY <1>1, <1>2, <1>3 DEF TurnInv, WriterInv
<1>4. ASSUME NEW w \in Worker, SaveChunk(w), lastWriter'[k] # lastWriter[k]
      PROVE  /\ lastWriter'[k] \in SyncOp /\ KeyOf[lastWriter'[k]] = k
             /\ \A p \in AskedBefore[lastWriter'[k]] : Known(p)' /\ ~Waits(p)' /\ ~Active(p)'
  <2> DEFINE o == worker[w].op
  <2>1. o \in SyncOp /\ o \in Op /\ Active(o)
    BY <1>4, SavesWhenActive
  <2>2. lastWriter'[k] = o /\ KeyOf[o] = k
    BY <1>4 DEF SaveChunk, IInv, TypeOK
  <2>3. ASSUME NEW p \in AskedBefore[o] PROVE Known(p) /\ ~Waits(p) /\ ~Active(p)
    <3>1. p \in SameKey(o) /\ p \in Op /\ p < o
      BY <2>1, <2>3, BeforeIs
    <3>2. Known(o)
      BY <2>1 DEF Active, Known
    <3> QED
      BY <2>1, <2>3, <3>1, <3>2 DEF TurnInv, KnownInv, ActiveInv
  <2> QED
    BY <1>1, <2>1, <2>2, <2>3
<1> QED
  BY <1>3, <1>4, Saving

LEMMA TurnIsKept == Spec => (Alone => []TurnInv)
<1> SUFFICES ASSUME Alone PROVE Spec => []TurnInv
  OBVIOUS
<1>1. Init => TurnInv
  <2> SUFFICES ASSUME Init PROVE TurnInv
    OBVIOUS
  <2>1. \A o \in Op : ~Known(o) /\ ~Active(o)
    BY DEF Init, NoRow, Known, Active
  <2>2. \A w \in Worker : worker[w].pc # "selected"
    BY DEF Init, Idle
  <2>3. \A k \in Key : lastWriter[k] = 0
    BY DEF Init
  <2> QED
    BY <2>1, <2>2, <2>3 DEF TurnInv, KnownInv, ActiveInv, ChosenInv, WriterInv
<1>2. IInv /\ TurnInv /\ [Next]_vars => TurnInv'
  BY KnownStep, ActiveStep, ChosenStep, WriterStep DEF TurnInv
<1> QED
  BY <1>1, <1>2, Invariance, PTL DEF Spec

\* With one process the operations of a store and type start one at a time and
\* synchronisations in the order they were asked for: nothing takes the turn of
\* an operation between the poll that selects it and the commit of its lease.
THEOREM OneProcessStartsInTurn == ASSUME Alone PROVE Spec => StartedInTurn
<1>1. IInv /\ TurnInv /\ [Next]_vars =>
        [\A o \in Op : LifeAttempt'[o] > LifeAttempt[o] => Life!Turn(o)]_<<LifeStatus, LifeAttempt>>
  <2> SUFFICES ASSUME IInv, TurnInv, [Next]_vars, NEW o \in Op, LifeAttempt'[o] > LifeAttempt[o]
               PROVE  Life!Turn(o)
    OBVIOUS
  <2>1. ops'[o].attempt > ops[o].attempt
    BY DEF LifeAttempt
  <2>2. /\ \A p \in SameKey(o) : ~Active(p)
        /\ \A p \in AskedBefore[o] : ~Waits(p)
    BY <2>1, StartsInTurn
  <2>3. ASSUME NEW p \in Op, ~Active(p)
        PROVE  LifeStatus[p] # "RUNNING" /\ (~Waits(p) => LifeStatus[p] # "QUEUED")
    <3>1. ops[p] \in Row /\ ops[p].attempt \in Nat /\ ops[p].lease \in Nat
      BY DEF IInv, TypeOK, Row
    <3>2. Recovered(p).status = IF ops[p].attempt >= MaxAttempts THEN "FAILED" ELSE "QUEUED"
      BY <3>1 DEF Recovered, Ended, Requeued, Row
    <3>3. MaxAttempts \in Nat
      BY Constants
    <3> QED
      BY <2>3, <3>1, <3>2, <3>3 DEF LifeStatus, Settled, Expired, Active, Waits
  <2>4. \A p \in SameKey(o) : p \in Op
    BY DEF SameKey
  <2>5. \A p \in AskedBefore[o] : p \in SameKey(o)
    BY BeforeIs
  <2>6. [x \in Op |-> SameKey(x)][o] = SameKey(o)
    OBVIOUS
  <2> QED
    BY <2>2, <2>3, <2>4, <2>5, <2>6 DEF Life!Turn
<1>2. Spec => []TurnInv
  BY TurnIsKept
<1> QED
  BY <1>1, <1>2, Invariance, PTL DEF Spec, StartedInTurn, Life!InTurn

\* With one process no synchronisation of a store saves after a newer one has
\* saved, whatever leases, retries and crashes delay it.
THEOREM OneProcessSavesInOrder == ASSUME Alone PROVE Spec => SavesInOrder
<1>1. IInv /\ TurnInv /\ [Next]_vars => [\A k \in Key : lastWriter'[k] >= lastWriter[k]]_vars
  <2> SUFFICES ASSUME IInv, TurnInv, [Next]_vars, NEW k \in Key
               PROVE  lastWriter'[k] >= lastWriter[k]
    OBVIOUS
  <2>1. lastWriter[k] \in Nat
    <3>1. lastWriter[k] \in Op \cup {0}
      BY DEF IInv, TypeOK
    <3>2. CASE lastWriter[k] = 0
      BY <3>2
    <3>3. CASE lastWriter[k] \in Op
      BY <3>3, Constants
    <3> QED
      BY <3>1, <3>2, <3>3, Zenon
  <2>2. CASE lastWriter'[k] = lastWriter[k]
    BY <2>1, <2>2
  <2>3. ASSUME NEW w \in Worker, SaveChunk(w), lastWriter'[k] # lastWriter[k]
        PROVE  lastWriter'[k] >= lastWriter[k]
    <3> DEFINE o == worker[w].op
    <3>1. o \in SyncOp /\ o \in Op /\ Active(o) /\ o \in Nat
      BY <2>3, SavesWhenActive, Constants
    <3>2. lastWriter'[k] = o /\ KeyOf[o] = k
      BY <2>3 DEF SaveChunk, IInv, TypeOK
    <3>3. CASE lastWriter[k] = 0
      BY <3>1, <3>2, <3>3
    <3>4. CASE lastWriter[k] # 0
      <4>1. o \notin AskedBefore[lastWriter[k]]
        BY <3>1, <3>4 DEF TurnInv, WriterInv
      <4>2. lastWriter[k] \in SyncOp /\ lastWriter[k] \in Op /\ KeyOf[lastWriter[k]] = k
        BY <3>4, KeyAssumption DEF TurnInv, WriterInv
      <4>3. ~(o < lastWriter[k])
        BY <2>1, <3>1, <3>2, <4>1, <4>2, BeforeIs
      <4> QED
        BY <2>1, <3>1, <3>2, <4>3
    <3> QED
      BY <3>3, <3>4
  <2> QED
    BY <2>2, <2>3, Saving
<1>2. Spec => []TurnInv
  BY TurnIsKept
<1> QED
  BY <1>1, <1>2, Invariance, PTL DEF Spec, SavesInOrder
=============================================================================
