------------------------- MODULE MaintenanceProofs -------------------------
(***************************************************************************)
(* Theorems about Maintenance, and with it about SnapshotPersistence, for  *)
(* any rows, calls, tables and number of faults: what callers were told is *)
(* stored is served from memory, and the database with its archive         *)
(* implements CommittedStore. At the end, about RetryChains.               *)
(***************************************************************************)
EXTENDS Maintenance, RetryChains, TLAPS

\* The changes nobody was promised, and those that were refused.
Refused == {c \in Call : told[c] \in {"failed", "replaced"}}

\* Snapshots and row-level commits take operations from the database only;
\* the others may come from memory.
Served == Row \ Operation

Queued == {queue[i] : i \in 1..Len(queue)}

\* Calls that have not been committed: they wait, have their turn, or are
\* those of a script.
Fresh ==
    Queued
    \cup (IF running # NoCall /\ ~stored THEN {running} ELSE {})
    \cup (IF script.edit # NoCall /\ script.done = 0 THEN {script.edit} ELSE {})

\* The shape of what the scripts keep.
ScriptType ==
    /\ script \in [tool : {"none", "export", "import", "prune", "edit"}, done : Nat,
                   got : Rows, edit : Call \cup {NoCall}, owed : SUBSET Call]
    /\ script.edit # NoCall <=> script.tool = "edit"
    /\ backup \in Rows
    /\ owed \subseteq Call
    /\ archive \in Rows
    /\ ended \subseteq Operation

\* A call keeps to the rows of its kind, waits once and is answered when it
\* has ended.
CallInv ==
    /\ \A c \in Call :
        /\ kind[c] = "none" => touches[c] = {} /\ told[c] = "none"
        /\ kind[c] \in Kind => touches[c] \in Scope(kind[c])
        /\ kind[c] = "script" => touches[c] \subseteq Domain /\ touches[c] # {}
    /\ \A i, j \in 1..Len(queue) : queue[i] = queue[j] => i = j
    /\ \A c \in Queued : kind[c] \in Kind
    /\ stored => running # NoCall
    /\ running # NoCall => kind[running] \in Kind /\ told[running] = "none"
    /\ \A c \in Fresh : told[c] = "none"
    /\ script.edit # NoCall =>
           kind[script.edit] = "script" /\ told[script.edit] \in {"none", "failed"}

\* A value is made of changes of its row.
Sound(value) == \A r \in Row : \A c \in value[r] : r \in touches[c]

SourceInv ==
    /\ Sound(db) /\ Sound(mem) /\ Sound(draft)
    /\ Sound(archive) /\ Sound(backup) /\ Sound(script.got)
    /\ \A r \in Row : hash[r] # NoHash => \A c \in hash[r] : r \in touches[c]
    /\ \A f \in fetched : \A c \in f.value : f.row \in touches[c]

\* No trace of a call before it commits.
FreshInv ==
    \A c \in Fresh : \A r \in Domain :
        /\ c \notin db[r] \cup mem[r] \cup backup[r] \cup script.got[r]
        /\ hash[r] # NoHash => c \notin hash[r]
        /\ c # running => c \notin draft[r]

\* The turn of a call: its draft holds its change and, in the rows it may
\* write, whatever is promised and nothing else.
TurnInv ==
    running # NoCall =>
        /\ \A r \in touches[running] : running \in draft[r]
        /\ \A r \in Served \cup touches[running] : db[r] \ Refused \subseteq draft[r]
        /\ \A r \in Served : draft[r] \ Refused \subseteq mem[r] \cup {running}
        /\ \A r \in Operation \cap touches[running] :
            draft[r] \ Refused \subseteq db[r] \cup archive[r] \cup {running}
        /\ stored => \A r \in touches[running] : running \in db[r] \cup archive[r]

\* Memory and database differ by what was refused, by what went into the
\* archive, and by a change that is committed and not published yet.
MemoryInv ==
    up => \A r \in Served :
        /\ mem[r] \ Refused \subseteq db[r] \cup archive[r]
        /\ db[r] \ Refused \subseteq mem[r] \cup (IF stored THEN {running} ELSE {})

\* What was told to be stored is, and so is what a script has committed.
KeptInv ==
    /\ \A c \in Kept : \A r \in touches[c] : c \in db[r] \cup archive[r]
    /\ script.edit # NoCall /\ script.done = 1 /\ told[script.edit] = "none" =>
           \A r \in touches[script.edit] : script.edit \in db[r] \cup archive[r]

\* The tables that an export has read, and the backup it has written, hold
\* what was stored for good when it began.
BackupInv ==
    /\ script.owed \cup owed \subseteq Kept \cup Refused
    /\ script.tool = "export" =>
        /\ script.done <= Len(Tables)
        /\ \A c \in script.owed \cap Kept : \A i \in 1..script.done :
               \A r \in touches[c] \cap Tables[i] : c \in script.got[r] \cup archive[r]
    /\ \A c \in owed \cap Kept : \A r \in touches[c] : c \in backup[r] \cup archive[r]

\* The rows that a prune has read are changed by nobody any more.
PruneInv ==
    script.tool = "prune" => \A r \in Found :
        /\ r \in Settled
        /\ \A c \in Call : r \in touches[c] => c \notin Queued \cup {running}
        /\ script.got[r] \ Refused \subseteq db[r] \cup archive[r]
        /\ db[r] \ Refused \subseteq script.got[r] \cup archive[r]
        /\ script.done = 1 => script.got[r] \subseteq archive[r]

IInv == /\ TypeOK /\ ScriptType /\ CallInv /\ SourceInv /\ FreshInv
        /\ TurnInv /\ MemoryInv /\ KeptInv /\ BackupInv /\ PruneInv

-----------------------------------------------------------------------------
(* What follows from the assumptions on the constants.                     *)

LEMMA Constants ==
    /\ Domain \subseteq Row /\ Operation \subseteq Row /\ Batch \subseteq Row /\ State \subseteq Row
    /\ Domain \cap Operation = {} /\ Batch \cap Operation = {} /\ State \cap Operation = {}
    /\ Domain \cap Batch = {} /\ Domain \cap State = {}
    /\ Log \subseteq Domain
    /\ NoCall \notin Call
    /\ \A cs \in SUBSET Call : cs # NoHash
    /\ Tables \in Seq(SUBSET Row)
    /\ UNION {Tables[i] : i \in 1..Len(Tables)} = Row
    /\ MaxFaults \in Nat
BY RowAssumption, CallAssumption, HashAssumption, FaultAssumption, LogAssumption, TablesAssumption
   DEF Row

\* A call of each kind changes rows, and those are of the tables that its
\* kind is about.
LEMMA Scopes ==
    ASSUME NEW k \in Kind, NEW rs \in Scope(k)
    PROVE  /\ rs \subseteq Row /\ rs # {}
           /\ k \in {"snapshot", "direct"} => rs \subseteq Domain
           /\ k = "fenced" => rs \subseteq Row
           /\ k = "plain" => rs \subseteq Batch \cup State \cup Operation
           /\ k \in {"operation", "cleanup"} => rs \subseteq Operation
<1>1. CASE k = "snapshot"
  <2>1. Scope(k) = SnapshotScope
    BY <1>1 DEF Scope
  <2> QED
    BY <1>1, <2>1, Constants DEF SnapshotScope
<1>2. CASE k = "direct"
  <2>1. Scope(k) = DirectScope
    BY <1>2 DEF Scope
  <2> QED
    BY <1>2, <2>1, Constants DEF DirectScope
<1>3. CASE k = "fenced"
  <2>1. Scope(k) = FencedScope
    BY <1>3 DEF Scope
  <2>2. PICK d \in Domain, o \in Operation, bs \in NoneOrOne(Batch), ss \in NoneOrOne(State) :
            rs = {d, o} \cup bs \cup ss
    BY <2>1 DEF FencedScope
  <2>3. bs \subseteq Batch /\ ss \subseteq State
    BY <2>2 DEF NoneOrOne, Single
  <2> QED
    BY <1>3, <2>2, <2>3, Constants
<1>4. CASE k = "plain"
  <2>1. Scope(k) = PlainScope
    BY <1>4 DEF Scope
  <2>2. CASE rs \in Single(State)
    BY <1>4, <2>2, Constants DEF Single
  <2>3. ASSUME NEW b \in Batch, NEW s \in State, NEW os \in NoneOrOne(Operation),
               rs = {b, s} \cup os
        PROVE  rs \subseteq Batch \cup State \cup Operation /\ rs # {}
    BY <2>3 DEF NoneOrOne, Single
  <2> QED
    BY <1>4, <2>1, <2>2, <2>3, Constants DEF PlainScope
<1>5. CASE k \in {"operation", "cleanup"}
  <2>1. Scope(k) = OperationScope
    BY <1>5 DEF Scope
  <2>2. \E o \in Operation : rs = {o}
    BY <2>1 DEF OperationScope
  <2> QED
    BY <1>5, <2>2, Constants
<1> QED
  BY <1>1, <1>2, <1>3, <1>4, <1>5 DEF Kind

\* The initial state satisfies the inductive invariant.
LEMMA InitInv == MInit => IInv
<1> SUFFICES ASSUME MInit PROVE IInv
  OBVIOUS
<1> USE Constants DEF MInit, Init
<1>0. Nothing \in Rows /\ \A r \in Row : Nothing[r] = {}
  BY DEF Nothing, Rows
<1>1. TypeOK
  <2>1. hash \in [Row -> {NoHash} \cup SUBSET Call]
    BY DEF Nothing
  <2>2. queue \in Seq(Call) /\ Len(queue) = 0
    OBVIOUS
  <2>3. /\ kind \in [Call -> Kind \cup {"none", "script"}]
        /\ touches \in [Call -> SUBSET Row]
        /\ told \in [Call -> {"none", "stored", "failed", "replaced"}]
    BY Zenon
  <2>4. stored \in BOOLEAN /\ up \in BOOLEAN
    BY Zenon
  <2>5. faults \in 0..MaxFaults
    OBVIOUS
  <2> QED
    BY <1>0, <2>1, <2>2, <2>3, <2>4, <2>5 DEF TypeOK
<1>2. ScriptType
  BY <1>0 DEF ScriptType, NoScript, NoBackup
<1>3. Queued = {} /\ Fresh = {}
  BY DEF Queued, Fresh, NoScript
<1>4. CallInv
  BY <1>3 DEF CallInv, NoScript, Kind
<1>5. SourceInv /\ FreshInv
  BY <1>0, <1>3 DEF SourceInv, Sound, FreshInv, NoScript, NoBackup
<1>6. TurnInv /\ MemoryInv
  BY <1>0 DEF TurnInv, MemoryInv, Served
<1>7. KeptInv /\ BackupInv /\ PruneInv
  BY DEF KeptInv, BackupInv, PruneInv, Kept, NoScript
<1> QED
  BY <1>1, <1>2, <1>4, <1>5, <1>6, <1>7 DEF IInv

-----------------------------------------------------------------------------
(* The shape of the state.                                                 *)

\* The first call in the queue and those behind it.
LEMMA Turns ==
    ASSUME queue \in Seq(Call), queue # <<>>
    PROVE  /\ Head(queue) \in Call /\ Head(queue) = queue[1] /\ 1 \in 1..Len(queue)
           /\ Tail(queue) \in Seq(Call) /\ Len(queue) \in Nat
           /\ Len(Tail(queue)) = Len(queue) - 1
           /\ \A i \in 1..(Len(queue) - 1) :
                  Tail(queue)[i] = queue[i + 1] /\ i + 1 \in 1..Len(queue)
OBVIOUS

\* What a call that joins the queue makes of it.
LEMMA Joins ==
    ASSUME queue \in Seq(Call), NEW c \in Call
    PROVE  /\ Append(queue, c) \in Seq(Call) /\ Len(queue) \in Nat
           /\ Len(Append(queue, c)) = Len(queue) + 1
           /\ \A i \in 1..Len(queue) : Append(queue, c)[i] = queue[i]
           /\ Append(queue, c)[Len(queue) + 1] = c
OBVIOUS

\* Drafts, and what is written, are rows.
LEMMA Drafts ==
    ASSUME TypeOK
    PROVE  /\ \A c \in Call, locked \in SUBSET Row : Changed(c, locked) \in Rows
           /\ Put(db) \in Rows
           /\ Put(hash) \in [Row -> {NoHash} \cup SUBSET Call]
           /\ \A c \in Call : Copied(c) \in Rows
           /\ Nothing \in Rows
<1>1. ASSUME NEW c \in Call, NEW locked \in SUBSET Row PROVE Changed(c, locked) \in Rows
  BY DEF TypeOK, Changed, Rows
<1>2. Put(db) \in Rows /\ Put(hash) \in [Row -> {NoHash} \cup SUBSET Call]
  BY DEF TypeOK, Put, Rows
<1>3. ASSUME NEW c \in Call PROVE Copied(c) \in Rows
  BY DEF TypeOK, Copied, Rows
<1>4. Nothing \in Rows
  BY DEF Nothing, Rows
<1> QED
  BY <1>1, <1>2, <1>3, <1>4

\* The turn of a call begins.
Begins ==
    /\ running = NoCall
    /\ queue # <<>>
    /\ running' = Head(queue)
    /\ queue' = Tail(queue)
    /\ stored' = FALSE
    /\ UNCHANGED <<up, db, hash, kind, touches, told, fetched, faults>>

\* It drafts the rows of its kind; only a cleanup touches memory by then, and
\* there operations alone.
LEMMA Beginnings ==
    ASSUME IInv,
           StartSnapshot \/ StartFenced \/ StartPlain \/ StartDirect \/ StartOperation \/ StartCleanup
    PROVE  /\ Begins
           /\ \E locked \in SUBSET Row :
                /\ draft' = Changed(running', locked)
                /\ Operation \cap touches[running'] \subseteq locked
           /\ mem' \in Rows
           /\ \A r \in Served : mem'[r] = mem[r]
           /\ \A r \in Operation : mem'[r] = mem[r] \/ (mem'[r] = draft'[r] /\ r \in touches[running'])
<1> USE DEF Begin, WithoutFirst, dbVars, callVars
<1>0. /\ TypeOK /\ queue \in Seq(Call) /\ mem \in Rows
      /\ \A c \in Call : kind[c] \in Kind => touches[c] \in Scope(kind[c])
  BY DEF IInv, TypeOK, CallInv
<1>1. Begins /\ running' \in Call
  BY <1>0, Turns DEF StartSnapshot, StartFenced, StartPlain, StartDirect, StartOperation,
                    StartCleanup, Begins
<1>2. kind[running'] \in Kind => touches[running'] \in Scope(kind[running'])
  BY <1>0, <1>1
<1>3. CASE StartSnapshot
  <2>1. kind[running'] = "snapshot" /\ draft' = Changed(running', {}) /\ mem' = mem
    BY <1>3 DEF StartSnapshot
  <2>2. touches[running'] \subseteq Domain
    BY <1>2, <2>1, Scopes DEF Kind
  <2> QED
    BY <1>0, <1>1, <2>1, <2>2, Constants
<1>4. CASE StartOperation \/ StartDirect
  <2>1. draft' = Changed(running', Row) /\ mem' = mem
    BY <1>4 DEF StartOperation, StartDirect
  <2> QED
    BY <1>0, <1>1, <2>1, Constants
<1>5. CASE StartFenced \/ StartPlain
  <2>1. Its = Operation \cap touches[running']
    BY <1>1 DEF Its, Begins
  <2>2. \E locked \in {Its, Batch \cup Its} : draft' = Changed(running', locked)
    BY <1>1, <1>5 DEF StartFenced, StartPlain, Begins
  <2>3. mem' = mem
    BY <1>5 DEF StartFenced, StartPlain
  <2>4. Its \subseteq Row /\ Batch \cup Its \subseteq Row
    BY <2>1, Constants
  <2> QED
    BY <1>0, <1>1, <2>1, <2>2, <2>3, <2>4
<1>6. CASE StartCleanup
  <2>1. /\ kind[running'] = "cleanup" /\ draft' = Changed(running', Row)
        /\ mem' = [r \in Row |-> IF r \in touches[running'] THEN draft'[r] ELSE mem[r]]
    BY <1>6 DEF StartCleanup
  <2>2. touches[running'] \subseteq Operation
    BY <1>2, <2>1, Scopes DEF Kind
  <2>3. draft' \in Rows
    BY <1>0, <1>1, <2>1, Drafts
  <2> QED
    BY <1>0, <1>1, <2>1, <2>2, <2>3, Constants DEF Rows, Served
<1> QED
  BY <1>3, <1>4, <1>5, <1>6

Starting == StartSnapshot \/ StartFenced \/ StartPlain \/ StartDirect \/ StartOperation \/ StartCleanup

\* Every step of the backend keeps the shape of its state.
LEMMA BackendType == IInv /\ Next => TypeOK'
<1> SUFFICES ASSUME IInv, Next PROVE TypeOK'
  OBVIOUS
<1> USE DEF vars, dbVars, turnVars, callVars
<1>0. TypeOK /\ CallInv /\ Nothing \in Rows
  BY Drafts DEF IInv
<1>1. ASSUME NEW c \in Call, Submit(c) PROVE TypeOK'
  <2>0. PICK k \in Kind : \E rs \in Scope(k) :
            kind' = [kind EXCEPT ![c] = k] /\ touches' = [touches EXCEPT ![c] = rs]
    BY <1>1 DEF Submit
  <2>1. PICK rs \in Scope(k) :
            kind' = [kind EXCEPT ![c] = k] /\ touches' = [touches EXCEPT ![c] = rs]
    BY <2>0
  <2>2. kind' \in [Call -> Kind \cup {"none", "script"}] /\ touches' \in [Call -> SUBSET Row]
    BY <1>0, <2>1, Scopes DEF TypeOK
  <2>3. c # running
    BY <1>0, <1>1, Constants DEF Submit, CallInv, Kind
  <2>4. queue' = Append(queue, c) /\ running' = running
    BY <1>1 DEF Submit
  <2>5. queue' \in Seq(Call) /\ \A i \in 1..Len(queue') : queue'[i] # running'
    BY <1>0, <2>3, <2>4, Joins DEF TypeOK
  <2> QED
    BY <1>0, <1>1, <2>2, <2>5 DEF TypeOK, Submit
<1>2. CASE Starting
  <2>1. Begins /\ mem' \in Rows
    BY <1>2, Beginnings DEF Starting
  <2>2. queue' \in Seq(Call) /\ running' \in Call /\ \A i \in 1..Len(queue') : queue'[i] # running'
    BY <1>0, <2>1, Turns DEF TypeOK, CallInv, Begins
  <2>3. draft' \in Rows
    BY <1>0, <1>2, <2>2, Beginnings, Drafts DEF Starting
  <2>4. up
    BY <1>0, <2>1 DEF TypeOK, Begins
  <2>5. stored' \in BOOLEAN
    BY <2>1, Zenon DEF Begins
  <2> QED
    BY <1>0, <2>1, <2>2, <2>3, <2>4, <2>5 DEF TypeOK, Begins
<1>3. CASE Commit
  <2>1. db' \in Rows /\ hash' \in [Row -> {NoHash} \cup SUBSET Call]
    BY <1>0, <1>3, Drafts DEF Commit, Store
  <2>2. stored' \in BOOLEAN
    BY <1>3, Zenon DEF Commit
  <2> QED
    BY <1>0, <1>3, <2>1, <2>2 DEF TypeOK, Commit
<1>4. ASSUME NEW answer \in {"stored", "failed"}, Finish(answer), running # NoCall, mem' \in Rows,
             db' \in Rows, hash' \in [Row -> {NoHash} \cup SUBSET Call], faults' \in 0..MaxFaults
      PROVE  TypeOK'
  <2>1. told' \in [Call -> {"none", "stored", "failed", "replaced"}] /\ running' = NoCall
    BY <1>0, <1>4 DEF Finish, TypeOK
  <2>2. stored' \in BOOLEAN
    BY <1>4, Zenon DEF Finish
  <2>3. up /\ up' = up /\ draft' \in Rows /\ UNCHANGED <<queue, kind, touches, fetched>>
    BY <1>0, <1>4 DEF Finish, TypeOK
  <2>4. \A i \in 1..Len(queue') : queue'[i] # running'
    BY <1>0, <2>1, <2>3, Constants DEF TypeOK
  <2> QED
    BY <1>0, <1>4, <2>1, <2>2, <2>3, <2>4 DEF TypeOK
<1>5. CASE PublishDraft \/ PublishRows
  <2>1. running # NoCall
    BY <1>0, <1>5 DEF PublishDraft, PublishRows, CallInv
  <2> QED
    BY <1>0, <1>4, <1>5, <2>1, Drafts DEF PublishDraft, PublishRows, TypeOK
<1>6. ASSUME NEW o \in Operation, Fetch(o) PROVE TypeOK'
  BY <1>0, <1>6, Constants DEF TypeOK, Fetch, Rows
<1>7. ASSUME NEW f \in fetched, Deliver(f) PROVE TypeOK'
  BY <1>0, <1>7, Constants DEF TypeOK, Deliver, Rows
<1>8. Fault => faults' \in 0..MaxFaults
  BY <1>0, Constants DEF Fault, TypeOK
<1>9. CASE Rollback
  BY <1>0, <1>4, <1>8, <1>9 DEF Rollback, TypeOK
<1>10. CASE LoseReply
  BY <1>0, <1>4, <1>8, <1>10, Drafts DEF LoseReply, Store, TypeOK
<1>11. CASE Crash \/ Stop
  <2>1. Gone /\ faults' \in 0..MaxFaults /\ UNCHANGED <<db, hash, kind, touches, told>>
    BY <1>0, <1>8, <1>11 DEF Crash, Stop, TypeOK
  <2>2. stored' \in BOOLEAN /\ up' \in BOOLEAN
    BY <2>1, Zenon DEF Gone
  <2>3. queue' \in Seq(Call) /\ Len(queue') = 0
    BY <2>1 DEF Gone
  <2> QED
    BY <1>0, <2>1, <2>2, <2>3, Constants DEF TypeOK, Gone
<1>12. CASE Start
  <2>1. hash' \in [Row -> {NoHash} \cup SUBSET Call]
    BY <1>0, <1>12 DEF TypeOK, Start, Rows
  <2>2. up' \in BOOLEAN
    BY <1>12, Zenon DEF Start
  <2> QED
    BY <1>0, <1>12, <2>1, <2>2 DEF TypeOK, Start
<1> QED
  BY <1>1, <1>2, <1>3, <1>5, <1>6, <1>7, <1>9, <1>10, <1>11, <1>12 DEF Next, Starting

\* The records that scripts keep of themselves.
ScriptRecord ==
    [tool : {"none", "export", "import", "prune", "edit"}, done : Nat,
     got : Rows, edit : Call \cup {NoCall}, owed : SUBSET Call]

LEMMA ScriptShape ==
    /\ NoScript \in ScriptRecord
    /\ \A cs \in SUBSET Call : [NoScript EXCEPT !.tool = "export", !.owed = cs] \in ScriptRecord
    /\ [NoScript EXCEPT !.tool = "import"] \in ScriptRecord
    /\ \A rows \in Rows : [NoScript EXCEPT !.tool = "prune", !.got = rows] \in ScriptRecord
    /\ \A c \in Call : [NoScript EXCEPT !.tool = "edit", !.edit = c] \in ScriptRecord
    /\ \A s \in ScriptRecord : [s EXCEPT !.done = 1] \in ScriptRecord
    /\ \A s \in ScriptRecord, n \in Nat, rows \in Rows :
           [s EXCEPT !.done = n, !.got = rows] \in ScriptRecord
<1>1. NoScript = [tool |-> "none", done |-> 0, got |-> Nothing, edit |-> NoCall, owed |-> {}]
      /\ Nothing \in Rows
  BY DEF NoScript, Nothing, Rows
<1> QED
  BY <1>1 DEF ScriptRecord

\* What starts a script, as far as it is the same for all of them.
LEMMA Runs ==
    ASSUME IInv, NEW s, Run(s)
    PROVE  script = NoScript /\ script' = s /\ faults' \in 0..MaxFaults
BY Constants DEF Run, Fault, IInv, TypeOK

\* Every script keeps the shape of the state.
LEMMA ScriptsType ==
    ASSUME IInv, MNext, ~Backend
    PROVE  TypeOK' /\ ScriptType'
<1> USE DEF vars, dbVars, turnVars, callVars, scriptVars, DatabaseVars
<1>0. TypeOK /\ ScriptType /\ script \in ScriptRecord /\ Nothing \in Rows
  BY Drafts DEF IInv, ScriptType, ScriptRecord
<1>1. CASE Die
  <2>1. TypeOK'
    BY <1>0, <1>1 DEF TypeOK, Die
  <2> QED
    BY <1>0, <1>1, <2>1, ScriptShape DEF ScriptType, ScriptRecord, Die, Over, NoScript
<1>2. CASE StartExport
  <2>1. TypeOK'
    BY <1>0, <1>2, Runs DEF TypeOK, StartExport
  <2>2. Kept \subseteq Call
    BY DEF Kept
  <2>3. script' = [NoScript EXCEPT !.tool = "export", !.owed = Kept]
    BY <1>2, Runs DEF StartExport
  <2>4. script' \in ScriptRecord
    BY <2>2, <2>3, ScriptShape
  <2>5. script'.tool = "export" /\ script'.edit = NoCall
    BY <2>3 DEF NoScript
  <2> QED
    BY <1>0, <1>2, <2>1, <2>4, <2>5 DEF ScriptType, ScriptRecord, StartExport
<1>3. CASE ReadTable
  <2>1. TypeOK'
    BY <1>0, <1>3 DEF TypeOK, ReadTable
  <2>2. /\ script.done + 1 \in Nat
        /\ [r \in Row |-> IF r \in Exported[script.done + 1] THEN db[r] ELSE script.got[r]] \in Rows
    BY <1>0 DEF TypeOK, ScriptRecord, Rows
  <2>3. script' \in ScriptRecord /\ script'.tool = script.tool /\ script'.edit = script.edit
    BY <1>0, <1>3, <2>2, ScriptShape DEF ReadTable, ScriptRecord
  <2> QED
    BY <1>0, <1>3, <2>1, <2>3 DEF ScriptType, ScriptRecord, ReadTable
<1>4. CASE WriteBackup
  <2>1. TypeOK'
    BY <1>0, <1>4 DEF TypeOK, WriteBackup
  <2> QED
    BY <1>0, <1>4, <2>1, ScriptShape DEF ScriptType, ScriptRecord, WriteBackup, Over, NoScript
<1>5. CASE StartImport
  <2>1. TypeOK'
    BY <1>0, <1>5, Runs DEF TypeOK, StartImport
  <2>2. script' = [NoScript EXCEPT !.tool = "import"]
    BY <1>5, Runs DEF StartImport
  <2>3. script' \in ScriptRecord
    BY <2>2, ScriptShape
  <2>4. script'.tool = "import" /\ script'.edit = NoCall
    BY <2>2 DEF NoScript
  <2> QED
    BY <1>0, <1>5, <2>1, <2>3, <2>4 DEF ScriptType, ScriptRecord, StartImport
<1>6. CASE CommitImport
  <2>1. told' \in [Call -> {"none", "stored", "failed", "replaced"}]
    BY <1>0, <1>6 DEF CommitImport, TypeOK
  <2>2. db' \in Rows /\ hash' \in [Row -> {NoHash} \cup SUBSET Call]
    BY <1>0, <1>6 DEF CommitImport, ScriptType, Rows
  <2>3. TypeOK'
    BY <1>0, <1>6, <2>1, <2>2 DEF TypeOK, CommitImport
  <2> QED
    BY <1>0, <1>6, <2>3, ScriptShape DEF ScriptType, ScriptRecord, CommitImport, Over, NoScript
<1>7. CASE StartPrune
  <2>1. PICK old \in SUBSET Row :
            /\ Run([NoScript EXCEPT !.tool = "prune",
                       !.got = [r \in Row |-> IF r \in old THEN db[r] ELSE {}]])
            /\ ended' = ended \cup (old \cap Operation)
    BY <1>7, Constants DEF StartPrune
  <2>2. TypeOK'
    BY <1>0, <1>7, <2>1, Runs DEF TypeOK, StartPrune
  <2>3. [r \in Row |-> IF r \in old THEN db[r] ELSE {}] \in Rows
    BY <1>0 DEF TypeOK, Rows
  <2>4. script' = [NoScript EXCEPT !.tool = "prune",
                       !.got = [r \in Row |-> IF r \in old THEN db[r] ELSE {}]]
    BY <2>1, Runs
  <2>5. script' \in ScriptRecord
    BY <2>3, <2>4, ScriptShape
  <2>6. script'.tool = "prune" /\ script'.edit = NoCall
    BY <2>4 DEF NoScript
  <2> QED
    BY <1>0, <1>7, <2>1, <2>2, <2>5, <2>6 DEF ScriptType, ScriptRecord, StartPrune
<1>8. CASE WriteArchive
  <2>1. TypeOK'
    BY <1>0, <1>8 DEF TypeOK, WriteArchive
  <2>2. script' \in ScriptRecord /\ script'.tool = script.tool /\ script'.edit = script.edit
    BY <1>0, <1>8, ScriptShape DEF WriteArchive, ScriptRecord
  <2>3. archive' \in Rows
    BY <1>0, <1>8 DEF WriteArchive, ScriptRecord, ScriptType, Rows
  <2> QED
    BY <1>0, <1>8, <2>1, <2>2, <2>3 DEF ScriptType, ScriptRecord, WriteArchive
<1>9. CASE DeletePruned
  <2>1. db' \in Rows /\ hash' \in [Row -> {NoHash} \cup SUBSET Call]
    BY <1>0, <1>9 DEF DeletePruned, TypeOK, Rows
  <2>2. TypeOK'
    BY <1>0, <1>9, <2>1 DEF TypeOK, DeletePruned
  <2> QED
    BY <1>0, <1>9, <2>2, ScriptShape DEF ScriptType, ScriptRecord, DeletePruned, Over, NoScript
<1>10. CASE StartEdit
  <2>1. PICK c \in Call, rs \in SUBSET Domain :
            /\ kind' = [kind EXCEPT ![c] = "script"]
            /\ touches' = [touches EXCEPT ![c] = rs]
            /\ Run([NoScript EXCEPT !.tool = "edit", !.edit = c])
            /\ UNCHANGED <<up, dbVars, mem, turnVars, told, fetched>>
            /\ UNCHANGED <<backup, owed, archive, ended, restores>>
    BY <1>10 DEF StartEdit
  <2>2. kind' \in [Call -> Kind \cup {"none", "script"}] /\ touches' \in [Call -> SUBSET Row]
    BY <1>0, <2>1, Constants DEF TypeOK
  <2>3. faults' \in 0..MaxFaults
    BY <2>1, Runs
  <2>4. TypeOK'
    BY <1>0, <2>1, <2>2, <2>3 DEF TypeOK
  <2>5. script' = [NoScript EXCEPT !.tool = "edit", !.edit = c]
    BY <2>1, Runs
  <2>6. script' \in ScriptRecord
    BY <2>5, ScriptShape
  <2>7. script'.tool = "edit" /\ script'.edit = c /\ c # NoCall
    BY <2>5, Constants DEF NoScript
  <2> QED
    BY <1>0, <2>1, <2>4, <2>6, <2>7 DEF ScriptType, ScriptRecord
<1>11. ASSUME NEW rehash \in [Row -> {NoHash} \cup SUBSET Call], CommitEdit(rehash)
       PROVE  TypeOK' /\ ScriptType'
  <2>1. script.edit \in Call
    BY <1>0, <1>11 DEF CommitEdit, ScriptType, ScriptRecord
  <2>2. db' \in Rows /\ hash' \in [Row -> {NoHash} \cup SUBSET Call]
    BY <1>0, <1>11, <2>1 DEF CommitEdit, TypeOK, Rows
  <2>3. told' \in [Call -> {"none", "stored", "failed", "replaced"}]
    BY <1>0, <1>11, <2>1 DEF CommitEdit, TypeOK
  <2>4. TypeOK'
    BY <1>0, <1>11, <2>2, <2>3 DEF TypeOK, CommitEdit
  <2>5. script' \in ScriptRecord /\ script'.tool = script.tool /\ script'.edit = script.edit
    BY <1>0, <1>11, ScriptShape DEF CommitEdit, ScriptRecord
  <2> QED
    BY <1>0, <1>11, <2>4, <2>5 DEF ScriptType, ScriptRecord, CommitEdit
<1>12. CASE CommitTrim \/ CommitCost
  <2>1. [r \in Row |-> NoHash] \in [Row -> {NoHash} \cup SUBSET Call]
        /\ hash \in [Row -> {NoHash} \cup SUBSET Call]
    BY <1>0 DEF TypeOK
  <2> QED
    BY <1>11, <1>12, <2>1 DEF CommitTrim, CommitCost
<1>13. CASE EndEdit
  <2>1. told' \in [Call -> {"none", "stored", "failed", "replaced"}]
    BY <1>0, <1>13 DEF EndEdit, TypeOK
  <2>2. TypeOK'
    BY <1>0, <1>13, <2>1 DEF TypeOK, EndEdit
  <2> QED
    BY <1>0, <1>13, <2>2, ScriptShape DEF ScriptType, ScriptRecord, EndEdit, Over, NoScript
<1> QED
  BY <1>1, <1>2, <1>3, <1>4, <1>5, <1>6, <1>7, <1>8, <1>9, <1>10, <1>12, <1>13 DEF MNext

\* Every step keeps the shape of the state.
LEMMA StepType == IInv /\ MNext => TypeOK' /\ ScriptType'
<1> SUFFICES ASSUME IInv, MNext PROVE TypeOK' /\ ScriptType'
  OBVIOUS
<1>1. CASE Backend
  BY <1>1, BackendType DEF Backend, scriptVars, IInv, ScriptType
<1> QED
  BY <1>1, ScriptsType

-----------------------------------------------------------------------------
(* The calls.                                                              *)

\* The calls that wait, once another one has joined them.
LEMMA Joined ==
    ASSUME IInv, NEW c \in Call, queue' = Append(queue, c)
    PROVE  /\ Queued' = Queued \cup {c}
           /\ c \notin Queued => \A i, j \in 1..Len(queue') : queue'[i] = queue'[j] => i = j
<1>0. queue \in Seq(Call) /\ \A i, j \in 1..Len(queue) : queue[i] = queue[j] => i = j
  BY DEF IInv, TypeOK, CallInv
<1>1. /\ Len(queue) \in Nat /\ Len(queue') = Len(queue) + 1
      /\ \A i \in 1..Len(queue) : queue'[i] = queue[i]
      /\ queue'[Len(queue) + 1] = c
  BY <1>0, Joins
<1>2. 1..Len(queue') = 1..Len(queue) \cup {Len(queue) + 1}
  BY <1>1
<1> QED
  BY <1>0, <1>1, <1>2 DEF Queued

\* The calls that wait, once the turn of the first one has begun.
LEMMA Left ==
    ASSUME IInv, Begins
    PROVE  /\ running' \in Call
           /\ Queued = Queued' \cup {running'} /\ running' \notin Queued'
           /\ \A i, j \in 1..Len(queue') : queue'[i] = queue'[j] => i = j
<1>0. queue \in Seq(Call) /\ \A i, j \in 1..Len(queue) : queue[i] = queue[j] => i = j
  BY DEF IInv, TypeOK, CallInv
<1>1. /\ running' \in Call /\ running' = queue[1] /\ 1 \in 1..Len(queue)
      /\ Len(queue) \in Nat /\ Len(queue') = Len(queue) - 1
      /\ \A i \in 1..(Len(queue) - 1) : queue'[i] = queue[i + 1] /\ i + 1 \in 1..Len(queue)
  BY <1>0, Turns DEF Begins
<1>2. \A i \in 1..Len(queue) : i = 1 \/ (i - 1 \in 1..Len(queue') /\ queue'[i - 1] = queue[i])
  <2>1. \A i \in 1..Len(queue) : i = 1 \/ (i - 1 \in 1..(Len(queue) - 1) /\ (i - 1) + 1 = i)
    BY <1>1
  <2> QED
    BY <1>1, <2>1
<1>3. \A i \in 1..Len(queue') : queue'[i] \in Queued /\ queue'[i] # running'
  BY <1>0, <1>1 DEF Queued
<1>4. \A i \in 1..Len(queue) : queue[i] = running' \/ queue[i] \in Queued'
  BY <1>1, <1>2 DEF Queued
<1>5. running' \in Queued
  BY <1>1 DEF Queued
<1>6. Queued = Queued' \cup {running'} /\ running' \notin Queued'
  BY <1>3, <1>4, <1>5 DEF Queued
<1>7. \A i, j \in 1..Len(queue') : queue'[i] = queue'[j] => i = j
  <2>1. \A i, j \in 1..Len(queue') : queue'[i] = queue'[j] => i + 1 = j + 1
    BY <1>0, <1>1
  <2> QED
    BY <1>1, <2>1
<1> QED
  BY <1>1, <1>6, <1>7

\* What scripts do that change no row in the database.
Reading == Die \/ StartExport \/ ReadTable \/ WriteBackup \/ StartImport \/ StartPrune \/ WriteArchive

LEMMA Readings ==
    ASSUME IInv, Reading
    PROVE  /\ UNCHANGED <<up, db, hash, mem, turnVars, callVars, fetched>>
           /\ script.edit = NoCall /\ script'.edit = NoCall
           /\ Fresh' = Fresh /\ Queued' = Queued
           /\ \A r \in Row : archive[r] \subseteq archive'[r]
<1> USE DEF vars, dbVars, turnVars, callVars, DatabaseVars
<1>0. TypeOK /\ ScriptType /\ script \in ScriptRecord
  BY DEF IInv, ScriptType, ScriptRecord
<1>1. UNCHANGED <<up, db, hash, mem, turnVars, callVars, fetched>>
  BY DEF Reading, Die, StartExport, ReadTable, WriteBackup, StartImport, StartPrune, WriteArchive
<1>2. script.edit = NoCall
  <2>1. CASE StartExport \/ StartImport \/ StartPrune
    BY <2>1 DEF StartExport, StartImport, StartPrune, Run, NoScript
  <2>2. CASE Die \/ ReadTable \/ WriteBackup \/ WriteArchive
    BY <1>0, <2>2 DEF Die, ReadTable, WriteBackup, WriteArchive, ScriptType
  <2> QED
    BY <2>1, <2>2 DEF Reading
<1>3. script'.edit = NoCall
  <2>1. CASE Die \/ WriteBackup
    BY <2>1 DEF Die, WriteBackup, Over, NoScript
  <2>2. CASE ReadTable \/ WriteArchive
    BY <1>0, <1>2, <2>2 DEF ReadTable, WriteArchive, ScriptRecord
  <2>3. CASE StartExport \/ StartImport \/ StartPrune
    BY <2>3 DEF StartExport, StartImport, StartPrune, Run, NoScript
  <2> QED
    BY <2>1, <2>2, <2>3 DEF Reading
<1>4. Queued' = Queued
  BY <1>1 DEF Queued
<1>5. Fresh' = Fresh
  BY <1>1, <1>2, <1>3, <1>4 DEF Fresh
<1>6. \A r \in Row : archive[r] \subseteq archive'[r]
  BY <1>0 DEF Reading, Die, StartExport, ReadTable, WriteBackup, StartImport, StartPrune,
              WriteArchive, ScriptType, Rows
<1> QED
  BY <1>1, <1>2, <1>3, <1>4, <1>5, <1>6

\* Who has not been committed, as turns begin and end.
LEMMA Turned ==
    ASSUME IInv, UNCHANGED script
    PROVE  /\ Begins => Fresh' = Fresh
           /\ Commit => Queued' = Queued /\ Fresh' = Fresh \ {running}
           /\ \A answer : Finish(answer) /\ running # NoCall =>
                  Queued' = Queued /\ Fresh' = Fresh \ {running}
           /\ Gone => Queued' = {} /\ Fresh' \subseteq Fresh
<1>0. /\ TypeOK /\ CallInv /\ ScriptType
      /\ running \notin Queued
      /\ script.edit # NoCall => script.edit # running
      /\ NoCall \notin Call
  BY Constants DEF IInv, TypeOK, CallInv, Kind, Queued
<1>1. ASSUME Begins PROVE Fresh' = Fresh
  <2>1. /\ Queued = Queued' \cup {running'} /\ running' # NoCall /\ ~stored'
        /\ running = NoCall /\ script' = script
    BY <1>0, <1>1, Left DEF Begins
  <2> QED
    BY <2>1 DEF Fresh
<1>2. ASSUME Commit PROVE Queued' = Queued /\ Fresh' = Fresh \ {running}
  BY <1>0, <1>2 DEF Commit, Queued, Fresh
<1>3. ASSUME NEW answer, Finish(answer), running # NoCall
      PROVE  Queued' = Queued /\ Fresh' = Fresh \ {running}
  <2>1. Queued' = Queued /\ running' = NoCall
    BY <1>3 DEF Finish, Queued
  <2> QED
    BY <1>0, <1>3, <2>1 DEF Fresh
<1>4. ASSUME Gone PROVE Queued' = {} /\ Fresh' \subseteq Fresh
  <2>1. Queued' = {}
    BY <1>4 DEF Gone, Queued
  <2> QED
    BY <1>4, <2>1 DEF Gone, Fresh
<1> QED
  BY <1>1, <1>2, <1>3, <1>4

\* What an edit begins with, and what it comes to.
LEMMA Edits ==
    ASSUME IInv
    PROVE  /\ StartEdit =>
                \E c \in Call, rs \in (SUBSET Domain) \ {{}} :
                    /\ kind[c] = "none"
                    /\ kind' = [kind EXCEPT ![c] = "script"]
                    /\ touches' = [touches EXCEPT ![c] = rs]
                    /\ script = NoScript
                    /\ script' = [NoScript EXCEPT !.tool = "edit", !.edit = c]
                    /\ script'.edit = c /\ script'.done = 0 /\ script'.tool = "edit"
                    /\ script'.got = Nothing
                    /\ UNCHANGED <<up, db, hash, mem, turnVars, told, fetched>>
                    /\ UNCHANGED <<backup, owed, archive, ended, restores>>
                    /\ Queued' = Queued /\ Fresh' = Fresh \cup {c}
           /\ \A rehash : CommitEdit(rehash) =>
                /\ script.edit \in Fresh /\ Queued' = Queued /\ Fresh' = Fresh \ {script.edit}
                /\ script'.edit = script.edit /\ script'.done = 1 /\ script'.got = script.got
                /\ script'.tool = "edit"
                /\ script.edit \in Call /\ script.edit # running /\ script.edit \notin Queued
           /\ EndEdit =>
                /\ script.edit \in Call /\ script.edit # running /\ script.edit \notin Queued
                /\ Queued' = Queued /\ Fresh' = Fresh \ {script.edit}
                /\ script'.edit = NoCall /\ script'.tool = "none" /\ script'.got = Nothing
<1> USE DEF turnVars, dbVars
<1>0. /\ TypeOK /\ CallInv /\ ScriptType /\ script \in ScriptRecord
      /\ NoCall \notin Call
  BY Constants DEF IInv, ScriptType, ScriptRecord
<1>1. ASSUME script.edit # NoCall
      PROVE  script.edit \in Call /\ script.edit # running /\ script.edit \notin Queued
  BY <1>0, <1>1 DEF ScriptType, CallInv, Kind
<1>2. ASSUME StartEdit
      PROVE  \E c \in Call, rs \in (SUBSET Domain) \ {{}} :
                /\ kind[c] = "none"
                /\ kind' = [kind EXCEPT ![c] = "script"]
                /\ touches' = [touches EXCEPT ![c] = rs]
                /\ script = NoScript
                /\ script' = [NoScript EXCEPT !.tool = "edit", !.edit = c]
                /\ script'.edit = c /\ script'.done = 0 /\ script'.tool = "edit"
                /\ script'.got = Nothing
                /\ UNCHANGED <<up, db, hash, mem, turnVars, told, fetched>>
                /\ UNCHANGED <<backup, owed, archive, ended, restores>>
                /\ Queued' = Queued /\ Fresh' = Fresh \cup {c}
  <2>1. PICK c \in Call, rs \in (SUBSET Domain) \ {{}} :
            /\ kind[c] = "none"
            /\ kind' = [kind EXCEPT ![c] = "script"]
            /\ touches' = [touches EXCEPT ![c] = rs]
            /\ script = NoScript
            /\ script' = [NoScript EXCEPT !.tool = "edit", !.edit = c]
            /\ UNCHANGED <<up, db, hash, mem, turnVars, told, fetched>>
            /\ UNCHANGED <<backup, owed, archive, ended, restores>>
    <3>1. PICK c \in Call, rs \in (SUBSET (Domain \ Log)) \ {{}} :
            /\ kind[c] = "none"
            /\ kind' = [kind EXCEPT ![c] = "script"]
            /\ touches' = [touches EXCEPT ![c] = rs]
            /\ Run([NoScript EXCEPT !.tool = "edit", !.edit = c])
            /\ UNCHANGED <<up, dbVars, mem, turnVars, told, fetched>>
            /\ UNCHANGED <<backup, owed, archive, ended, restores>>
      BY <1>2 DEF StartEdit
    <3> QED
      BY <3>1, Runs
  <2>2. script'.edit = c /\ script'.done = 0 /\ script'.tool = "edit" /\ script'.got = Nothing
    BY <2>1 DEF NoScript
  <2>3. script.edit = NoCall /\ c # NoCall
    BY <1>0, <2>1 DEF NoScript
  <2>4. Queued' = Queued
    BY <2>1 DEF Queued
  <2>5. Fresh' = Fresh \cup {c}
    BY <2>1, <2>2, <2>3, <2>4 DEF Fresh
  <2> QED
    BY <2>1, <2>2, <2>4, <2>5
<1>3. ASSUME NEW rehash, CommitEdit(rehash)
      PROVE  /\ script.edit \in Fresh /\ Queued' = Queued /\ Fresh' = Fresh \ {script.edit}
             /\ script'.edit = script.edit /\ script'.done = 1 /\ script'.got = script.got
             /\ script'.tool = "edit"
             /\ script.edit \in Call /\ script.edit # running /\ script.edit \notin Queued
  <2>1. script.edit # NoCall /\ script.done = 0 /\ script.tool = "edit"
    BY <1>0, <1>3 DEF CommitEdit, ScriptType
  <2>2. /\ script'.edit = script.edit /\ script'.done = 1 /\ script'.got = script.got
        /\ script'.tool = script.tool
    BY <1>0, <1>3 DEF CommitEdit, ScriptRecord
  <2>3. Queued' = Queued /\ running' = running /\ stored' = stored
    BY <1>3 DEF CommitEdit, Queued
  <2> QED
    BY <1>1, <2>1, <2>2, <2>3 DEF Fresh
<1>4. ASSUME EndEdit
      PROVE  /\ script.edit \in Call /\ script.edit # running /\ script.edit \notin Queued
             /\ Queued' = Queued /\ Fresh' = Fresh \ {script.edit}
             /\ script'.edit = NoCall /\ script'.tool = "none" /\ script'.got = Nothing
  <2>1. script.edit # NoCall /\ script' = NoScript /\ UNCHANGED turnVars
    BY <1>4 DEF EndEdit, Over
  <2>2. script'.edit = NoCall /\ script'.tool = "none" /\ script'.got = Nothing
    BY <2>1 DEF NoScript
  <2>3. Queued' = Queued /\ running' = running /\ stored' = stored
    BY <2>1 DEF Queued
  <2> QED
    BY <1>1, <2>1, <2>2, <2>3 DEF Fresh
<1> QED
  BY <1>2, <1>3, <1>4

\* Whoever has not been committed has been asked for.
LEMMA AskedOnly ==
    ASSUME IInv
    PROVE  /\ Fresh \subseteq Call /\ Queued \subseteq Fresh
           /\ \A c \in Fresh : kind[c] # "none"
           /\ \A c \in Call : kind[c] # "none" <=> touches[c] # {}
<1>0. TypeOK /\ CallInv /\ ScriptType
  BY DEF IInv
<1>1. Queued \subseteq Call /\ Queued \subseteq Fresh
  BY <1>0 DEF Queued, Fresh, TypeOK
<1>2. Fresh \subseteq Call
  BY <1>0, <1>1 DEF Fresh, TypeOK, ScriptType
<1>3. \A c \in Fresh : kind[c] # "none"
  BY <1>0 DEF Fresh, CallInv, Kind
<1>4. \A c \in Call : kind[c] # "none" <=> touches[c] # {}
  BY <1>0, Scopes DEF CallInv, TypeOK
<1> QED
  BY <1>1, <1>2, <1>3, <1>4

\* What a change that is asked for begins with.
LEMMA Submits ==
    ASSUME IInv, NEW c \in Call, Submit(c), UNCHANGED script
    PROVE  /\ kind[c] = "none" /\ touches[c] = {} /\ c # running /\ c \notin Queued
           /\ \E k \in Kind : \E rs \in Scope(k) :
                  kind' = [kind EXCEPT ![c] = k] /\ touches' = [touches EXCEPT ![c] = rs]
           /\ UNCHANGED <<up, db, hash, mem, running, draft, stored, told, fetched>>
           /\ Queued' = Queued \cup {c} /\ Fresh' = Fresh \cup {c}
           /\ \A i, j \in 1..Len(queue') : queue'[i] = queue'[j] => i = j
<1>1. /\ UNCHANGED <<up, db, hash, mem, running, draft, stored, told, fetched>>
      /\ kind[c] = "none" /\ queue' = Append(queue, c)
      /\ \E k \in Kind : \E rs \in Scope(k) :
            kind' = [kind EXCEPT ![c] = k] /\ touches' = [touches EXCEPT ![c] = rs]
  BY DEF Submit, dbVars
<1>2. touches[c] = {} /\ c # running /\ c \notin Queued
  BY <1>1, Constants DEF IInv, CallInv, Kind
<1>3. Queued' = Queued \cup {c} /\ \A i, j \in 1..Len(queue') : queue'[i] = queue'[j] => i = j
  BY <1>1, <1>2, Joined
<1>4. Fresh' = Fresh \cup {c}
  BY <1>1, <1>3 DEF Fresh
<1> QED
  BY <1>1, <1>2, <1>3, <1>4

\* Every step keeps a call to its kind.
LEMMA StepCalls == IInv /\ MNext => CallInv'
<1> SUFFICES ASSUME IInv, MNext PROVE CallInv'
  OBVIOUS
<1> USE DEF turnVars, dbVars, callVars
<1>0. TypeOK /\ CallInv /\ ScriptType /\ Queued \subseteq Fresh /\ Fresh \subseteq Call
  BY AskedOnly DEF IInv
<1>1. ASSUME NEW c \in Call, Submit(c), UNCHANGED script PROVE CallInv'
  <2>0. PICK k \in Kind : \E rs \in Scope(k) :
            kind' = [kind EXCEPT ![c] = k] /\ touches' = [touches EXCEPT ![c] = rs]
    BY <1>1, Submits
  <2>1. PICK rs \in Scope(k) :
            kind' = [kind EXCEPT ![c] = k] /\ touches' = [touches EXCEPT ![c] = rs]
    BY <2>0
  <2>2. /\ kind[c] = "none" /\ c # running /\ UNCHANGED <<running, stored, told, script>>
        /\ Queued' = Queued \cup {c} /\ Fresh' = Fresh \cup {c}
        /\ \A i, j \in 1..Len(queue') : queue'[i] = queue'[j] => i = j
    BY <1>1, Submits
  <2>3. \A a \in Call : /\ kind'[a] = (IF a = c THEN k ELSE kind[a])
                        /\ touches'[a] = (IF a = c THEN rs ELSE touches[a])
    BY <1>0, <2>1 DEF TypeOK
  <2>4. k # "none" /\ k # "script" /\ told[c] = "none"
    BY <1>0, <2>2 DEF Kind, CallInv
  <2>5. \A a \in Call :
            /\ kind'[a] = "none" => touches'[a] = {} /\ told'[a] = "none"
            /\ kind'[a] \in Kind => touches'[a] \in Scope(kind'[a])
            /\ kind'[a] = "script" => touches'[a] \subseteq Domain /\ touches'[a] # {}
    BY <1>0, <2>2, <2>3, <2>4 DEF CallInv
  <2>6. /\ \A a \in Queued' : kind'[a] \in Kind
        /\ \A a \in Fresh' : told'[a] = "none"
    BY <1>0, <2>2, <2>3, <2>4 DEF CallInv
  <2>7. script'.edit # NoCall =>
            kind'[script'.edit] = "script" /\ told'[script'.edit] \in {"none", "failed"}
    BY <1>0, <2>2, <2>3 DEF CallInv, ScriptType
  <2>8. /\ stored' => running' # NoCall
        /\ running' # NoCall => kind'[running'] \in Kind /\ told'[running'] = "none"
    BY <1>0, <2>2, <2>3 DEF CallInv, TypeOK
  <2> QED
    BY <2>2, <2>5, <2>6, <2>7, <2>8 DEF CallInv
<1>2. ASSUME Starting, UNCHANGED script PROVE CallInv'
  <2>1. Begins /\ Fresh' = Fresh
    BY <1>2, Beginnings, Turned DEF Starting
  <2>2. /\ running' \in Queued /\ Queued' \subseteq Queued
        /\ \A i, j \in 1..Len(queue') : queue'[i] = queue'[j] => i = j
    BY <2>1, Left
  <2> QED
    BY <1>0, <1>2, <2>1, <2>2 DEF CallInv, Begins
<1>3. ASSUME Commit, UNCHANGED script PROVE CallInv'
  <2>1. Queued' = Queued /\ Fresh' \subseteq Fresh
    BY <1>3, Turned
  <2> QED
    BY <1>0, <1>3, <2>1 DEF CallInv, Commit
<1>4. ASSUME NEW answer \in {"stored", "failed"}, Finish(answer), running # NoCall, UNCHANGED script
      PROVE  CallInv'
  <2>1. Queued' = Queued /\ Fresh' = Fresh \ {running}
    BY <1>4, Turned
  <2>2. \A a \in Call : a # running => told'[a] = told[a]
    BY <1>0, <1>4 DEF Finish, TypeOK
  <2>3. UNCHANGED <<queue, kind, touches>> /\ running' = NoCall /\ ~stored'
    BY <1>4 DEF Finish
  <2>4. Fresh \subseteq Call
    BY <1>0 DEF Fresh, Queued, TypeOK, ScriptType
  <2>5. \A a \in Fresh' : told'[a] = "none"
    BY <1>0, <2>1, <2>2, <2>4 DEF CallInv
  <2>6. \A a \in Call : kind'[a] = "none" => told'[a] = "none"
    BY <1>0, <1>4, <2>2, <2>3 DEF CallInv, Kind
  <2>7. script.edit # NoCall => told'[script.edit] \in {"none", "failed"}
    BY <1>0, <2>2, Constants DEF CallInv, Kind, ScriptType
  <2> QED
    BY <1>0, <1>4, <2>1, <2>3, <2>5, <2>6, <2>7 DEF CallInv
<1>5. ASSUME PublishDraft \/ PublishRows \/ Rollback \/ LoseReply, UNCHANGED script
      PROVE  CallInv'
  BY <1>0, <1>4, <1>5 DEF PublishDraft, PublishRows, Rollback, LoseReply, CallInv
<1>6. ASSUME Crash \/ Stop, UNCHANGED script PROVE CallInv'
  <2>1. Gone /\ UNCHANGED callVars
    BY <1>6 DEF Crash, Stop
  <2>2. Queued' = {} /\ Fresh' \subseteq Fresh
    BY <1>6, <2>1, Turned
  <2> QED
    BY <1>0, <1>6, <2>1, <2>2 DEF CallInv, Gone
<1>7. ASSUME UNCHANGED <<callVars, turnVars>>, Queued' = Queued, Fresh' = Fresh,
             script'.edit = script.edit
      PROVE  CallInv'
  BY <1>0, <1>7 DEF CallInv
<1>8. ASSUME (\E o \in Operation : Fetch(o)) \/ (\E f \in fetched : Deliver(f)) \/ Start,
             UNCHANGED script
      PROVE  CallInv'
  BY <1>7, <1>8 DEF Fetch, Deliver, Start, Queued, Fresh
<1>9. CASE Reading
  BY <1>7, <1>9, Readings
<1>10. CASE CommitImport
  <2>1. /\ UNCHANGED <<kind, touches>> /\ UNCHANGED turnVars
        /\ running = NoCall /\ script.edit = NoCall /\ script'.edit = NoCall
        /\ \A a \in Call : told'[a] # told[a] => told[a] = "stored"
    BY <1>0, <1>10 DEF CommitImport, Replaced, Kept, TypeOK, ScriptType, Over, NoScript
  <2>2. Queued' = Queued /\ Fresh' = Fresh /\ Fresh \subseteq Call
    BY <1>0, <2>1 DEF Fresh, Queued, TypeOK
  <2>3. \A a \in Call : told[a] = "none" => told'[a] = "none"
    BY <2>1
  <2> QED
    BY <1>0, <2>1, <2>2, <2>3 DEF CallInv
<1>11. CASE DeletePruned
  <2>1. script.edit = NoCall /\ script'.edit = NoCall /\ UNCHANGED <<callVars, turnVars>>
    BY <1>0, <1>11 DEF DeletePruned, ScriptType, Over, NoScript
  <2> QED
    BY <1>7, <2>1 DEF Fresh, Queued
<1>12. CASE StartEdit
  <2>1. PICK c \in Call, rs \in (SUBSET Domain) \ {{}} :
            /\ kind[c] = "none"
            /\ kind' = [kind EXCEPT ![c] = "script"]
            /\ touches' = [touches EXCEPT ![c] = rs]
            /\ script'.edit = c
            /\ UNCHANGED <<turnVars, told>>
            /\ Queued' = Queued /\ Fresh' = Fresh \cup {c}
    BY <1>12, Edits
  <2>2. \A a \in Call : /\ kind'[a] = (IF a = c THEN "script" ELSE kind[a])
                        /\ touches'[a] = (IF a = c THEN rs ELSE touches[a])
    BY <1>0, <2>1 DEF TypeOK
  <2>3. c # running /\ c \notin Queued /\ told[c] = "none"
    BY <1>0, <2>1, Constants DEF CallInv, Kind
  <2>4. \A a \in Call :
            /\ kind'[a] = "none" => touches'[a] = {} /\ told'[a] = "none"
            /\ kind'[a] \in Kind => touches'[a] \in Scope(kind'[a])
            /\ kind'[a] = "script" => touches'[a] \subseteq Domain /\ touches'[a] # {}
    BY <1>0, <2>1, <2>2 DEF CallInv, Kind
  <2>5. /\ \A a \in Queued' : kind'[a] \in Kind
        /\ \A a \in Fresh' : told'[a] = "none"
    BY <1>0, <2>1, <2>2, <2>3 DEF CallInv, Queued, TypeOK
  <2>6. running' # NoCall => kind'[running'] \in Kind /\ told'[running'] = "none"
    BY <1>0, <2>1, <2>2, <2>3 DEF CallInv, TypeOK
  <2> QED
    BY <1>0, <2>1, <2>2, <2>4, <2>5, <2>6 DEF CallInv
<1>13. ASSUME NEW c \in Call, c = script.edit, c # running, c \notin Queued, c # NoCall,
              \A a \in Call : a # c => told'[a] = told[a],
              UNCHANGED <<kind, touches>>, UNCHANGED turnVars,
              Queued' = Queued, Fresh' = Fresh \ {c}, script'.edit \in {script.edit, NoCall},
              script'.edit # NoCall => told'[c] \in {"none", "failed"}
       PROVE  CallInv'
  <2>1. kind[c] = "script" /\ Fresh \subseteq Call
    BY <1>0, <1>13 DEF CallInv, Fresh, Queued, TypeOK, ScriptType
  <2>2. \A a \in Fresh' : told'[a] = "none"
    BY <1>0, <1>13, <2>1 DEF CallInv
  <2>3. running' # NoCall => kind'[running'] \in Kind /\ told'[running'] = "none"
    BY <1>0, <1>13 DEF CallInv, TypeOK
  <2> QED
    BY <1>0, <1>13, <2>1, <2>2, <2>3 DEF CallInv
<1>14. ASSUME NEW rehash, CommitEdit(rehash) PROVE CallInv'
  <2>1. /\ script.edit \in Call /\ script.edit # running /\ script.edit \notin Queued
        /\ Queued' = Queued /\ Fresh' = Fresh \ {script.edit} /\ script'.edit = script.edit
    BY <1>14, Edits
  <2>2. /\ \A a \in Call : a # script.edit => told'[a] = told[a]
        /\ UNCHANGED <<kind, touches>> /\ UNCHANGED turnVars
    BY <1>0, <1>14 DEF CommitEdit, TypeOK
  <2>3. told'[script.edit] \in {"none", "failed"}
    BY <1>0, <1>14, <2>1, Constants DEF CommitEdit, TypeOK, CallInv
  <2> QED
    BY <1>13, <2>1, <2>2, <2>3, Constants
<1>15. CASE EndEdit
  <2>1. /\ script.edit \in Call /\ script.edit # running /\ script.edit \notin Queued
        /\ Queued' = Queued /\ Fresh' = Fresh \ {script.edit} /\ script'.edit = NoCall
    BY <1>15, Edits
  <2>2. /\ \A a \in Call : a # script.edit => told'[a] = told[a]
        /\ UNCHANGED <<kind, touches>> /\ UNCHANGED turnVars
    BY <1>0, <1>15 DEF EndEdit, TypeOK
  <2> QED
    BY <1>13, <2>1, <2>2, Constants
<1>16. CASE CommitTrim \/ CommitCost
  BY <1>14, <1>16 DEF CommitTrim, CommitCost
<1>17. CASE Backend
  BY <1>1, <1>2, <1>3, <1>5, <1>6, <1>8, <1>17 DEF Backend, Next, Starting, scriptVars
<1> QED
  BY <1>9, <1>10, <1>11, <1>12, <1>15, <1>16, <1>17 DEF MNext, Reading

\* What a call changes and that it was refused stay as they are, and none is
\* told to be stored that is not committed.
LEMMA Answers ==
    ASSUME IInv, MNext
    PROVE  /\ \A c \in Call : touches[c] # {} => touches'[c] = touches[c]
           /\ Refused \subseteq Refused' /\ Kept \subseteq Kept' \cup Refused'
           /\ \A c \in Call : told'[c] = "none" => told[c] = "none"
           /\ \A c \in Kept' : \/ c \in Kept
                               \/ c = running /\ stored
                               \/ c = script.edit /\ script.done = 1 /\ told[c] = "none"
<1> USE DEF turnVars, dbVars, callVars
<1>0. TypeOK /\ CallInv /\ ScriptType
  BY DEF IInv
<1>1. ASSUME NEW c \in Call, Submit(c)
      PROVE  UNCHANGED told /\ \A a \in Call : touches[a] # {} => touches'[a] = touches[a]
  <2>1. /\ UNCHANGED told /\ touches[c] = {}
        /\ \E rs \in SUBSET Row : touches' = [touches EXCEPT ![c] = rs]
    BY <1>0, <1>1, Scopes DEF Submit, CallInv
  <2> QED
    BY <1>0, <2>1 DEF TypeOK
<1>2. ASSUME StartEdit
      PROVE  UNCHANGED told /\ \A a \in Call : touches[a] # {} => touches'[a] = touches[a]
  <2>1. PICK c \in Call, rs \in (SUBSET Domain) \ {{}} :
            kind[c] = "none" /\ touches' = [touches EXCEPT ![c] = rs] /\ UNCHANGED told
    BY <1>2, Edits
  <2> QED
    BY <1>0, <2>1 DEF TypeOK, CallInv
<1>3. ASSUME NEW answer \in {"stored", "failed"}, Finish(answer), running # NoCall
      PROVE  /\ UNCHANGED touches /\ Refused \subseteq Refused' /\ Kept \subseteq Kept' \cup Refused'
             /\ \A c \in Call : told'[c] = "none" => told[c] = "none"
             /\ \A c \in Kept' : c \in Kept \/ (c = running /\ answer = "stored")
  BY <1>0, <1>3 DEF Finish, TypeOK, CallInv, Refused, Kept
<1>4. CASE PublishDraft \/ PublishRows \/ Rollback \/ LoseReply
  <2>1. running # NoCall
    BY <1>0, <1>4 DEF PublishDraft, PublishRows, Rollback, LoseReply, CallInv
  <2>2. \/ Finish("stored") /\ stored
        \/ Finish("failed")
    BY <1>4 DEF PublishDraft, PublishRows, Rollback, LoseReply
  <2> QED
    BY <1>3, <2>1, <2>2
<1>5. ASSUME UNCHANGED <<touches, told>>
      PROVE  /\ \A c \in Call : touches[c] # {} => touches'[c] = touches[c]
             /\ Refused \subseteq Refused' /\ Kept' = Kept
  BY <1>5 DEF Refused, Kept
<1>6. CASE Starting
  BY <1>5, <1>6, Beginnings DEF Starting, Begins
<1>7. CASE Commit \/ Crash \/ Stop \/ Start \/ (\E o \in Operation : Fetch(o))
           \/ (\E f \in fetched : Deliver(f))
  BY <1>5, <1>7 DEF Commit, Crash, Stop, Start, Fetch, Deliver
<1>8. CASE Reading \/ DeletePruned
  BY <1>5, <1>8, Readings DEF DeletePruned
<1>9. CASE CommitImport
  BY <1>0, <1>9 DEF CommitImport, Replaced, Refused, Kept, TypeOK
<1>10. CASE CommitTrim \/ CommitCost
  <2>1. PICK rehash : CommitEdit(rehash)
    BY <1>10 DEF CommitTrim, CommitCost
  <2> QED
    BY <1>0, <2>1 DEF CommitEdit, Refused, Kept, TypeOK
<1>11. CASE EndEdit
  BY <1>0, <1>11 DEF EndEdit, Refused, Kept, TypeOK
<1>12. CASE Backend
  BY <1>1, <1>4, <1>5, <1>6, <1>7, <1>12 DEF Backend, Next, Starting, Refused, Kept
<1> QED
  BY <1>2, <1>5, <1>8, <1>9, <1>10, <1>11, <1>12 DEF MNext, Reading, Refused, Kept

-----------------------------------------------------------------------------
(* Where the changes in a value come from.                                 *)

\* The hashes that an edit leaves are old ones or cleared.
Rehashes(rehash) == \A r \in Row : rehash[r] \in {NoHash, hash[r]}

LEMMA Commits ==
    ASSUME IInv, CommitTrim \/ CommitCost
    PROVE  \E rehash : CommitEdit(rehash) /\ Rehashes(rehash)
BY DEF CommitTrim, CommitCost, Rehashes

\* What a script has read, and what else it leaves.
LEMMA Reads ==
    ASSUME IInv, Reading
    PROVE  /\ backup' = backup \/ (script.tool = "export" /\ backup' = script.got)
           /\ \A r \in Row : script'.got[r] \subseteq script.got[r] \cup db[r]
           /\ \A r \in Row : archive'[r] \subseteq archive[r] \cup script.got[r]
<1>0. TypeOK /\ ScriptType /\ script \in ScriptRecord
  BY DEF IInv, ScriptType, ScriptRecord
<1>1. CASE Die
  BY <1>0, <1>1 DEF Die, Over, NoScript, Nothing, ScriptType, Rows
<1>2. CASE StartExport
  BY <1>0, <1>2 DEF StartExport, Run, NoScript, Nothing, ScriptType, Rows
<1>3. CASE ReadTable
  <2>1. /\ script'.got = [r \in Row |-> IF r \in Exported[script.done + 1] THEN db[r] ELSE script.got[r]]
        /\ UNCHANGED <<archive, backup>>
    BY <1>0, <1>3 DEF ReadTable, ScriptRecord
  <2> QED
    BY <1>0, <2>1 DEF ScriptType, Rows
<1>4. CASE WriteBackup
  BY <1>0, <1>4 DEF WriteBackup, Over, NoScript, Nothing, ScriptType, Rows
<1>5. CASE StartImport
  BY <1>0, <1>5 DEF StartImport, Run, NoScript, Nothing, ScriptType, Rows
<1>6. CASE StartPrune
  <2>1. PICK old \in SUBSET Row :
            /\ Run([NoScript EXCEPT !.tool = "prune",
                       !.got = [r \in Row |-> IF r \in old THEN db[r] ELSE {}]])
            /\ ended' = ended \cup (old \cap Operation)
    BY <1>6, Constants DEF StartPrune
  <2>2. script' = [NoScript EXCEPT !.tool = "prune",
                      !.got = [r \in Row |-> IF r \in old THEN db[r] ELSE {}]]
    BY <2>1, Runs
  <2>3. script'.got = [r \in Row |-> IF r \in old THEN db[r] ELSE {}]
    BY <2>2 DEF NoScript
  <2>4. UNCHANGED <<archive, backup>>
    BY <1>6 DEF StartPrune
  <2> QED
    BY <1>0, <2>3, <2>4 DEF ScriptType, Rows
<1>7. CASE WriteArchive
  <2>1. /\ script'.got = script.got /\ backup' = backup
        /\ archive' = [r \in Row |-> archive[r] \cup script.got[r]]
    BY <1>0, <1>7 DEF WriteArchive, ScriptRecord
  <2> QED
    BY <1>0, <2>1 DEF ScriptType, Rows
<1> QED
  BY <1>1, <1>2, <1>3, <1>4, <1>5, <1>6, <1>7 DEF Reading

\* Every step puts changes only into rows that they are about.
LEMMA StepSources == IInv /\ MNext => SourceInv'
<1> SUFFICES ASSUME IInv, MNext PROVE SourceInv'
  OBVIOUS
<1> USE DEF turnVars, dbVars, callVars
<1>0. /\ TypeOK /\ CallInv /\ ScriptType /\ script \in ScriptRecord /\ SourceInv
      /\ \A r \in Row : Nothing[r] = {}
  BY DEF IInv, ScriptType, ScriptRecord, Nothing
<1>1. \A c \in Call, r \in Row : r \in touches[c] => r \in touches'[c]
  BY Answers
<1>2. \A value \in Rows : Sound(value) => \A r \in Row : \A c \in value[r] : r \in touches'[c]
  BY <1>1 DEF Sound, Rows
<1>3. /\ \A r \in Row : hash[r] # NoHash => \A c \in hash[r] : r \in touches'[c]
      /\ \A f \in fetched : \A c \in f.value : f.row \in touches'[c]
  BY <1>0, <1>1, Constants DEF SourceInv, TypeOK
<1>4. \A r \in Row :
        /\ \A c \in db[r] \cup mem[r] \cup draft[r] : r \in touches'[c]
        /\ \A c \in archive[r] \cup backup[r] \cup script.got[r] : r \in touches'[c]
  BY <1>0, <1>2 DEF SourceInv, TypeOK, ScriptType
<1>5. ASSUME UNCHANGED <<db, mem, draft, hash, fetched>>,
             \A r \in Row : \A c \in archive'[r] \cup backup'[r] \cup script'.got[r] :
                 r \in touches'[c]
      PROVE  SourceInv'
  BY <1>3, <1>4, <1>5 DEF SourceInv, Sound
<1>6. ASSUME UNCHANGED <<archive, backup>>, script'.got \in {script.got, Nothing},
             \A r \in Row : \A c \in db'[r] \cup mem'[r] \cup draft'[r] : r \in touches'[c],
             \A r \in Row : hash'[r] # NoHash => \A c \in hash'[r] : r \in touches'[c],
             \A f \in fetched' : \A c \in f.value : f.row \in touches'[c]
      PROVE  SourceInv'
  BY <1>0, <1>4, <1>6 DEF SourceInv, Sound
<1>7. ASSUME NEW c \in Call, Submit(c), UNCHANGED scriptVars PROVE SourceInv'
  BY <1>5, <1>4, <1>7 DEF Submit, scriptVars
<1>8. CASE StartEdit
  BY <1>0, <1>5, <1>4, <1>8, Edits
<1>9. CASE Reading
  <2>1. UNCHANGED <<db, mem, draft, hash, fetched>>
    BY <1>9, Readings
  <2> QED
    BY <1>4, <1>5, <1>9, <2>1, Reads
<1>10. CASE EndEdit
  <2>1. script'.got = Nothing /\ UNCHANGED <<db, mem, draft, hash, fetched, archive, backup>>
    BY <1>10, Edits DEF EndEdit
  <2> QED
    BY <1>0, <1>4, <1>5, <2>1
<1>11. ASSUME Starting, UNCHANGED scriptVars PROVE SourceInv'
  <2>1. Begins
    BY <1>11, Beginnings DEF Starting
  <2>2. PICK locked \in SUBSET Row : draft' = Changed(running', locked)
    BY <1>11, Beginnings DEF Starting
  <2>3. \A r \in Row : \A c \in draft'[r] : c \in db[r] \cup mem[r] \/ (c = running' /\ r \in touches[c])
    BY <1>0, <2>2 DEF Changed
  <2>4. touches' = touches /\ UNCHANGED <<db, hash, fetched>>
    BY <2>1 DEF Begins
  <2>5. \A r \in Row : \A c \in draft'[r] : r \in touches'[c]
    BY <1>4, <2>3, <2>4
  <2>6. \A r \in Row : mem'[r] = mem[r] \/ mem'[r] = draft'[r]
    BY <1>11, Beginnings, Constants DEF Starting, Served
  <2> QED
    BY <1>3, <1>4, <1>6, <1>11, <2>4, <2>5, <2>6 DEF scriptVars
<1>12. ASSUME Commit \/ LoseReply, UNCHANGED scriptVars PROVE SourceInv'
  <2>1. /\ Store /\ UNCHANGED <<mem, fetched>>
        /\ draft' = draft \/ draft' = Nothing
    BY <1>12 DEF Commit, LoseReply, Finish
  <2>2. \A r \in Row : db'[r] \in {db[r], draft[r]} /\ hash'[r] \in {hash[r], draft[r]}
    BY <2>1 DEF Store, Put
  <2> QED
    BY <1>0, <1>3, <1>4, <1>6, <1>12, <2>1, <2>2 DEF scriptVars
<1>13. ASSUME PublishDraft \/ PublishRows \/ Rollback, UNCHANGED scriptVars PROVE SourceInv'
  <2>1. /\ draft' = Nothing /\ UNCHANGED <<db, hash, fetched>>
        /\ \A r \in Row : mem'[r] \in {mem[r], draft[r]}
    BY <1>13 DEF PublishDraft, PublishRows, Rollback, Finish, Copied
  <2> QED
    BY <1>0, <1>3, <1>4, <1>6, <1>13, <2>1 DEF scriptVars
<1>14. ASSUME NEW o \in Operation, Fetch(o), UNCHANGED scriptVars PROVE SourceInv'
  <2>1. /\ UNCHANGED <<db, hash, mem, draft>>
        /\ fetched' = fetched \cup {[row |-> o, value |-> db[o]]}
    BY <1>14 DEF Fetch
  <2>2. \A f \in fetched' : \A c \in f.value : f.row \in touches'[c]
    BY <1>3, <1>4, <2>1, Constants
  <2> QED
    BY <1>3, <1>4, <1>6, <1>14, <2>1, <2>2 DEF scriptVars
<1>15. ASSUME NEW f \in fetched, Deliver(f), UNCHANGED scriptVars PROVE SourceInv'
  <2>1. /\ UNCHANGED <<db, hash, draft>> /\ fetched' \subseteq fetched
        /\ \A r \in Row : mem'[r] = mem[r] \/ (r = f.row /\ mem'[r] = f.value)
    BY <1>0, <1>15 DEF Deliver, TypeOK, Rows
  <2> QED
    BY <1>3, <1>4, <1>6, <1>15, <2>1 DEF scriptVars
<1>16. ASSUME Crash \/ Stop \/ Start, UNCHANGED scriptVars PROVE SourceInv'
  <2>1. CASE Crash \/ Stop
    <3>1. UNCHANGED <<db, hash>> /\ mem' = Nothing /\ draft' = Nothing /\ fetched' = {}
      BY <2>1 DEF Crash, Stop, Gone
    <3> QED
      BY <1>0, <1>3, <1>4, <1>6, <1>16, <3>1 DEF scriptVars
  <2>2. CASE Start
    <3>1. /\ UNCHANGED <<db, draft, fetched>> /\ mem' = db
          /\ \A r \in Row : hash'[r] \in {hash[r], db[r]}
      BY <2>2 DEF Start
    <3> QED
      BY <1>0, <1>3, <1>4, <1>6, <1>16, <3>1 DEF scriptVars
  <2> QED
    BY <1>16, <2>1, <2>2
<1>17. CASE CommitImport
  <2>1. /\ db' = backup /\ hash' = backup /\ UNCHANGED <<mem, draft, fetched, archive, backup>>
        /\ script'.got = Nothing
    BY <1>17 DEF CommitImport, Over, NoScript
  <2> QED
    BY <1>3, <1>4, <1>6, <2>1
<1>18. CASE DeletePruned
  <2>1. /\ \A r \in Row : db'[r] \in {db[r], {}} /\ hash'[r] \in {hash[r], {}}
        /\ UNCHANGED <<mem, draft, fetched, archive, backup>>
        /\ script'.got = Nothing
    BY <1>18 DEF DeletePruned, Over, NoScript
  <2> QED
    BY <1>3, <1>4, <1>6, <2>1
<1>19. CASE CommitTrim \/ CommitCost
  <2>1. PICK rehash : CommitEdit(rehash) /\ Rehashes(rehash)
    BY <1>19, Commits
  <2>2. /\ \A r \in Row : \A c \in db'[r] : c \in db[r] \/ (c = script.edit /\ r \in touches[c])
        /\ \A r \in Row : hash'[r] \in {NoHash, hash[r]}
        /\ UNCHANGED <<mem, draft, fetched, archive, backup, touches>>
        /\ script'.got = script.got
    BY <2>1, Edits DEF CommitEdit, Rehashes
  <2> QED
    BY <1>3, <1>4, <1>6, <2>2
<1>20. CASE Backend
  BY <1>7, <1>11, <1>12, <1>13, <1>14, <1>15, <1>16, <1>20 DEF Backend, Next, Starting
<1> QED
  BY <1>8, <1>9, <1>10, <1>17, <1>18, <1>19, <1>20 DEF MNext, Reading

\* No step leaves a trace of a call that has not been committed.
LEMMA StepFresh == IInv /\ MNext => FreshInv'
<1> SUFFICES ASSUME IInv, MNext PROVE FreshInv'
  OBVIOUS
<1> USE DEF turnVars, dbVars, callVars
<1>0. /\ TypeOK /\ ScriptType /\ FreshInv /\ Domain \subseteq Row
      /\ \A r \in Row : Nothing[r] = {}
  BY Constants DEF IInv, Nothing
<1>1. \A c \in Call, r \in Domain : touches[c] = {} =>
          /\ c \notin db[r] \cup mem[r] \cup backup[r] \cup script.got[r] \cup draft[r]
          /\ hash[r] # NoHash => c \notin hash[r]
  BY <1>0 DEF IInv, SourceInv, Sound
<1>2. ASSUME UNCHANGED <<db, mem, hash, draft, running>>,
             \A r \in Domain : backup'[r] \cup script'.got[r] \subseteq
                 backup[r] \cup script.got[r] \cup db[r],
             \A c \in Fresh' : c \in Fresh \/ (c \in Call /\ touches[c] = {})
      PROVE  FreshInv'
  BY <1>0, <1>1, <1>2 DEF FreshInv
<1>3. ASSUME NEW c \in Call, Submit(c), UNCHANGED scriptVars PROVE FreshInv'
  BY <1>2, <1>3, Submits DEF scriptVars
<1>4. CASE StartEdit
  <2>1. PICK c \in Call :
            /\ kind[c] = "none" /\ Fresh' = Fresh \cup {c} /\ script'.got = Nothing
            /\ UNCHANGED <<db, mem, hash, draft, running, backup>>
    BY <1>4, Edits
  <2>2. touches[c] = {}
    BY <2>1 DEF IInv, CallInv
  <2> QED
    BY <1>0, <1>2, <2>1, <2>2
<1>5. CASE Reading
  <2>1. UNCHANGED <<db, mem, hash, draft, running>> /\ Fresh' = Fresh
    BY <1>5, Readings
  <2> QED
    BY <1>0, <1>2, <1>5, <2>1, Reads
<1>6. CASE EndEdit
  <2>1. /\ script'.got = Nothing /\ UNCHANGED <<db, mem, draft, hash, backup, running>>
        /\ Fresh' \subseteq Fresh
    BY <1>6, Edits DEF EndEdit
  <2> QED
    BY <1>0, <1>2, <2>1
<1>7. ASSUME Fresh' \subseteq Fresh, UNCHANGED backup, script'.got \in {script.got, Nothing},
             \A c \in Fresh', r \in Domain :
                /\ c \notin db'[r] \cup mem'[r]
                /\ hash'[r] # NoHash => c \notin hash'[r]
                /\ c # running' => c \notin draft'[r]
      PROVE  FreshInv'
  BY <1>0, <1>7 DEF FreshInv
<1>8. ASSUME Starting, UNCHANGED scriptVars PROVE FreshInv'
  <2>1. Begins /\ Fresh' = Fresh
    BY <1>8, Beginnings, Turned DEF Starting, scriptVars
  <2>2. PICK locked \in SUBSET Row : draft' = Changed(running', locked)
    BY <1>8, Beginnings DEF Starting
  <2>3. \A r \in Row : \A c \in draft'[r] : c \in db[r] \cup mem[r] \cup {running'}
    BY <1>0, <2>2 DEF Changed
  <2>4. \A r \in Domain : mem'[r] = mem[r]
    BY <1>8, Beginnings, Constants DEF Starting, Served
  <2>5. UNCHANGED <<db, hash>>
    BY <2>1 DEF Begins
  <2> QED
    BY <1>0, <1>7, <1>8, <2>1, <2>3, <2>4, <2>5 DEF scriptVars, FreshInv
<1>9. ASSUME Commit \/ LoseReply, UNCHANGED scriptVars PROVE FreshInv'
  <2>1. /\ Store /\ UNCHANGED mem /\ Fresh' = Fresh \ {running}
        /\ draft' = draft \/ draft' = Nothing
    <3>1. CASE Commit
      BY <1>9, <3>1, Turned DEF Commit, scriptVars
    <3>2. CASE LoseReply
      BY <1>9, <3>2, Turned DEF LoseReply, Finish, scriptVars
    <3> QED
      BY <1>9, <3>1, <3>2
  <2>2. \A r \in Row : db'[r] \in {db[r], draft[r]} /\ hash'[r] \in {hash[r], draft[r]}
    BY <2>1 DEF Store, Put
  <2> QED
    BY <1>0, <1>7, <1>9, <2>1, <2>2 DEF scriptVars, FreshInv
<1>10. ASSUME PublishDraft \/ PublishRows \/ Rollback, UNCHANGED scriptVars PROVE FreshInv'
  <2>1. /\ draft' = Nothing /\ UNCHANGED <<db, hash>>
        /\ \A r \in Row : mem'[r] \in {mem[r], draft[r]}
    BY <1>10 DEF PublishDraft, PublishRows, Rollback, Finish, Copied
  <2>2. Fresh' = Fresh \ {running}
    BY <1>10, Turned DEF PublishDraft, PublishRows, Rollback, IInv, CallInv, scriptVars
  <2> QED
    BY <1>0, <1>7, <1>10, <2>1, <2>2 DEF scriptVars, FreshInv
<1>11. ASSUME NEW o \in Operation, Fetch(o), UNCHANGED scriptVars PROVE FreshInv'
  BY <1>0, <1>7, <1>11 DEF Fetch, scriptVars, Fresh, Queued, FreshInv
<1>12. ASSUME NEW f \in fetched, Deliver(f), UNCHANGED scriptVars PROVE FreshInv'
  <2>1. UNCHANGED <<db, hash, draft, running>> /\ Fresh' = Fresh
    BY <1>12 DEF Deliver, scriptVars, Fresh, Queued
  <2>2. \A r \in Domain : mem'[r] = mem[r]
    BY <1>0, <1>12, Constants DEF Deliver, TypeOK, Rows
  <2> QED
    BY <1>0, <1>7, <1>12, <2>1, <2>2 DEF scriptVars, FreshInv
<1>13. ASSUME Crash \/ Stop, UNCHANGED scriptVars PROVE FreshInv'
  <2>1. Gone /\ UNCHANGED <<db, hash>>
    BY <1>13 DEF Crash, Stop
  <2>2. Fresh' \subseteq Fresh
    BY <1>13, <2>1, Turned DEF scriptVars
  <2> QED
    BY <1>0, <1>7, <1>13, <2>1, <2>2 DEF Gone, scriptVars, FreshInv
<1>14. ASSUME Start, UNCHANGED scriptVars PROVE FreshInv'
  <2>1. /\ UNCHANGED <<db, draft, running>> /\ mem' = db /\ Fresh' = Fresh
        /\ \A r \in Row : hash'[r] \in {hash[r], db[r]}
    BY <1>14 DEF Start, scriptVars, Fresh, Queued
  <2> QED
    BY <1>0, <1>7, <1>14, <2>1 DEF scriptVars, FreshInv
<1>15. CASE CommitImport
  <2>1. /\ db' = backup /\ hash' = backup /\ UNCHANGED <<mem, draft, running, backup>>
        /\ script'.got = Nothing
        /\ script.edit = NoCall /\ script'.edit = NoCall
    BY <1>0, <1>15 DEF CommitImport, Over, NoScript, ScriptType
  <2>2. Fresh' = Fresh
    BY <1>15, <2>1 DEF CommitImport, Fresh, Queued
  <2> QED
    BY <1>0, <1>7, <2>1, <2>2 DEF FreshInv
<1>16. CASE DeletePruned
  <2>1. /\ \A r \in Row : db'[r] \in {db[r], {}} /\ hash'[r] \in {hash[r], {}}
        /\ UNCHANGED <<mem, draft, running, backup>>
        /\ script'.got = Nothing
        /\ script.edit = NoCall /\ script'.edit = NoCall
    BY <1>0, <1>16 DEF DeletePruned, Over, NoScript, ScriptType
  <2>2. Fresh' = Fresh
    BY <1>16, <2>1 DEF DeletePruned, Fresh, Queued
  <2> QED
    BY <1>0, <1>7, <2>1, <2>2 DEF FreshInv
<1>17. CASE CommitTrim \/ CommitCost
  <2>1. PICK rehash : CommitEdit(rehash) /\ Rehashes(rehash)
    BY <1>17, Commits
  <2>2. Fresh' = Fresh \ {script.edit} /\ script'.got = script.got
    BY <2>1, Edits
  <2>3. /\ \A r \in Row : \A c \in db'[r] : c \in db[r] \cup {script.edit}
        /\ \A r \in Row : hash'[r] \in {NoHash, hash[r]}
        /\ UNCHANGED <<mem, draft, running, backup>>
    BY <2>1 DEF CommitEdit, Rehashes
  <2> QED
    BY <1>0, <1>7, <2>2, <2>3 DEF FreshInv
<1>18. CASE Backend
  BY <1>3, <1>8, <1>9, <1>10, <1>11, <1>12, <1>13, <1>14, <1>18 DEF Backend, Next, Starting
<1> QED
  BY <1>4, <1>5, <1>6, <1>15, <1>16, <1>17, <1>18 DEF MNext, Reading

-----------------------------------------------------------------------------
(* What a commit makes of the rows.                                        *)

\* A commit writes the rows of its call, and no operation but that.
LEMMA Writing ==
    ASSUME IInv, running # NoCall, ~stored
    PROVE  touches[running] \subseteq Written /\ Written \subseteq Domain \cup touches[running]
<1>0. TypeOK /\ CallInv /\ FreshInv /\ TurnInv /\ running \in Fresh /\ running \in Call
  BY DEF IInv, Fresh, TypeOK
<1>1. CASE kind[running] = "snapshot"
  <2>1. touches[running] \subseteq Domain
    BY <1>0, <1>1, Scopes DEF CallInv
  <2>2. ASSUME NEW r \in touches[running] PROVE r \in Differing
    <3>1. r \in Domain /\ r \in Row /\ running \in draft[r]
      BY <1>0, <2>1, <2>2, Constants DEF TurnInv
    <3>2. draft[r] # hash[r]
      BY <1>0, <3>1, Constants DEF FreshInv, TypeOK, Rows
    <3> QED
      BY <3>1, <3>2 DEF Differing, Persisted
  <2>3. Written = Differing /\ Differing \subseteq Domain
    BY <1>1 DEF Written, Differing, Persisted
  <2> QED
    BY <2>2, <2>3
<1>2. CASE kind[running] # "snapshot"
  BY <1>2 DEF Written
<1> QED
  BY <1>1, <1>2

\* It stores its change, takes away nothing but what was refused, and brings
\* back nothing else.
LEMMA Stores ==
    ASSUME IInv, running # NoCall, ~stored, Store
    PROVE  /\ \A r \in Row : db[r] \ Refused \subseteq db'[r]
           /\ \A r \in Row : db'[r] \ Refused \subseteq
                  db[r] \cup archive[r] \cup (IF r \in touches[running] THEN {running} ELSE {})
           /\ \A r \in Served : db'[r] \ Refused \subseteq mem[r] \cup {running}
           /\ \A r \in Served \cup touches[running] : db'[r] \ Refused \subseteq draft[r]
           /\ \A r \in touches[running] : r \in Row /\ running \in db'[r]
<1>0. /\ TypeOK /\ TurnInv /\ MemoryInv /\ up /\ running \in Call
      /\ Domain \subseteq Served /\ Served \subseteq Row /\ touches[running] \subseteq Row
      /\ \A r \in Row : r \in Served \/ r \in Operation
  BY Constants DEF IInv, TypeOK, Served
<1>1. touches[running] \subseteq Written /\ Written \subseteq Domain \cup touches[running]
  BY Writing
<1>2. \A r \in Row : db'[r] = IF r \in Written THEN draft[r] ELSE db[r]
  BY DEF Store, Put
<1>3. \A r \in Row : running \in draft[r] => r \in touches[running]
  BY DEF IInv, SourceInv, Sound
<1>4. \A r \in Row : db[r] \ Refused \subseteq db'[r]
  BY <1>0, <1>1, <1>2 DEF TurnInv
<1>5. \A r \in Served : draft[r] \ Refused \subseteq db[r] \cup archive[r] \cup {running}
  BY <1>0 DEF TurnInv, MemoryInv
<1>6. \A r \in Operation \cap touches[running] :
          draft[r] \ Refused \subseteq db[r] \cup archive[r] \cup {running}
  BY <1>0 DEF TurnInv
<1>7. ASSUME NEW r \in Row
      PROVE  db'[r] \ Refused \subseteq
                 db[r] \cup archive[r] \cup (IF r \in touches[running] THEN {running} ELSE {})
  <2>1. CASE r \in Written
    <3>1. draft[r] \ Refused \subseteq db[r] \cup archive[r] \cup {running}
      BY <1>0, <1>1, <1>5, <1>6, <2>1
    <3> QED
      BY <1>2, <1>3, <2>1, <3>1
  <2>2. CASE r \notin Written
    BY <1>2, <2>2
  <2> QED
    BY <2>1, <2>2
<1>8. \A r \in Served : db'[r] \ Refused \subseteq mem[r] \cup {running}
  BY <1>0, <1>2 DEF TurnInv, MemoryInv
<1>9. \A r \in Served \cup touches[running] : db'[r] \ Refused \subseteq draft[r]
  BY <1>0, <1>2 DEF TurnInv
<1>10. \A r \in touches[running] : r \in Row /\ running \in db'[r]
  BY <1>0, <1>1, <1>2 DEF TurnInv
<1> QED
  BY <1>4, <1>7, <1>8, <1>9, <1>10

\* Whatever the script does but an import, no row loses what was not refused.
Retaining == Backend \/ Reading \/ DeletePruned \/ StartEdit \/ CommitTrim \/ CommitCost \/ EndEdit

LEMMA Retained ==
    ASSUME IInv, Retaining
    PROVE  /\ \A r \in Row : (db[r] \cup archive[r]) \ Refused \subseteq db'[r] \cup archive'[r]
           /\ \A r \in Row : archive[r] \subseteq archive'[r]
<1> USE DEF dbVars
<1>1. CASE Backend
  <2>1. archive' = archive
    BY <1>1 DEF Backend, scriptVars
  <2>2. CASE Commit \/ LoseReply
    <3>1. Store /\ running # NoCall /\ ~stored
      BY <2>2 DEF Commit, LoseReply
    <3> QED
      BY <2>1, <3>1, Stores
  <2>3. CASE ~(Commit \/ LoseReply)
    <3>1. db' = db
      <4>1. CASE Starting
        BY <4>1, Beginnings DEF Starting, Begins
      <4> QED
        BY <1>1, <2>3, <4>1 DEF Backend, Next, Starting, Submit, PublishDraft, PublishRows, Fetch,
              Deliver, Rollback, Crash, Stop, Start
    <3> QED
      BY <2>1, <3>1
  <2> QED
    BY <2>2, <2>3
<1>2. CASE Reading
  BY <1>2, Readings
<1>3. CASE DeletePruned
  <2>1. \A r \in Found : script.got[r] \subseteq archive[r] /\ db[r] \ Refused \subseteq script.got[r] \cup archive[r]
    BY <1>3 DEF DeletePruned, IInv, PruneInv
  <2>2. archive' = archive /\ \A r \in Row : db'[r] = IF r \in Found THEN {} ELSE db[r]
    BY <1>3 DEF DeletePruned, Pruned
  <2> QED
    BY <2>1, <2>2
<1>4. CASE StartEdit
  BY <1>4, Edits
<1>5. CASE CommitTrim \/ CommitCost
  <2>1. PICK rehash : CommitEdit(rehash)
    BY <1>5 DEF CommitTrim, CommitCost
  <2> QED
    BY <2>1 DEF CommitEdit
<1>6. CASE EndEdit
  BY <1>6 DEF EndEdit
<1> QED
  BY <1>1, <1>2, <1>3, <1>4, <1>5, <1>6 DEF Retaining

-----------------------------------------------------------------------------
(* What was told to be stored.                                             *)

\* A step is an import or retains the rows.
LEMMA Steps ==
    ASSUME IInv, MNext
    PROVE  CommitImport \/ Retaining
BY DEF MNext, Retaining, Reading

\* What has been stored stays stored.
LEMMA StepKept == IInv /\ MNext => KeptInv'
<1> SUFFICES ASSUME IInv, MNext PROVE KeptInv'
  OBVIOUS
<1>0. /\ TypeOK /\ CallInv /\ ScriptType /\ TurnInv /\ KeptInv
      /\ \A c \in Call : kind[c] # "none" => touches[c] # {}
      /\ Kept \cap Refused = {}
  BY AskedOnly DEF IInv, Kept, Refused
<1>1. \A c \in Call : told[c] # "none" => touches'[c] = touches[c]
  BY <1>0, Answers DEF CallInv
<1>2. CASE CommitImport
  <2>1. ASSUME NEW c \in Kept', NEW r \in touches'[c] PROVE c \in db'[r] \cup archive'[r]
    <3>1. c \in Kept /\ c \notin Replaced(backup)
      BY <1>0, <1>2, <2>1 DEF CommitImport, Kept, TypeOK
    <3>2. r \in touches[c] /\ db' = backup /\ archive' = archive
      BY <1>2, <2>1 DEF CommitImport
    <3> QED
      BY <3>1, <3>2 DEF Replaced
  <2>2. script'.edit = NoCall
    BY <1>2 DEF CommitImport, Over, NoScript
  <2> QED
    BY <2>1, <2>2 DEF KeptInv
<1>3. CASE Retaining
  <2>1. ASSUME NEW c \in Kept', NEW r \in touches'[c] PROVE c \in db'[r] \cup archive'[r]
    <3>1. \/ c \in Kept
          \/ c = running /\ stored
          \/ c = script.edit /\ script.done = 1 /\ told[c] = "none"
      BY Answers
    <3>2. c \in Call /\ c \notin Refused
      BY <1>0, <3>1, Answers DEF Kept, Refused, CallInv, TypeOK
    <3>3. touches'[c] = touches[c]
      <4>1. CASE c \in Kept
        BY <1>1, <4>1 DEF Kept
      <4>2. CASE c = running
        BY <1>0, <3>2, <4>2, Answers, Constants DEF CallInv, Kind
      <4>3. CASE c = script.edit
        BY <1>0, <3>2, <4>3, Answers, Constants DEF CallInv
      <4> QED
        BY <3>1, <4>1, <4>2, <4>3
    <3>4. r \in Row /\ c \in db[r] \cup archive[r]
      BY <1>0, <2>1, <3>1, <3>2, <3>3, Constants DEF TurnInv, KeptInv, TypeOK
    <3> QED
      BY <1>3, <3>2, <3>4, Retained
  <2>2. ASSUME script'.edit # NoCall, script'.done = 1, told'[script'.edit] = "none"
        PROVE  \A r \in touches'[script'.edit] : script'.edit \in db'[r] \cup archive'[r]
    <3>1. CASE CommitTrim \/ CommitCost
      <4>1. PICK rehash : CommitEdit(rehash)
        BY <3>1 DEF CommitTrim, CommitCost
      <4>2. script'.edit = script.edit /\ script.edit \in Call
        BY <4>1, Edits
      <4> QED
        BY <1>0, <4>1, <4>2 DEF CommitEdit, TypeOK
    <3>2. CASE ~(CommitTrim \/ CommitCost)
      <4>1. script' = script
        <5>1. ~StartEdit
          BY <2>2, Edits
        <5>2. ~Reading /\ ~EndEdit
          BY <2>2, Readings, Edits
        <5>3. ~DeletePruned
          BY <2>2 DEF DeletePruned, Over, NoScript
        <5> QED
          BY <1>3, <3>2, <5>1, <5>2, <5>3 DEF Retaining, Backend, scriptVars
      <4>2. DEFINE c == script.edit
      <4>3. c \in Call /\ told[c] = "none" /\ kind[c] = "script" /\ script.done = 1 /\ c # NoCall
        BY <1>0, <2>2, <4>1, Answers DEF ScriptType, CallInv
      <4>4. touches'[c] = touches[c] /\ touches[c] \subseteq Row /\ c \notin Refused
        BY <1>0, <4>3, Answers DEF Refused, TypeOK
      <4>5. \A r \in touches[c] : c \in db[r] \cup archive[r]
        BY <1>0, <4>3 DEF KeptInv
      <4> QED
        BY <1>3, <4>1, <4>3, <4>4, <4>5, Retained
    <3> QED
      BY <3>1, <3>2
  <2> QED
    BY <2>1, <2>2 DEF KeptInv
<1> QED
  BY <1>2, <1>3, Steps

\* Memory holds what is in the database, and the other way around.
LEMMA StepMemory == IInv /\ MNext => MemoryInv'
<1> SUFFICES ASSUME IInv, MNext PROVE MemoryInv'
  OBVIOUS
<1> USE DEF turnVars, dbVars, callVars
<1>0. /\ TypeOK /\ CallInv /\ ScriptType /\ TurnInv /\ MemoryInv
      /\ Served \subseteq Row
      /\ \A r \in Row : \A c \in draft[r] \cup db[r] : r \in touches[c]
      /\ Refused \subseteq Refused'
  BY Answers DEF IInv, Served, SourceInv, Sound
<1>1. ASSUME up' => up, \A r \in Served : mem'[r] = mem[r],
             \A r \in Served : db'[r] \subseteq db[r] \cup Refused',
             ~stored \/ (stored' = stored /\ running' = running),
             Retaining
      PROVE  MemoryInv'
  BY <1>0, <1>1, Retained DEF MemoryInv
<1>2. ASSUME NEW c \in Call, Submit(c), Backend PROVE MemoryInv'
  BY <1>1, <1>2 DEF Submit, Retaining
<1>3. ASSUME Starting, Backend PROVE MemoryInv'
  <2>1. Begins /\ \A r \in Served : mem'[r] = mem[r]
    BY <1>3, Beginnings DEF Starting
  <2> QED
    BY <1>0, <1>1, <1>3, <2>1 DEF Begins, CallInv, Retaining
<1>4. ASSUME Commit, Backend PROVE MemoryInv'
  <2>1. /\ running # NoCall /\ ~stored /\ Store /\ stored' = TRUE
        /\ UNCHANGED <<up, mem, running>>
    BY <1>4 DEF Commit
  <2>2. \A r \in Served : db'[r] \ Refused \subseteq mem[r] \cup {running}
    BY <2>1, Stores
  <2>3. \A r \in Served : mem[r] \ Refused \subseteq db'[r] \cup archive'[r]
    BY <1>0, <1>4, <2>1, Retained DEF MemoryInv, Retaining, TypeOK
  <2> QED
    BY <1>0, <2>1, <2>2, <2>3 DEF MemoryInv
<1>5. ASSUME LoseReply, Backend PROVE MemoryInv'
  <2>1. running # NoCall /\ ~stored /\ Store /\ UNCHANGED <<up, mem>>
    BY <1>5 DEF LoseReply, Finish
  <2>2. running \in Refused'
    BY <1>0, <1>5, <2>1 DEF LoseReply, Finish, Refused, TypeOK
  <2>3. \A r \in Served : db'[r] \ Refused \subseteq mem[r] \cup {running}
    BY <2>1, Stores
  <2>4. \A r \in Served : mem[r] \ Refused \subseteq db'[r] \cup archive'[r]
    BY <1>0, <1>5, <2>1, Retained DEF MemoryInv, Retaining, TypeOK
  <2> QED
    BY <1>0, <2>1, <2>2, <2>3, <2>4 DEF MemoryInv
<1>6. ASSUME PublishDraft \/ PublishRows, Backend PROVE MemoryInv'
  <2>1. /\ stored /\ ~stored' /\ UNCHANGED <<up, db, archive>>
        /\ \A r \in Row : mem'[r] = draft[r] \/ (mem'[r] = mem[r] /\ r \notin touches[running])
    BY <1>0, <1>6 DEF PublishDraft, PublishRows, Finish, Copied, Backend, scriptVars, TypeOK, Rows
  <2>2. up /\ running # NoCall
    BY <1>0, <2>1 DEF CallInv, TypeOK
  <2>3. ASSUME NEW r \in Served
        PROVE  /\ draft[r] \ Refused \subseteq db[r] \cup archive[r]
               /\ db[r] \ Refused \subseteq draft[r]
               /\ mem[r] \ Refused \subseteq db[r] \cup archive[r]
               /\ r \notin touches[running] => db[r] \ Refused \subseteq mem[r]
    <3>1. mem[r] \ Refused \subseteq db[r] \cup archive[r]
      BY <1>0, <2>2 DEF MemoryInv
    <3>2. draft[r] \ Refused \subseteq mem[r] \cup {running} /\ db[r] \ Refused \subseteq draft[r]
      BY <1>0, <2>2 DEF TurnInv
    <3>3. running \in draft[r] \cup db[r] => r \in touches[running]
      BY <1>0
    <3>4. r \in touches[running] => running \in db[r] \cup archive[r]
      BY <1>0, <2>1, <2>2 DEF TurnInv
    <3>5. db[r] \ Refused \subseteq mem[r] \cup {running}
      BY <1>0, <2>2 DEF MemoryInv
    <3> QED
      BY <3>1, <3>2, <3>3, <3>4, <3>5
  <2>4. \A r \in Served : /\ mem'[r] \ Refused \subseteq db[r] \cup archive[r]
                          /\ db[r] \ Refused \subseteq mem'[r]
    BY <1>0, <2>1, <2>3
  <2> QED
    BY <1>0, <2>1, <2>4 DEF MemoryInv
<1>7. ASSUME Rollback, Backend PROVE MemoryInv'
  BY <1>1, <1>7 DEF Rollback, Finish, Retaining
<1>8. ASSUME NEW o \in Operation, Fetch(o), Backend PROVE MemoryInv'
  BY <1>1, <1>8 DEF Fetch, Retaining
<1>9. ASSUME NEW f \in fetched, Deliver(f), Backend PROVE MemoryInv'
  <2>1. \A r \in Served : mem'[r] = mem[r]
    BY <1>0, <1>9 DEF Deliver, TypeOK, Rows, Served
  <2> QED
    BY <1>1, <1>9, <2>1 DEF Deliver, Retaining
<1>10. ASSUME Crash \/ Stop PROVE MemoryInv'
  BY <1>10 DEF Crash, Stop, Gone, MemoryInv
<1>11. ASSUME Start, Backend PROVE MemoryInv'
  BY <1>11 DEF Start, MemoryInv
<1>12. CASE Reading
  BY <1>1, <1>12, Readings DEF Retaining
<1>13. CASE CommitImport
  BY <1>13 DEF CommitImport, MemoryInv
<1>14. CASE DeletePruned
  <2>1. /\ \A r \in Row : db'[r] \subseteq db[r]
        /\ UNCHANGED <<up, mem, running, stored>>
    BY <1>14 DEF DeletePruned
  <2> QED
    BY <1>0, <1>1, <1>14, <2>1 DEF Retaining
<1>15. CASE StartEdit
  BY <1>1, <1>15, Edits DEF Retaining
<1>16. CASE CommitTrim \/ CommitCost
  <2>1. PICK rehash : CommitEdit(rehash)
    BY <1>16 DEF CommitTrim, CommitCost
  <2>2. script.edit \in Call
    BY <2>1, Edits
  <2>3. CASE up
    <3>1. script.edit \in Refused'
      BY <1>0, <2>1, <2>2, <2>3 DEF CommitEdit, Refused, TypeOK
    <3>2. \A r \in Row : db'[r] \subseteq db[r] \cup Refused'
      BY <2>1, <3>1 DEF CommitEdit
    <3> QED
      BY <1>0, <1>1, <1>16, <2>1, <3>2 DEF CommitEdit, Retaining
  <2>4. CASE ~up
    BY <2>1, <2>4 DEF CommitEdit, MemoryInv
  <2> QED
    BY <2>3, <2>4
<1>17. CASE EndEdit
  BY <1>1, <1>17 DEF EndEdit, Retaining
<1>18. CASE Backend
  BY <1>2, <1>3, <1>4, <1>5, <1>6, <1>7, <1>8, <1>9, <1>10, <1>11, <1>18
     DEF Backend, Next, Starting
<1> QED
  BY <1>12, <1>13, <1>14, <1>15, <1>16, <1>17, <1>18 DEF MNext, Reading

\* The turn of a call goes on from what memory and database hold.
LEMMA StepTurn == IInv /\ MNext => TurnInv'
<1> SUFFICES ASSUME IInv, MNext, running' # NoCall PROVE TurnInv'
  BY DEF TurnInv
<1> USE DEF turnVars, dbVars, callVars
<1>0. /\ TypeOK /\ CallInv /\ ScriptType /\ TurnInv /\ MemoryInv
      /\ Served \subseteq Row /\ \A r \in Row : r \in Served \/ r \in Operation
      /\ Refused \subseteq Refused'
  BY Answers DEF IInv, Served, Row
\* The turn of a call goes on.
<1>1. ASSUME UNCHANGED <<running, draft, stored>>, Retaining,
             \A r \in Served : mem'[r] = mem[r],
             \A r \in Row : db'[r] \subseteq db[r] \cup Refused'
      PROVE  TurnInv'
  <2>1. running \in Call /\ running # NoCall /\ running \notin Refused
    BY <1>0, <1>1 DEF TypeOK, CallInv, Refused
  <2>2. touches'[running] = touches[running] /\ touches[running] \subseteq Row
    BY <1>0, <2>1, Answers, AskedOnly DEF CallInv, Kind, TypeOK
  <2>3. \A r \in Row : (db[r] \cup archive[r]) \ Refused \subseteq db'[r] \cup archive'[r]
    BY <1>1, Retained
  <2>4. \A r \in touches[running] : running \in draft[r]
    BY <1>0, <2>1 DEF TurnInv
  <2>5. \A r \in Served \cup touches[running] : db'[r] \ Refused' \subseteq draft[r]
    BY <1>0, <1>1, <2>1, <2>2 DEF TurnInv
  <2>6. \A r \in Served : draft[r] \ Refused' \subseteq mem'[r] \cup {running}
    BY <1>0, <1>1, <2>1 DEF TurnInv
  <2>7. \A r \in Operation \cap touches[running] :
            draft[r] \ Refused' \subseteq db'[r] \cup archive'[r] \cup {running}
    BY <1>0, <2>1, <2>2, <2>3 DEF TurnInv
  <2>8. stored => \A r \in touches[running] : running \in db'[r] \cup archive'[r]
    BY <1>0, <2>1, <2>2, <2>3 DEF TurnInv
  <2> QED
    BY <1>1, <2>2, <2>4, <2>5, <2>6, <2>7, <2>8 DEF TurnInv
<1>2. ASSUME NEW c \in Call, Submit(c), Backend PROVE TurnInv'
  BY <1>1, <1>2 DEF Submit, Retaining
<1>3. ASSUME Starting, Backend PROVE TurnInv'
  <2>1. /\ Begins
        /\ \A r \in Served : mem'[r] = mem[r]
    BY <1>3, Beginnings DEF Starting
  <2>2. PICK locked \in SUBSET Row :
            /\ draft' = Changed(running', locked)
            /\ Operation \cap touches[running'] \subseteq locked
    BY <1>3, Beginnings DEF Starting
  <2>3. /\ running' \in Call /\ touches' = touches /\ db' = db /\ archive' = archive
        /\ ~stored' /\ ~stored /\ up /\ touches[running'] \subseteq Row
    BY <1>0, <1>3, <2>1, Left DEF Begins, CallInv, TypeOK, Backend, scriptVars
  <2>4. \A r \in Row : draft'[r] = (IF r \in locked THEN db[r] ELSE mem[r])
                                    \cup (IF r \in touches[running'] THEN {running'} ELSE {})
    BY <2>2 DEF Changed
  <2>5. \A r \in Served : /\ db[r] \ Refused \subseteq mem[r]
                          /\ mem[r] \ Refused \subseteq db[r] \cup archive[r]
    BY <1>0, <2>3 DEF MemoryInv
  <2>6. \A r \in Served \cup touches[running'] : db[r] \ Refused \subseteq draft'[r]
    BY <1>0, <2>2, <2>3, <2>4, <2>5
  <2>7. \A r \in Served : draft'[r] \ Refused \subseteq mem[r] \cup {running'}
    BY <1>0, <2>4, <2>5
  <2>8. \A r \in Operation \cap touches[running'] : draft'[r] \subseteq db[r] \cup {running'}
    BY <2>2, <2>3, <2>4
  <2>9. \A r \in touches[running'] : running' \in draft'[r]
    BY <2>3, <2>4
  <2> QED
    BY <1>0, <2>1, <2>3, <2>6, <2>7, <2>8, <2>9 DEF TurnInv
<1>4. ASSUME Commit, Backend PROVE TurnInv'
  <2>1. /\ running # NoCall /\ ~stored /\ Store
        /\ UNCHANGED <<up, mem, running, draft, touches, archive>>
    BY <1>4 DEF Commit, Backend, scriptVars
  <2>2. \A r \in Row : (db[r] \cup archive[r]) \ Refused \subseteq db'[r] \cup archive[r]
    BY <1>4, <2>1, Retained DEF Retaining
  <2>3. /\ \A r \in Served \cup touches[running] : db'[r] \ Refused \subseteq draft[r]
        /\ \A r \in touches[running] : r \in Row /\ running \in db'[r]
    BY <2>1, Stores
  <2>4. \A r \in Operation \cap touches[running] :
            draft[r] \ Refused \subseteq db'[r] \cup archive[r] \cup {running}
    BY <1>0, <2>1, <2>2, <2>3 DEF TurnInv
  <2>5. /\ \A r \in touches[running] : running \in draft[r]
        /\ \A r \in Served : draft[r] \ Refused \subseteq mem[r] \cup {running}
    BY <1>0, <2>1 DEF TurnInv
  <2> QED
    BY <1>0, <2>1, <2>3, <2>4, <2>5 DEF TurnInv
<1>5. ASSUME PublishDraft \/ PublishRows \/ Rollback \/ LoseReply \/ Crash \/ Stop PROVE FALSE
  BY <1>5 DEF PublishDraft, PublishRows, Rollback, LoseReply, Crash, Stop, Finish, Gone
<1>6. ASSUME NEW o \in Operation, Fetch(o), Backend PROVE TurnInv'
  BY <1>1, <1>6 DEF Fetch, Retaining
<1>7. ASSUME NEW f \in fetched, Deliver(f), Backend PROVE TurnInv'
  <2>1. \A r \in Served : mem'[r] = mem[r]
    BY <1>0, <1>7 DEF Deliver, TypeOK, Rows, Served
  <2> QED
    BY <1>1, <1>7, <2>1 DEF Deliver, Retaining
<1>8. ASSUME Start \/ CommitImport PROVE FALSE
  BY <1>0, <1>8 DEF Start, CommitImport, TypeOK
<1>9. CASE Reading
  BY <1>1, <1>9, Readings DEF Retaining
<1>10. CASE DeletePruned
  <2>1. \A r \in Row : db'[r] \subseteq db[r]
    BY <1>10 DEF DeletePruned
  <2> QED
    BY <1>1, <1>10, <2>1 DEF DeletePruned, Retaining
<1>11. CASE StartEdit
  BY <1>1, <1>11, Edits DEF Retaining
<1>12. CASE CommitTrim \/ CommitCost
  <2>1. PICK rehash : CommitEdit(rehash)
    BY <1>12 DEF CommitTrim, CommitCost
  <2>2. script.edit \in Call /\ running # NoCall
    BY <2>1, Edits DEF CommitEdit
  <2>3. script.edit \in Refused'
    BY <1>0, <2>1, <2>2 DEF CommitEdit, Refused, TypeOK
  <2>4. \A r \in Row : db'[r] \subseteq db[r] \cup Refused'
    BY <2>1, <2>3 DEF CommitEdit
  <2> QED
    BY <1>1, <1>12, <2>1, <2>4 DEF CommitEdit, Retaining
<1>13. CASE EndEdit
  BY <1>1, <1>13 DEF EndEdit, Retaining
<1>14. CASE Backend
  BY <1>2, <1>3, <1>4, <1>5, <1>6, <1>7, <1>8, <1>14 DEF Backend, Next, Starting
<1> QED
  BY <1>8, <1>9, <1>10, <1>11, <1>12, <1>13, <1>14 DEF MNext, Reading

\* What scripts owe their backups, and which of them is an export.
LEMMA Owes ==
    ASSUME IInv, MNext
    PROVE  \/ UNCHANGED <<script, owed, backup>>
           \/ /\ script'.tool # "export" /\ script'.owed = {}
              /\ UNCHANGED <<owed, backup>>
           \/ /\ script'.tool = script.tool /\ script.tool # "export"
              /\ script'.owed = script.owed
              /\ UNCHANGED <<owed, backup>>
           \/ StartExport
           \/ ReadTable
           \/ WriteBackup
<1>0. ScriptType /\ script \in ScriptRecord
  BY DEF IInv, ScriptType, ScriptRecord
<1>1. CASE Backend
  BY <1>1 DEF Backend, scriptVars
<1>2. CASE Die \/ CommitImport \/ DeletePruned \/ EndEdit
  BY <1>2 DEF Die, CommitImport, DeletePruned, EndEdit, Over, NoScript
<1>3. CASE StartImport
  BY <1>3 DEF StartImport, Run, NoScript
<1>4. CASE StartPrune
  <2>1. PICK old \in SUBSET Row :
            /\ Run([NoScript EXCEPT !.tool = "prune",
                       !.got = [r \in Row |-> IF r \in old THEN db[r] ELSE {}]])
            /\ ended' = ended \cup (old \cap Operation)
    BY <1>4, Constants DEF StartPrune
  <2>2. script' = [NoScript EXCEPT !.tool = "prune",
                      !.got = [r \in Row |-> IF r \in old THEN db[r] ELSE {}]]
    BY <2>1, Runs
  <2>3. script'.tool = "prune" /\ script'.owed = {}
    BY <2>2 DEF NoScript
  <2> QED
    BY <1>4, <2>3 DEF StartPrune
<1>5. CASE WriteArchive
  BY <1>0, <1>5 DEF WriteArchive, ScriptRecord
<1>6. CASE StartEdit
  <2>1. PICK c \in Call : script' = [NoScript EXCEPT !.tool = "edit", !.edit = c]
    BY <1>6, Edits
  <2>2. script'.tool = "edit" /\ script'.owed = {}
    BY <2>1 DEF NoScript
  <2> QED
    BY <1>6, <2>2, Edits
<1>7. CASE CommitTrim \/ CommitCost
  BY <1>0, <1>7 DEF CommitTrim, CommitCost, CommitEdit, ScriptRecord
<1> QED
  BY <1>1, <1>2, <1>3, <1>4, <1>5, <1>6, <1>7 DEF MNext

\* The tables that were read, and the backup, hold what was stored for good.
LEMMA StepBackup == IInv /\ MNext => BackupInv'
<1> SUFFICES ASSUME IInv, MNext PROVE BackupInv'
  OBVIOUS
<1>0. /\ TypeOK /\ ScriptType /\ script \in ScriptRecord /\ BackupInv
      /\ Kept \cup Refused \subseteq Kept' \cup Refused'
      /\ Tables \in Seq(SUBSET Row) /\ Len(Tables) \in Nat
      /\ \A r \in Row : \E i \in 1..Len(Tables) : r \in Tables[i]
      /\ \A i \in 1..Len(Tables) : Tables[i] \subseteq Row
  BY Answers, Constants DEF IInv, ScriptType, ScriptRecord
\* Who was promised before and is promised now is the same call.
<1>1. \A c \in Kept \cup Refused : c \in Kept' =>
          /\ c \in Kept /\ touches'[c] = touches[c] /\ touches[c] \subseteq Row
          /\ \A r \in touches[c] : c \in db[r] \cup archive[r]
  <2>1. \A c \in Kept \cup Refused : c \in Kept' => c \in Kept
    BY Answers DEF Kept, Refused
  <2>2. \A c \in Kept : touches'[c] = touches[c] /\ touches[c] \subseteq Row
    BY <1>0, Answers, AskedOnly DEF IInv, CallInv, Kept, TypeOK
  <2>3. \A c \in Kept : \A r \in touches[c] : c \in db[r] \cup archive[r]
    BY DEF IInv, KeptInv
  <2> QED
    BY <2>1, <2>2, <2>3
<1>2. \A r \in Row : archive[r] \subseteq archive'[r] \/ CommitImport
  BY Steps, Retained
<1>3. \A r \in Row : archive[r] \subseteq archive'[r]
  BY <1>2 DEF CommitImport
<1>4. ASSUME UNCHANGED <<owed, backup>>
      PROVE  /\ owed' \subseteq Kept' \cup Refused'
             /\ \A c \in owed' \cap Kept' : \A r \in touches'[c] : c \in backup'[r] \cup archive'[r]
  BY <1>0, <1>1, <1>3, <1>4 DEF BackupInv
<1>5. CASE UNCHANGED <<script, owed, backup>>
  <2>1. script'.tool = "export" =>
            /\ script'.done <= Len(Tables)
            /\ \A c \in script'.owed \cap Kept' : \A i \in 1..script'.done :
                   \A r \in touches'[c] \cap Tables[i] : c \in script'.got[r] \cup archive'[r]
    BY <1>0, <1>1, <1>3, <1>5 DEF BackupInv
  <2> QED
    BY <1>0, <1>4, <1>5, <2>1 DEF BackupInv
<1>6. CASE /\ script'.tool # "export" /\ script'.owed \in {script.owed, {}}
           /\ UNCHANGED <<owed, backup>>
  BY <1>0, <1>4, <1>6 DEF BackupInv
<1>7. CASE StartExport
  <2>1. script' = [NoScript EXCEPT !.tool = "export", !.owed = Kept] /\ UNCHANGED <<owed, backup>>
    BY <1>7, Runs DEF StartExport
  <2>2. script'.done = 0 /\ script'.owed = Kept
    BY <2>1 DEF NoScript
  <2> QED
    BY <1>0, <1>4, <2>1, <2>2 DEF BackupInv
<1>8. CASE ReadTable
  <2>1. /\ script.tool = "export" /\ script.done < Len(Tables) /\ script.done \in Nat
        /\ script'.done = script.done + 1
        /\ script'.owed = script.owed
        /\ \A r \in Row : script'.got[r] =
               IF r \in Tables[script.done + 1] THEN db[r] ELSE script.got[r]
        /\ UNCHANGED <<owed, backup, archive>>
    BY <1>0, <1>8 DEF ReadTable, Exported, ScriptRecord
  <2>2. ASSUME NEW c \in script'.owed \cap Kept', NEW i \in 1..script'.done,
               NEW r \in touches'[c] \cap Tables[i]
        PROVE  c \in script'.got[r] \cup archive'[r]
    <3>1. /\ c \in script.owed \cap Kept /\ r \in touches[c] \cap Row
          /\ c \in db[r] \cup archive[r]
      BY <1>0, <1>1, <2>1, <2>2 DEF BackupInv
    <3>2. CASE r \in Tables[script.done + 1]
      BY <2>1, <3>1, <3>2
    <3>3. CASE r \notin Tables[script.done + 1]
      <4>1. i \in 1..script.done
        BY <2>1, <2>2, <3>3
      <4> QED
        BY <1>0, <2>1, <2>2, <3>1, <3>3, <4>1 DEF BackupInv
    <3> QED
      BY <3>2, <3>3
  <2>3. script'.done <= Len(Tables)
    BY <1>0, <2>1
  <2> QED
    BY <1>0, <1>4, <2>1, <2>2, <2>3 DEF BackupInv
<1>9. CASE WriteBackup
  <2>1. /\ script.tool = "export" /\ script.done = Len(Tables)
        /\ backup' = script.got /\ owed' = script.owed \cap Kept
        /\ script'.tool = "none" /\ script'.owed = {} /\ archive' = archive
    BY <1>9 DEF WriteBackup, Exported, Over, NoScript
  <2>2. ASSUME NEW c \in owed' \cap Kept', NEW r \in touches'[c]
        PROVE  c \in backup'[r] \cup archive'[r]
    <3>1. c \in script.owed \cap Kept /\ r \in touches[c] \cap Row
      BY <1>1, <2>1, <2>2
    <3>2. PICK i \in 1..Len(Tables) : r \in Tables[i]
      BY <1>0, <3>1
    <3> QED
      BY <1>0, <2>1, <3>1, <3>2 DEF BackupInv
  <2> QED
    BY <1>0, <2>1, <2>2 DEF BackupInv
<1> QED
  BY <1>5, <1>6, <1>7, <1>8, <1>9, Owes

\* Nobody changes what is settled, and nobody waits to.
LEMMA Settling ==
    ASSUME IInv, Backend
    PROVE  /\ Settled \subseteq Settled'
           /\ \A c \in Call, r \in Settled : r \in touches'[c] =>
                  /\ r \in touches[c]
                  /\ c \in Queued' \cup {running'} => c \in Queued \cup {running}
<1> USE DEF turnVars, dbVars, callVars
<1>0. TypeOK /\ NoCall \notin Call /\ Queued \subseteq Call
  BY AskedOnly, Constants DEF IInv
<1>1. \A c \in Call, r \in Row : r \in touches[c] => r \in touches'[c]
  BY Answers DEF MNext
<1>2. Settled \subseteq Settled'
  BY <1>1, Constants DEF Settled, Backend, scriptVars
<1>3. ASSUME touches' = touches, Queued' \cup {running'} \subseteq Queued \cup {running, NoCall}
      PROVE  \A c \in Call, r \in Settled : r \in touches'[c] =>
                  /\ r \in touches[c]
                  /\ c \in Queued' \cup {running'} => c \in Queued \cup {running}
  BY <1>0, <1>3
<1>4. ASSUME NEW a \in Call, Submit(a)
      PROVE  \A c \in Call, r \in Settled : r \in touches'[c] =>
                  /\ r \in touches[c]
                  /\ c \in Queued' \cup {running'} => c \in Queued \cup {running}
  <2>1. /\ touches[a] = {} /\ Queued' = Queued \cup {a} /\ running' = running
        /\ \E rs : touches' = [touches EXCEPT ![a] = rs]
    BY <1>4, Submits DEF Backend, scriptVars
  <2>2. \A c \in Call : c # a => touches'[c] = touches[c]
    BY <1>0, <2>1 DEF TypeOK
  <2>3. touches'[a] \cap Settled = {}
    BY <2>1 DEF Backend
  <2> QED
    BY <2>1, <2>2, <2>3
<1>5. CASE Starting
  <2>1. Begins
    BY <1>5, Beginnings DEF Starting
  <2>2. Queued = Queued' \cup {running'} /\ touches' = touches
    BY <2>1, Left DEF Begins
  <2> QED
    BY <1>2, <1>3, <2>2
<1>6. CASE Commit \/ Start \/ (\E o \in Operation : Fetch(o)) \/ (\E f \in fetched : Deliver(f))
  BY <1>2, <1>3, <1>6 DEF Commit, Start, Fetch, Deliver, Queued
<1>7. CASE PublishDraft \/ PublishRows \/ Rollback \/ LoseReply
  BY <1>2, <1>3, <1>7 DEF PublishDraft, PublishRows, Rollback, LoseReply, Finish, Queued
<1>8. CASE Crash \/ Stop
  BY <1>2, <1>3, <1>8 DEF Crash, Stop, Gone, Queued
<1> QED
  BY <1>2, <1>4, <1>5, <1>6, <1>7, <1>8 DEF Backend, Next, Starting

\* The rows that were read to be pruned stay as they were read.
LEMMA StepPrune == IInv /\ MNext => PruneInv'
<1> SUFFICES ASSUME IInv, MNext, script'.tool = "prune" PROVE PruneInv'
  BY DEF PruneInv
<1>0. /\ TypeOK /\ ScriptType /\ script \in ScriptRecord /\ PruneInv
      /\ Refused \subseteq Refused' /\ Queued \subseteq Call /\ NoCall \notin Call
  BY Answers, AskedOnly, Constants DEF IInv, ScriptType, ScriptRecord
<1>1. CASE Backend
  <2>1. /\ script' = script /\ archive' = archive /\ Found' = Found /\ Found \subseteq Row
    BY <1>1 DEF Backend, scriptVars, Found
  <2>2. ASSUME NEW r \in Found
        PROVE  db'[r] \ Refused \subseteq script.got[r] \cup archive[r]
    <3>1. /\ db[r] \ Refused \subseteq script.got[r] \cup archive[r]
          /\ \A c \in Call : r \in touches[c] => c # running
      BY <1>0, <2>1, <2>2 DEF PruneInv
    <3>2. CASE Commit \/ LoseReply
      <4>1. running # NoCall /\ ~stored /\ Store /\ running \in Call
        BY <1>0, <3>2 DEF Commit, LoseReply, TypeOK
      <4>2. r \notin touches[running]
        BY <3>1, <4>1
      <4>3. db'[r] \ Refused \subseteq db[r] \cup archive[r]
        BY <2>1, <2>2, <4>1, <4>2, Stores
      <4> QED
        BY <3>1, <4>3
    <3>3. CASE ~(Commit \/ LoseReply)
      <4>1. db' = db
        <5>1. CASE Starting
          BY <5>1, Beginnings DEF Starting, Begins
        <5> QED
          BY <1>1, <3>3, <5>1 DEF Backend, Next, Starting, Submit, PublishDraft, PublishRows,
                Fetch, Deliver, Rollback, Crash, Stop, Start, dbVars
      <4> QED
        BY <3>1, <4>1
    <3> QED
      BY <3>2, <3>3
  <2>3. ASSUME NEW r \in Found
        PROVE  /\ r \in Settled'
               /\ \A c \in Call : r \in touches'[c] => c \notin Queued' \cup {running'}
    <3>1. /\ r \in Settled
          /\ \A c \in Call : r \in touches[c] => c \notin Queued \cup {running}
      BY <1>0, <2>1, <2>3 DEF PruneInv
    <3> QED
      BY <1>1, <3>1, Settling
  <2>4. ASSUME NEW r \in Found
        PROVE  script.got[r] \ Refused \subseteq db'[r] \cup archive'[r]
    <3>1. /\ script.got[r] \ Refused \subseteq db[r] \cup archive[r]
          /\ (db[r] \cup archive[r]) \ Refused \subseteq db'[r] \cup archive'[r]
      BY <1>0, <1>1, <2>1, <2>4, Retained DEF PruneInv, Retaining
    <3> QED
      BY <3>1
  <2>5. \A r \in Found : script.done = 1 => script.got[r] \subseteq archive[r]
    BY <1>0, <2>1 DEF PruneInv
  <2> QED
    BY <1>0, <2>1, <2>2, <2>3, <2>4, <2>5 DEF PruneInv
<1>2. CASE StartPrune
  <2>1. PICK rs \in {SUBSET {r \in Log : Quiet(r)}, SUBSET {r \in Operation : Quiet(r)}} :
            \E old \in rs \ {{}} :
                /\ Run([NoScript EXCEPT !.tool = "prune",
                           !.got = [r \in Row |-> IF r \in old THEN db[r] ELSE {}]])
                /\ ended' = ended \cup (old \cap Operation)
    BY <1>2 DEF StartPrune
  <2>2. PICK old \in rs :
                /\ Run([NoScript EXCEPT !.tool = "prune",
                           !.got = [r \in Row |-> IF r \in old THEN db[r] ELSE {}]])
                /\ ended' = ended \cup (old \cap Operation)
    BY <2>1
  <2>3. \A r \in old : Quiet(r) /\ r \in Row /\ (r \in Log \/ r \in Operation)
    BY <2>1, <2>2, Constants
  <2>4. script' = [NoScript EXCEPT !.tool = "prune",
                      !.got = [r \in Row |-> IF r \in old THEN db[r] ELSE {}]]
    BY <2>2, Runs
  <2>5. script'.done = 0 /\ script'.got = [r \in Row |-> IF r \in old THEN db[r] ELSE {}]
    BY <2>4 DEF NoScript
  <2>6. UNCHANGED <<db, archive, touches, Queued, running>>
    BY <1>2 DEF StartPrune, DatabaseVars, dbVars, turnVars, callVars, Queued
  <2>7. Found' \subseteq old
    BY <2>5 DEF Found
  <2>8. \A r \in old : db[r] # {} /\ \A c \in Call : r \in touches[c] => c \notin Queued \cup {running}
    BY <1>0, <2>3 DEF Quiet, Queued
  <2>9. \A r \in old : r \in Settled'
    <3>1. \A r \in old : r \in Operation \/ (r \in Log /\ \E c \in Call : r \in touches[c])
      <4>1. \A r \in old : \A c \in db[r] : c \in Call /\ r \in touches[c]
        BY <1>0, <2>3 DEF IInv, SourceInv, Sound, TypeOK, Rows
      <4> QED
        BY <2>3, <2>8, <4>1
    <3> QED
      BY <2>2, <2>6, <3>1 DEF Settled
  <2>10. \A r \in old : script'.got[r] = db[r]
    BY <2>3, <2>5
  <2> QED
    BY <2>5, <2>6, <2>7, <2>8, <2>9, <2>10 DEF PruneInv
<1>3. CASE WriteArchive
  <2>1. /\ script.tool = "prune" /\ script'.got = script.got
        /\ UNCHANGED <<db, touches, ended, Queued, running>>
        /\ archive' = [r \in Row |-> archive[r] \cup script.got[r]]
    BY <1>0, <1>3 DEF WriteArchive, ScriptRecord, vars, dbVars, turnVars, callVars, Queued
  <2>2. Found' = Found /\ Found \subseteq Row /\ Settled' = Settled
    BY <2>1 DEF Found, Settled
  <2>3. \A r \in Row : archive'[r] = archive[r] \cup script.got[r]
    BY <2>1
  <2> QED
    BY <1>0, <2>1, <2>2, <2>3 DEF PruneInv
<1>4. CASE Die \/ WriteBackup \/ CommitImport \/ DeletePruned \/ EndEdit
  BY <1>4 DEF Die, WriteBackup, CommitImport, DeletePruned, EndEdit, Over, NoScript
<1>5. CASE StartExport \/ StartImport
  BY <1>5 DEF StartExport, StartImport, Run, NoScript
<1>6. CASE ReadTable
  BY <1>0, <1>6 DEF ReadTable, ScriptRecord
<1>7. CASE StartEdit
  BY <1>7, Edits
<1>8. CASE CommitTrim \/ CommitCost
  BY <1>8, Edits DEF CommitTrim, CommitCost
<1> QED
  BY <1>1, <1>2, <1>3, <1>4, <1>5, <1>6, <1>7, <1>8 DEF MNext

\* Nothing changes, nothing is broken.
LEMMA Stutters == IInv /\ UNCHANGED allVars => IInv'
<1> SUFFICES ASSUME IInv, UNCHANGED allVars PROVE IInv'
  OBVIOUS
<1>1. /\ Queued' = Queued /\ Fresh' = Fresh /\ Refused' = Refused /\ Kept' = Kept
      /\ Found' = Found /\ Settled' = Settled
  BY DEF allVars, vars, scriptVars, dbVars, turnVars, callVars, Queued, Fresh, Refused, Kept, Found,
         Settled
<1>2. TypeOK' /\ ScriptType' /\ CallInv'
  BY <1>1 DEF allVars, vars, scriptVars, dbVars, turnVars, callVars, IInv, TypeOK, ScriptType, CallInv
<1>3. SourceInv' /\ FreshInv' /\ KeptInv'
  BY <1>1 DEF allVars, vars, scriptVars, dbVars, turnVars, callVars, IInv, SourceInv, Sound, FreshInv,
              KeptInv
<1>4. TurnInv' /\ MemoryInv' /\ BackupInv' /\ PruneInv'
  BY <1>1 DEF allVars, vars, scriptVars, dbVars, turnVars, callVars, IInv, TurnInv, MemoryInv,
              BackupInv, PruneInv
<1> QED
  BY <1>2, <1>3, <1>4 DEF IInv

-----------------------------------------------------------------------------
(* Theorems.                                                               *)

\* The inductive invariant: what holds between memory, database, archive,
\* backup and the draft of the running call in every state of the backend and
\* of the scripts.
THEOREM Invariance == MSpec => []IInv
<1>1. MInit => IInv
  BY InitInv
<1>2. IInv /\ [MNext]_allVars => IInv'
  <2>1. IInv /\ MNext => IInv'
    BY StepType, StepCalls, StepSources, StepFresh, StepTurn, StepMemory, StepKept, StepBackup,
       StepPrune DEF IInv
  <2> QED
    BY <2>1, Stutters
<1> QED
  BY <1>1, <1>2, PTL DEF MSpec

\* Rows are sets of changes, a call whose turn it is waits no longer, and a
\* process that is down holds nothing: database.service.ts and the scripts.
THEOREM TypeCorrect == MSpec => [](TypeOK /\ ScriptType)
<1>1. IInv => TypeOK /\ ScriptType
  BY DEF IInv
<1> QED
  BY <1>1, Invariance, PTL

\* What a caller was told is stored can be read from memory as long as the
\* backend runs, in every table but the operations, whatever calls, failed
\* commits, lost replies, crashes and scripts came in between: this.database of
\* database.service.ts never lags behind an answer.
THEOREM StoredIsServed == MSpec => []MemoryServesTheStored
<1>1. IInv => MemoryServesTheStored
  <2> SUFFICES ASSUME IInv, up, NEW c \in Kept, NEW r \in touches[c] \ Operation
               PROVE  c \in mem[r] \cup archive[r]
    BY DEF MemoryServesTheStored
  <2>1. r \in Served /\ c \notin Refused /\ c # running
    BY Constants DEF IInv, TypeOK, CallInv, Served, Kept, Refused
  <2>2. c \in db[r] \cup archive[r]
    BY DEF IInv, KeptInv
  <2>3. db[r] \ Refused \subseteq mem[r] \cup {running}
    BY <2>1 DEF IInv, MemoryInv
  <2> QED
    BY <2>1, <2>2, <2>3
<1> QED
  BY <1>1, Invariance, PTL

-----------------------------------------------------------------------------
(* Refinement: what each step is to those who were promised something.     *)

RowsOf == [r \in Row |-> db[r] \cup archive[r]]
promiseVars == <<RowsOf, touches, told, owed, restores>>

LEMMA Stored ==
    ASSUME NEW c \in Call, told[c] = "none", touches[c] # {}, UNCHANGED <<touches, archive>>,
           \A r \in Row : db[r] \ Refused \subseteq db'[r],
           \A r \in Row : db'[r] \ Refused \subseteq
               db[r] \cup archive[r] \cup (IF r \in touches[c] THEN {c} ELSE {}),
           \A r \in touches[c] : c \in db'[r]
    PROVE  Promise!Store(c)
BY DEF Promise!Store, Promise!Refused, Refused

LEMMA Promised ==
    ASSUME IInv, IInv', MNext
    PROVE  Promise!Next \/ UNCHANGED promiseVars
<1> USE DEF turnVars, dbVars, callVars
<1>0. /\ TypeOK /\ CallInv /\ ScriptType /\ script \in ScriptRecord
      /\ \A c \in Call : kind[c] # "none" <=> touches[c] # {}
      /\ \A c \in Call : touches[c] \subseteq Row
  BY AskedOnly DEF IInv, ScriptType, ScriptRecord, TypeOK
<1>1. ASSUME UNCHANGED <<db, archive, touches, told, owed, restores>> PROVE UNCHANGED promiseVars
  BY <1>1 DEF promiseVars, RowsOf
<1>2. ASSUME NEW c \in Call, Promise!Change, UNCHANGED <<owed, restores>> PROVE Promise!Next
  BY <1>2 DEF Promise!Next
<1>3. ASSUME NEW c \in Call, Submit(c), Backend PROVE Promise!Next
  <2>1. PICK k \in Kind : \E rs \in Scope(k) : touches' = [touches EXCEPT ![c] = rs]
    BY <1>3 DEF Submit
  <2>2. PICK rs \in Scope(k) : touches' = [touches EXCEPT ![c] = rs]
    BY <2>1
  <2>3. rs \in (SUBSET Row) \ {{}} /\ touches[c] = {} /\ UNCHANGED <<db, told>>
    BY <1>0, <1>3, <2>2, Scopes DEF Submit
  <2>4. UNCHANGED <<archive, owed, restores>>
    BY <1>3 DEF Backend, scriptVars
  <2>5. Promise!Ask(c)
    BY <2>2, <2>3, <2>4 DEF Promise!Ask
  <2> QED
    BY <2>4, <2>5 DEF Promise!Next, Promise!Change
<1>4. CASE StartEdit
  <2>1. PICK c \in Call, rs \in (SUBSET Domain) \ {{}} :
            /\ kind[c] = "none" /\ touches' = [touches EXCEPT ![c] = rs]
            /\ UNCHANGED <<db, told, archive, owed, restores>>
    BY <1>4, Edits
  <2>2. rs \in (SUBSET Row) \ {{}} /\ touches[c] = {}
    BY <1>0, <2>1, Constants
  <2>3. Promise!Ask(c)
    BY <2>1, <2>2 DEF Promise!Ask
  <2> QED
    BY <2>1, <2>3 DEF Promise!Next, Promise!Change
<1>5. ASSUME Commit \/ LoseReply, Backend PROVE Promise!Next
  <2>1. /\ running # NoCall /\ ~stored /\ Store /\ running \in Call
        /\ UNCHANGED <<touches, archive, owed, restores>>
    BY <1>0, <1>5 DEF Commit, LoseReply, Finish, Backend, scriptVars, TypeOK
  <2>2. told[running] = "none" /\ touches[running] # {}
    BY <1>0, <2>1 DEF CallInv, Kind
  <2>3. Promise!Store(running)
    BY <2>1, <2>2, Stores, Stored DEF Promise!Store
  <2>4. CASE Commit
    BY <2>1, <2>3, <2>4 DEF Commit, Promise!Next, Promise!Change, Promise!Store
  <2>5. CASE LoseReply
    <3>1. Promise!Refuse(running)
      BY <2>1, <2>2, <2>5 DEF LoseReply, Finish, Promise!Refuse
    <3> QED
      BY <2>1, <2>3, <3>1 DEF Promise!Next, Promise!Change, Promise!Store
  <2> QED
    BY <1>5, <2>4, <2>5
<1>6. ASSUME PublishDraft \/ PublishRows, Backend PROVE Promise!Next
  <2>1. /\ stored /\ running # NoCall /\ running \in Call
        /\ told' = [told EXCEPT ![running] = "stored"]
        /\ UNCHANGED <<db, touches, archive, owed, restores>>
    BY <1>0, <1>6 DEF PublishDraft, PublishRows, Finish, Backend, scriptVars, CallInv, TypeOK
  <2>2. told[running] = "none" /\ touches[running] # {} /\ touches[running] \subseteq Row
    BY <1>0, <2>1 DEF CallInv, Kind
  <2>3. \A r \in touches[running] : running \in db[r] \cup archive[r]
    BY <2>1 DEF IInv, TurnInv
  <2>4. Promise!Confirm(running)
    BY <2>1, <2>2, <2>3 DEF Promise!Confirm
  <2> QED
    BY <2>1, <2>4 DEF Promise!Next, Promise!Change
<1>7. ASSUME Rollback, Backend PROVE Promise!Next
  <2>1. /\ running # NoCall /\ running \in Call
        /\ told' = [told EXCEPT ![running] = "failed"]
        /\ UNCHANGED <<db, touches, archive, owed, restores>>
    BY <1>0, <1>7 DEF Rollback, Finish, Backend, scriptVars, TypeOK
  <2>2. told[running] = "none" /\ touches[running] # {}
    BY <1>0, <2>1 DEF CallInv, Kind
  <2>3. Promise!Refuse(running)
    BY <2>1, <2>2 DEF Promise!Refuse
  <2> QED
    BY <2>1, <2>3 DEF Promise!Next, Promise!Change
<1>8. ASSUME \/ Starting \/ (\E o \in Operation : Fetch(o)) \/ (\E f \in fetched : Deliver(f))
             \/ Crash \/ Stop \/ Start,
             Backend
      PROVE  UNCHANGED promiseVars
  <2>1. UNCHANGED <<db, touches, told>>
    <3>1. CASE Starting
      BY <3>1, Beginnings DEF Starting, Begins
    <3> QED
      BY <1>8, <3>1 DEF Fetch, Deliver, Crash, Stop, Start
  <2> QED
    BY <1>1, <1>8, <2>1 DEF Backend, scriptVars
<1>9. CASE Die \/ StartExport \/ ReadTable \/ StartImport \/ StartPrune
  <2>1. UNCHANGED <<db, touches, told>>
    BY <1>9, Readings DEF Reading
  <2>2. UNCHANGED <<archive, owed, restores>>
    BY <1>9 DEF Die, StartExport, ReadTable, StartImport, StartPrune
  <2> QED
    BY <1>1, <2>1, <2>2
<1>10. CASE WriteArchive
  <2>1. /\ script.tool = "prune" /\ UNCHANGED <<db, touches, told, owed, restores>>
        /\ archive' = [r \in Row |-> archive[r] \cup script.got[r]]
    BY <1>10 DEF WriteArchive, vars
  <2>2. \A r \in Row : script.got[r] \ Refused \subseteq db[r] \cup archive[r]
    BY <2>1 DEF IInv, PruneInv, Found
  <2>3. Promise!Waver
    BY <2>1, <2>2 DEF Promise!Waver, Promise!Refused, Refused
  <2> QED
    BY <2>1, <2>3 DEF Promise!Next
<1>11. CASE DeletePruned
  <2>1. /\ \A r \in Row : db'[r] \subseteq db[r]
        /\ UNCHANGED <<touches, told, archive, owed, restores>>
    BY <1>11 DEF DeletePruned
  <2>2. \A r \in Row : (db[r] \cup archive[r]) \ Refused \subseteq db'[r] \cup archive[r]
    BY <1>11, <2>1, Retained DEF Retaining
  <2>3. Promise!Waver
    BY <2>1, <2>2 DEF Promise!Waver, Promise!Refused, Refused
  <2> QED
    BY <2>1, <2>3 DEF Promise!Next
<1>12. CASE WriteBackup
  <2>1. owed' \subseteq Kept /\ UNCHANGED <<db, archive, touches, told, restores>>
    BY <1>12 DEF WriteBackup, vars
  <2>2. Promise!BackUp
    BY <2>1 DEF Promise!BackUp, Kept
  <2> QED
    BY <2>2 DEF Promise!Next
<1>13. CASE CommitImport
  <2>1. /\ restores' = restores + 1 /\ UNCHANGED <<touches, owed>>
        /\ told' = [c \in Call |-> IF c \in Replaced(backup) THEN "replaced" ELSE told[c]]
    BY <1>13 DEF CommitImport
  <2>2. \A c \in Replaced(backup) : told[c] = "stored" /\ c \notin owed
    BY DEF Replaced, Kept, IInv, BackupInv
  <2>3. \A c \in Call : told'[c] = "stored" => \A r \in touches'[c] : c \in db'[r] \cup archive'[r]
    BY DEF IInv, KeptInv, Kept
  <2>4. Promise!Restore
    BY <1>0, <2>1, <2>2, <2>3 DEF Promise!Restore
  <2> QED
    BY <2>4 DEF Promise!Next
<1>14. CASE CommitTrim \/ CommitCost
  <2>1. PICK rehash : CommitEdit(rehash)
    BY <1>14 DEF CommitTrim, CommitCost
  <2>2. script.edit \in Call /\ script.edit # NoCall /\ script.edit \in Fresh
    BY <2>1, Edits, Constants
  <2>3. told[script.edit] = "none" /\ touches[script.edit] # {}
    BY <1>0, <2>2 DEF CallInv
  <2>4. /\ \A r \in Row : db'[r] = db[r] \cup (IF r \in touches[script.edit] THEN {script.edit} ELSE {})
        /\ UNCHANGED <<touches, archive, owed, restores>>
        /\ told' = [told EXCEPT ![script.edit] = IF up THEN "failed" ELSE @]
    BY <2>1 DEF CommitEdit
  <2>5. Promise!Store(script.edit)
    BY <1>0, <2>2, <2>3, <2>4, Stored DEF Promise!Store
  <2>6. CASE up
    <3>1. Promise!Refuse(script.edit)
      BY <2>3, <2>4, <2>6 DEF Promise!Refuse
    <3> QED
      BY <2>2, <2>4, <2>5, <3>1 DEF Promise!Next, Promise!Change, Promise!Store
  <2>7. CASE ~up
    <3>1. told' = told
      BY <1>0, <2>2, <2>4, <2>7 DEF TypeOK
    <3> QED
      BY <2>2, <2>4, <2>5, <3>1 DEF Promise!Next, Promise!Change, Promise!Store
  <2> QED
    BY <2>6, <2>7
<1>15. CASE EndEdit
  <2>1. /\ script.edit \in Call /\ script.edit # NoCall
        /\ UNCHANGED <<db, touches, archive, owed, restores>>
        /\ told' = [told EXCEPT ![script.edit] =
               IF @ = "none" /\ script.done = 1 THEN "stored" ELSE "failed"]
    BY <1>15, Edits DEF EndEdit
  <2>2. told[script.edit] \in {"none", "failed"} /\ touches[script.edit] # {}
    BY <1>0, <2>1 DEF CallInv
  <2>3. CASE told[script.edit] = "none" /\ script.done = 1
    <3>1. \A r \in touches[script.edit] : script.edit \in db[r] \cup archive[r]
      BY <2>1, <2>3 DEF IInv, KeptInv
    <3>2. Promise!Confirm(script.edit)
      BY <1>0, <2>1, <2>2, <2>3, <3>1 DEF Promise!Confirm
    <3> QED
      BY <2>1, <3>2 DEF Promise!Next, Promise!Change
  <2>4. CASE told[script.edit] = "none" /\ script.done # 1
    <3>1. Promise!Refuse(script.edit)
      BY <2>1, <2>2, <2>4 DEF Promise!Refuse
    <3> QED
      BY <2>1, <3>1 DEF Promise!Next, Promise!Change
  <2>5. CASE told[script.edit] = "failed"
    <3>1. told' = told
      BY <1>0, <2>1, <2>5 DEF TypeOK
    <3> QED
      BY <1>1, <2>1, <3>1
  <2> QED
    BY <2>2, <2>3, <2>4, <2>5
<1>16. CASE Backend
  BY <1>3, <1>5, <1>6, <1>7, <1>8, <1>16 DEF Backend, Next, Starting
<1> QED
  BY <1>4, <1>9, <1>10, <1>11, <1>12, <1>13, <1>14, <1>15, <1>16 DEF MNext

\* The database with the archive of its prunes keeps the promise made to the
\* callers of database.service.ts: every change is stored as a whole, and none
\* that was told to be stored is lost by a snapshot of a memory that lags
\* behind, by a row-level commit, by a restart or by a script; an import takes
\* away only what was not stored for good when its export began.
THEOREM PromiseIsKept == MSpec => KeepsThePromise
<1>1. MInit => Promise!Init
  BY DEF MInit, Init, Promise!Init, Nothing
<1>2. IInv /\ IInv' /\ [MNext]_allVars =>
          [Promise!Next]_<<[r \in Row |-> db[r] \cup archive[r]], touches, told, owed, restores>>
  <2>1. UNCHANGED allVars => UNCHANGED promiseVars
    BY DEF allVars, vars, dbVars, callVars, scriptVars, promiseVars, RowsOf
  <2> QED
    BY <2>1, Promised DEF promiseVars, RowsOf
<1> QED
  BY <1>1, <1>2, Invariance, PTL DEF MSpec, KeepsThePromise, Promise!Spec

-----------------------------------------------------------------------------
(* RetryChains: what a prune of operations deletes.                        *)

\* No operation that stays retries one that is deleted, along chains of any
\* length and form: the origin of a recent or running retry stays readable.
THEOREM KeptChainsAreWhole ==
    ASSUME NEW operations, NEW retryOf, NEW candidates \in SUBSET operations
    PROVE  \A o \in operations \ Deleted(operations, retryOf, candidates) :
               retryOf[o] \notin Deleted(operations, retryOf, candidates)
<1> DEFINE P == Protected(operations, retryOf, candidates)
<1> SUFFICES ASSUME NEW o \in operations,
                    o \notin candidates \/ o \in P,
                    retryOf[o] \in candidates
             PROVE  retryOf[o] \in P
  BY DEF Deleted
<1>1. SUFFICES ASSUME NEW S \in SUBSET candidates,
                      Closed(S, operations, retryOf, candidates)
               PROVE  retryOf[o] \in S
  BY DEF Protected
<1>2. o \in (operations \ candidates) \cup S
  BY <1>1 DEF Protected
<1> QED
  BY <1>1, <1>2 DEF Closed

\* A prune deletes no more than it has to: a candidate that no chain from an
\* operation that stays leads to is deleted, so every operation that is kept
\* for the sake of others is itself retried by one that stays.
THEOREM NothingIsKeptInVain ==
    ASSUME NEW operations, NEW retryOf, NEW candidates \in SUBSET operations,
           NEW p \in Protected(operations, retryOf, candidates)
    PROVE  \E o \in operations \ Deleted(operations, retryOf, candidates) : retryOf[o] = p
<1> DEFINE P == Protected(operations, retryOf, candidates)
<1>1. P \subseteq candidates
  BY DEF Protected
<1> SUFFICES ASSUME \A o \in (operations \ candidates) \cup P : retryOf[o] # p
             PROVE  FALSE
  BY <1>1 DEF Deleted
<1> DEFINE S == P \ {p}
<1>2. Closed(S, operations, retryOf, candidates)
  <2> SUFFICES ASSUME NEW o \in (operations \ candidates) \cup S, retryOf[o] \in candidates
               PROVE  retryOf[o] \in S
    BY DEF Closed
  <2>1. retryOf[o] # p
    OBVIOUS
  <2>2. retryOf[o] \in P
    <3> SUFFICES ASSUME NEW T \in SUBSET candidates,
                        Closed(T, operations, retryOf, candidates)
                 PROVE  retryOf[o] \in T
      BY DEF Protected
    <3>1. o \in (operations \ candidates) \cup T
      BY DEF Protected
    <3> QED
      BY <3>1 DEF Closed
  <2> QED
    BY <2>1, <2>2
<1>3. S \in SUBSET candidates
  BY <1>1
<1> QED
  BY <1>2, <1>3 DEF Protected
=============================================================================
