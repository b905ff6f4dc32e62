---------------------------- MODULE Maintenance ----------------------------
(***************************************************************************)
(* The scripts that work on the database beside or instead of the backend: *)
(* src/scripts.                                                            *)
(*   export     every table is read by itself and written to a file        *)
(*   import     all tables are emptied and filled from the file, in one    *)
(*              transaction; refused while the backend answers             *)
(*   prune      old audit logs and ended operations go to an archive, then *)
(*              they are deleted                                           *)
(*   edit       order payloads are trimmed, or a cost setting is changed   *)
(*                                                                         *)
(* All but the import only warn of a running backend. An edit is a change  *)
(* like those of SnapshotPersistence; it is promised only when the backend *)
(* is down as it commits. One script runs at a time.                       *)
(***************************************************************************)
EXTENDS SnapshotPersistence

CONSTANTS
    Tables,     \* the tables, as sets of rows, in the order of an export
    MaxBeside   \* bound on the calls of a history with scripts

ASSUME TablesAssumption ==
    /\ Tables \in Seq(SUBSET Row)
    /\ UNION {Tables[i] : i \in 1..Len(Tables)} = Row
ASSUME BesideAssumption == MaxBeside \in Nat

VARIABLES
    ran,        \* a script has run
    script,     \* the script that runs
    backup,     \* the file of the last export
    owed,       \* what was stored for good when that export began
    archive,    \* the rows in the archive files
    ended,      \* operations that have ended long ago
    restores    \* imports so far

scriptVars == <<ran, script, backup, owed, archive, ended, restores>>
allVars == <<vars, scriptVars>>

NoScript == [tool |-> "none", done |-> 0, got |-> Nothing, edit |-> NoCall, owed |-> {}]
NoBackup == Nothing

Kept == {c \in Call : told[c] = "stored"}

-----------------------------------------------------------------------------
MInit ==
    /\ Init
    /\ ran = FALSE
    /\ script = NoScript
    /\ backup = NoBackup
    /\ owed = {}
    /\ archive = Nothing
    /\ ended = {}
    /\ restores = 0

\* Entries of the log are written once, operations that ended no more.
Settled == ended \cup {l \in Log : \E c \in Call : l \in touches[c]}

Asked == {c \in Call : kind[c] # "none"}

Backend ==
    /\ Next
    /\ \A c \in Call : touches'[c] # touches[c] =>
           touches'[c] \cap Settled = {} /\ (ran => Cardinality(Asked) < MaxBeside)
    /\ UNCHANGED scriptVars

\* A script is started, with what it reads first. Scripts are bounded together
\* with the faults.
Run(s) ==
    /\ script = NoScript
    /\ Cardinality(Asked) <= MaxBeside
    /\ Fault
    /\ ran' = TRUE
    /\ script' = s

\* What a script leaves alone.
DatabaseVars == <<up, dbVars, mem, turnVars, callVars, fetched>>

\* A script ends, or dies: its transaction is rolled back.
Over == script' = NoScript

Die ==
    /\ script # NoScript
    /\ script.edit = NoCall
    /\ Over
    /\ UNCHANGED <<vars, ran, backup, owed, archive, ended, restores>>

-----------------------------------------------------------------------------
(* db-export.mjs                                                           *)

StartExport ==
    /\ Run([NoScript EXCEPT !.tool = "export", !.owed = Kept])
    /\ UNCHANGED <<DatabaseVars, backup, owed, archive, ended, restores>>

\* The tables that an export reads: the configured ones and any other with payloads.
Exported == Tables

\* Each table is read by a statement of its own, outside a transaction.
ReadTable ==
    /\ script.tool = "export"
    /\ script.done < Len(Exported)
    /\ script' = [script EXCEPT
           !.done = @ + 1,
           !.got = [r \in Row |-> IF r \in Exported[script.done + 1] THEN db[r] ELSE @[r]]]
    /\ UNCHANGED <<vars, ran, backup, owed, archive, ended, restores>>

WriteBackup ==
    /\ script.tool = "export"
    /\ script.done = Len(Exported)
    /\ backup' = script.got
    /\ owed' = script.owed \cap Kept
    /\ Over
    /\ UNCHANGED <<vars, ran, archive, ended, restores>>

-----------------------------------------------------------------------------
(* db-import.mjs                                                           *)

\* The backend is looked for once, before the question whether to go on.
StartImport ==
    /\ ~up
    /\ backup # NoBackup
    /\ Run([NoScript EXCEPT !.tool = "import"])
    /\ UNCHANGED <<DatabaseVars, backup, owed, archive, ended, restores>>

\* What was stored for good and is no longer there.
Replaced(rows) ==
    {c \in Kept : \E r \in touches[c] : c \notin rows[r] \cup archive[r]}

\* The operator starts the backend once the import has ended, as its last line
\* says: nothing else keeps a backend away that was started since it was sought.
CommitImport ==
    /\ script.tool = "import"
    /\ ~up
    /\ db' = backup
    /\ hash' = backup
    /\ told' = [c \in Call |-> IF c \in Replaced(backup) THEN "replaced" ELSE told[c]]
    /\ restores' = restores + 1
    /\ Over
    /\ UNCHANGED <<up, mem, turnVars, kind, touches, fetched, faults>>
    /\ UNCHANGED <<ran, backup, owed, archive, ended>>

-----------------------------------------------------------------------------
(* prune-audit-logs.mjs and prune-operations.mjs                           *)

\* No call that changes the row is under way, and there is one to prune.
Quiet(r) ==
    /\ db[r] # {}
    /\ \A c \in Call : r \in touches[c] =>
           /\ running # c
           /\ \A i \in 1..Len(queue) : queue[i] # c

\* What is old enough is read: entries of the log, or ended operations.
StartPrune ==
    /\ \E rs \in {SUBSET {r \in Log : Quiet(r)}, SUBSET {r \in Operation : Quiet(r)}} :
           \E old \in rs \ {{}} :
               /\ Run([NoScript EXCEPT !.tool = "prune",
                          !.got = [r \in Row |-> IF r \in old THEN db[r] ELSE {}]])
               /\ ended' = ended \cup (old \cap Operation)
    /\ UNCHANGED <<DatabaseVars, backup, owed, archive, restores>>

\* The rows that a prune has read.
Found == {r \in Row : script.got[r] # {}}

\* The archive is renamed into place once it is complete.
WriteArchive ==
    /\ script.tool = "prune"
    /\ script.done = 0
    /\ archive' = [r \in Row |-> archive[r] \cup script.got[r]]
    /\ script' = [script EXCEPT !.done = 1]
    /\ UNCHANGED <<vars, ran, backup, owed, ended, restores>>

\* Variant: what is old by now is deleted, whether it was archived or not.
OldByNow == {r \in Log : Quiet(r)} \cup Found

\* The rows that were read, by their ids.
Pruned == Found

DeletePruned ==
    /\ script.tool = "prune"
    /\ script.done = 1
    /\ db' = [r \in Row |-> IF r \in Pruned THEN {} ELSE db[r]]
    /\ hash' = [r \in Row |-> IF r \in Pruned THEN {} ELSE hash[r]]
    /\ Over
    /\ UNCHANGED <<up, mem, turnVars, callVars, fetched, faults>>
    /\ UNCHANGED <<ran, backup, owed, archive, ended, restores>>

-----------------------------------------------------------------------------
(* The scripts that change rows. Trimming is one transaction and clears    *)
(* the hashes; costs are changed row by row, and the hashes stay.          *)

StartEdit ==
    \E c \in Call, rs \in (SUBSET (Domain \ Log)) \ {{}} :
        /\ kind[c] = "none"
        /\ Cardinality(Asked) < MaxBeside
        /\ kind' = [kind EXCEPT ![c] = "script"]
        /\ touches' = [touches EXCEPT ![c] = rs]
        /\ Run([NoScript EXCEPT !.tool = "edit", !.edit = c])
        /\ UNCHANGED <<up, dbVars, mem, turnVars, told, fetched>>
        /\ UNCHANGED <<backup, owed, archive, ended, restores>>

Edited(c) == {r \in touches[c] : db[r] # {}}

\* Rows are changed in the database alone: beside a running backend, of which
\* the operator was warned, the change is not to be relied on.
CommitEdit(rehash) ==
    LET c == script.edit IN
    /\ script.tool = "edit"
    /\ script.done = 0
    /\ Edited(c) = touches[c]
    /\ db' = [r \in Row |-> IF r \in touches[c] THEN db[r] \cup {c} ELSE db[r]]
    /\ hash' = [r \in Row |-> IF r \in touches[c] THEN rehash[r] ELSE hash[r]]
    /\ script' = [script EXCEPT !.done = 1]
    /\ told' = [told EXCEPT ![c] = IF up THEN "failed" ELSE @]
    /\ UNCHANGED <<up, mem, turnVars, kind, touches, fetched, faults>>
    /\ UNCHANGED <<ran, backup, owed, archive, ended, restores>>

CommitTrim == CommitEdit([r \in Row |-> NoHash])

CommitCost ==
    /\ script.tool = "edit"
    /\ Cardinality(touches[script.edit]) = 1
    /\ CommitEdit(hash)

\* The script ends, or dies before its commit.
EndEdit ==
    /\ script.edit # NoCall
    /\ told' = [told EXCEPT ![script.edit] =
           IF @ = "none" /\ script.done = 1 THEN "stored" ELSE "failed"]
    /\ Over
    /\ UNCHANGED <<up, dbVars, mem, turnVars, kind, touches, fetched, faults>>
    /\ UNCHANGED <<ran, backup, owed, archive, ended, restores>>

MNext ==
    \/ Backend
    \/ Die
    \/ StartExport
    \/ ReadTable
    \/ WriteBackup
    \/ StartImport
    \/ CommitImport
    \/ StartPrune
    \/ WriteArchive
    \/ DeletePruned
    \/ StartEdit
    \/ CommitTrim
    \/ CommitCost
    \/ EndEdit

MSpec == MInit /\ [][MNext]_allVars

-----------------------------------------------------------------------------
(* Properties.                                                             *)

\* What a caller was told is stored can be read from memory while the backend
\* runs, at once and ever after, until the operation it changed is read back
\* from the database or the row is in the archive: requests are answered from
\* memory alone.
MemoryServesTheStored ==
    up => \A c \in Kept : \A r \in touches[c] \ Operation : c \in mem[r] \cup archive[r]

\* Every change is stored as a whole, and no change whose caller was told it
\* is stored is ever lost: not to a snapshot taken from a memory that lags
\* behind, not to a row-level commit, not to a restart. A prune leaves it in
\* the archive, and an import takes away only what was not stored when its
\* export began, though that read the tables one by one beside the commits of
\* a running backend.
Promise == INSTANCE CommittedStore WITH rows <- [r \in Row |-> db[r] \cup archive[r]]
KeepsThePromise == Promise!Spec
=============================================================================
