--------------------------- MODULE CommittedStore ---------------------------
(***************************************************************************)
(* What the callers of the database service are promised: a change is      *)
(* stored as a whole or not at all, and once its caller is told that it is *)
(* stored nothing takes it away again but a restore, which takes away only *)
(* changes that its backup was not bound to hold. A change its caller was  *)
(* told had failed may be stored all the same, and may disappear later.    *)
(*                                                                         *)
(* A row is the set of the changes that went into its present value.       *)
(***************************************************************************)
EXTENDS Naturals

CONSTANTS
    Row,        \* the rows of all tables
    Call        \* the changes asked for

VARIABLES
    rows,       \* the changes in each row
    touches,    \* the rows each change writes, once it is asked for
    told,       \* what the caller of each change was told
    owed,       \* the changes that the backup at hand has to hold
    restores    \* restores so far

Answer == {"none", "stored", "failed", "replaced"}

Init ==
    /\ rows = [r \in Row |-> {}]
    /\ touches = [c \in Call |-> {}]
    /\ told = [c \in Call |-> "none"]
    /\ owed = {}
    /\ restores = 0

Ask(c) ==
    /\ touches[c] = {}
    /\ \E rs \in (SUBSET Row) \ {{}} : touches' = [touches EXCEPT ![c] = rs]
    /\ UNCHANGED <<rows, told>>

Refused == {c \in Call : told[c] \in {"failed", "replaced"}}

\* The change reaches all its rows in one step; changes that were refused may
\* leave with it, no other one does.
Store(c) ==
    /\ touches[c] # {}
    /\ told[c] = "none"
    /\ \A r \in Row :
        LET new == IF r \in touches[c] THEN {c} ELSE {} IN
        /\ new \cup (rows[r] \ Refused) \subseteq rows'[r]
        /\ rows'[r] \subseteq rows[r] \cup new \cup Refused
    /\ UNCHANGED touches

Confirm(c) ==
    /\ touches[c] # {}
    /\ told[c] = "none"
    /\ \A r \in touches[c] : c \in rows[r]
    /\ told' = [told EXCEPT ![c] = "stored"]
    /\ UNCHANGED <<rows, touches>>

\* Nothing else is stored when a change is refused.
Refuse(c) ==
    /\ touches[c] # {}
    /\ told' = [told EXCEPT ![c] = "failed"]
    /\ told[c] = "none"
    /\ UNCHANGED touches

\* Nobody counts on the changes that were refused: they come and go.
Waver ==
    /\ \A r \in Row : rows'[r] \ Refused = rows[r] \ Refused
    /\ UNCHANGED <<touches, told>>

\* A backup has to hold what was stored for good when it was begun.
BackUp ==
    /\ owed' \subseteq {c \in Call : told[c] = "stored"}
    /\ UNCHANGED <<rows, touches, told, restores>>

\* Whatever the backup was not bound to hold may be gone, or back.
Restore ==
    /\ restores' = restores + 1
    /\ \A c \in Call : told'[c] # told[c] =>
           told[c] = "stored" /\ told'[c] = "replaced" /\ c \notin owed
    /\ \A c \in Call : told'[c] = "stored" => \A r \in touches[c] : c \in rows'[r]
    /\ UNCHANGED <<touches, owed>>

Change ==
    \E c \in Call :
        \/ Ask(c)
        \/ Store(c) /\ UNCHANGED told
        \/ Confirm(c)
        \/ Refuse(c) /\ UNCHANGED rows
        \/ Refuse(c) /\ Store(c)

Next ==
    \/ BackUp
    \/ (Change \/ Waver) /\ UNCHANGED <<owed, restores>>
    \/ Restore

Spec == Init /\ [][Next]_<<rows, touches, told, owed, restores>>
=============================================================================
