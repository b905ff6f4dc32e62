--------------------------- MODULE ProfitSummary ---------------------------
(***************************************************************************)
(* The stored daily summaries of a store beside the changes that make them *)
(* stale: profit-summary.service.ts, the requests that change mappings,    *)
(* ads, units and costs, and the runs of order-sync.service.ts that save   *)
(* orders in chunks.                                                       *)
(*                                                                         *)
(* A change and the refresh of its dates are two commits. Between them the *)
(* summaries are stale, and somebody must know which: a request by its     *)
(* local list, a run by the affectedDates that it writes into progressJson *)
(* with every chunk. What a summary says is what went into it.             *)
(***************************************************************************)
EXTENDS Naturals, FiniteSets

CONSTANTS
    Date,           \* payment dates: numbers from 1
    Item,           \* order items
    Request,        \* requests that change what summaries are made of
    Runs,           \* number of synchronisations, run one by one
    MaxAttempts,
    MaxChunks,      \* bound on chunks that are saved
    MaxFaults       \* bound on failed calls, aborts and crashes

ASSUME DateAssumption == Date \subseteq Nat \ {0}
ASSUME RequestAssumption == IsFiniteSet(Request)
ASSUME BoundAssumption == {Runs, MaxChunks, MaxFaults} \subseteq Nat /\ MaxAttempts \in Nat \ {0}

VARIABLES
    item,       \* payment date and revision of each saved item
    adjusted,   \* changes by requests that went into each date
    row,        \* the stored summary of each date
    request,    \* what each request is about to do, and for which dates
    op,         \* operations: status, attempts, affectedDates, result
    exec,       \* the run under way
    lost,       \* dates that nobody refreshes any more, and why
    chunks,     \* chunks so far
    faults      \* faults so far

vars == <<item, adjusted, row, request, op, exec, lost, chunks, faults>>

Run == 1..Runs
NoRow == [items |-> {}, adjusted |-> 0, stored |-> FALSE]

\* What the summary of a date is made of.
Input(d) == [items |-> {<<i, item[i]>> : i \in {j \in Item : item[j].date = d}},
             adjusted |-> adjusted[d], stored |-> TRUE]

Stale(d) == row[d].stored /\ row[d] # Input(d)

NoRun == [pc |-> "none", op |-> 0, dates |-> {}, local |-> {}, summary |-> "none",
          aborted |-> FALSE]

-----------------------------------------------------------------------------
Init ==
    /\ item = [i \in Item |-> [date |-> 0, rev |-> 0]]
    /\ adjusted = [d \in Date |-> 0]
    /\ row = [d \in Date |-> NoRow]
    /\ request = [q \in Request |-> [pc |-> "idle", from |-> {}, dates |-> {}]]
    /\ op = [n \in Run |-> [status |-> "queued", attempt |-> 0, dates |-> {}, summary |-> "none"]]
    /\ exec = NoRun
    /\ lost = {}
    /\ chunks = 0
    /\ faults = 0

Fault == faults < MaxFaults /\ faults' = faults + 1

\* The summaries of dates are computed and stored in one commit.
Refreshed(dates) ==
    /\ row' = [d \in Date |-> IF d \in dates THEN Input(d) ELSE row[d]]
    /\ lost' = {l \in lost : l.date \notin dates}

Removed(dates) ==
    /\ row' = [d \in Date |-> IF d \in dates THEN NoRow ELSE row[d]]
    /\ lost' = {l \in lost : l.date \notin dates}

\* Stale dates that their actor will never refresh.
Losses(dates, why) == [date : {d \in dates : Stale(d)}, why : {why}]
Forget(dates, why) == lost' = lost \cup Losses(dates, why)

-----------------------------------------------------------------------------
(* Requests: refreshStoreDateListBestEffort after the change.              *)

\* A mapping or an upload changes some dates.
ChangeDates(q) ==
    /\ request[q].pc = "idle"
    /\ \E dates \in (SUBSET Date) \ {{}} :
        /\ adjusted' = [d \in Date |-> IF d \in dates THEN adjusted[d] + 1 ELSE adjusted[d]]
        /\ request' = [request EXCEPT ![q] = [pc |-> "refresh", from |-> dates, dates |-> dates]]
    /\ UNCHANGED <<item, row, op, exec, lost, chunks, faults>>

\* A cost or a unit changes all dates from one on.
ChangeSince(q) ==
    /\ request[q].pc = "idle"
    /\ \E d \in Date : LET dates == {e \in Date : e >= d} IN
        /\ adjusted' = [e \in Date |-> IF e \in dates THEN adjusted[e] + 1 ELSE adjusted[e]]
        /\ request' = [request EXCEPT ![q] = [pc |-> "collect", from |-> dates, dates |-> {}]]
    /\ UNCHANGED <<item, row, op, exec, lost, chunks, faults>>

\* Variant: only the dates of orders are collected.
OrderDates(from) == {d \in from : \E i \in Item : item[i].date = d}

\* The dates from one on that have a summary, an order or an ad.
KnownDates(from) == {d \in from : row[d].stored \/ \E i \in Item : item[i].date = d}

CollectDates(q) ==
    /\ request[q].pc = "collect"
    /\ request' = [request EXCEPT ![q].pc = "refresh",
                                  ![q].dates = KnownDates(request[q].from)]
    /\ UNCHANGED <<item, adjusted, row, op, exec, lost, chunks, faults>>

RefreshAfter(q) ==
    /\ request[q].pc = "refresh"
    /\ Refreshed(request[q].dates)
    /\ request' = [request EXCEPT ![q].pc = "done"]
    /\ UNCHANGED <<item, adjusted, op, exec, chunks, faults>>

RefreshFails(q) ==
    /\ Fault
    /\ request[q].pc = "refresh"
    /\ request' = [request EXCEPT ![q].pc = "invalidate"]
    /\ UNCHANGED <<item, adjusted, row, op, exec, lost, chunks>>

InvalidateAfter(q) ==
    /\ request[q].pc = "invalidate"
    /\ Removed(request[q].dates)
    /\ request' = [request EXCEPT ![q].pc = "done"]
    /\ UNCHANGED <<item, adjusted, op, exec, chunks, faults>>

\* Both fail and the answer is still a success.
InvalidateFails(q) ==
    /\ Fault
    /\ request[q].pc = "invalidate"
    /\ Forget(request[q].dates, "unrefreshed")
    /\ request' = [request EXCEPT ![q].pc = "done"]
    /\ UNCHANGED <<item, adjusted, row, op, exec, chunks>>

-----------------------------------------------------------------------------
(* A run of a synchronisation.                                             *)

Current == exec.op

AttemptLeft(n) == op[n].attempt < MaxAttempts

Step(pc) == exec' = [exec EXCEPT !.pc = pc]

\* The run begins with the dates that earlier attempts left in progressJson.
Lease ==
    /\ exec.pc = "none"
    /\ \E n \in Run :
        /\ op[n].status = "queued"
        /\ \A m \in 1..(n - 1) : op[m].status \notin {"queued", "running"}
        /\ op' = [op EXCEPT ![n].status = "running", ![n].attempt = @ + 1]
        /\ exec' = [NoRun EXCEPT !.pc = "read", !.op = n,
                                 !.dates = op[n].dates, !.local = op[n].dates]
    /\ UNCHANGED <<item, adjusted, row, request, lost, chunks, faults>>

\* Variant: only the date an item moves to is affected.
NewDate(i, to) == {to}

\* The payment dates of an item before and after it is saved.
Affected(i, to) == {to, item[i].date} \ {0}

\* A chunk, and the dates it affects, in one commit.
SaveChunk ==
    /\ exec.pc = "read"
    /\ ~exec.aborted
    /\ chunks < MaxChunks
    /\ chunks' = chunks + 1
    /\ \E i \in Item, to \in Date :
        LET dates == exec.dates \cup Affected(i, to) IN
        /\ item' = [item EXCEPT ![i] = [date |-> to, rev |-> chunks']]
        /\ op' = [op EXCEPT ![Current].dates = dates]
        /\ exec' = [exec EXCEPT !.pc = "saved", !.dates = dates]
    /\ UNCHANGED <<adjusted, row, request, lost, faults>>

\* progress() after a chunk: the local record takes over the dates, and is
\* written. It refuses when the run has been aborted.
ReportChunk ==
    /\ exec.pc = "saved"
    /\ ~exec.aborted
    /\ exec' = [exec EXCEPT !.pc = "read", !.local = exec.dates]
    /\ op' = [op EXCEPT ![Current].dates = exec.dates]
    /\ UNCHANGED <<item, adjusted, row, request, lost, chunks, faults>>

ReportFails ==
    /\ Fault
    /\ exec.pc = "saved"
    /\ ~exec.aborted
    /\ exec' = [exec EXCEPT !.pc = "error", !.local = exec.dates]
    /\ UNCHANGED <<item, adjusted, row, request, op, lost, chunks>>

\* The stream is over.
EndOfStream ==
    /\ exec.pc = "read"
    /\ ~exec.aborted
    /\ Step("refresh")
    /\ UNCHANGED <<item, adjusted, row, request, op, lost, chunks, faults>>

RunRefreshes ==
    /\ exec.pc = "refresh"
    /\ Refreshed(exec.dates)
    /\ exec' = [exec EXCEPT !.pc = "final", !.summary = "SUCCEEDED"]
    /\ UNCHANGED <<item, adjusted, request, op, chunks, faults>>

RunCannotRefresh ==
    /\ Fault
    /\ exec.pc = "refresh"
    /\ Step("invalidate")
    /\ UNCHANGED <<item, adjusted, row, request, op, lost, chunks>>

RunInvalidates ==
    /\ exec.pc = "invalidate"
    /\ Removed(exec.dates)
    /\ exec' = [exec EXCEPT !.pc = "final", !.summary = "WARNING"]
    /\ UNCHANGED <<item, adjusted, request, op, chunks, faults>>

RunCannotInvalidate ==
    /\ Fault
    /\ exec.pc = "invalidate"
    /\ exec' = [exec EXCEPT !.pc = "final", !.summary = "WARNING"]
    /\ UNCHANGED <<item, adjusted, row, request, op, lost, chunks>>

\* The outcome and the state of the summaries are committed together.
Succeed ==
    /\ exec.pc = "final"
    /\ ~exec.aborted
    /\ op' = [op EXCEPT ![Current].status = "succeeded", ![Current].dates = exec.dates,
                        ![Current].summary = exec.summary]
    /\ exec' = NoRun
    /\ UNCHANGED <<item, adjusted, row, request, lost, chunks, faults>>

\* The watchdog, a heartbeat that failed: the run notices when it looks.
Abort ==
    /\ Fault
    /\ exec.pc \notin {"none", "error", "failed"}
    /\ exec' = [exec EXCEPT !.aborted = TRUE]
    /\ UNCHANGED <<item, adjusted, row, request, op, lost, chunks>>

NoticeAbort ==
    /\ exec.aborted
    /\ exec.pc \in {"read", "saved", "final"}
    /\ Step("error")
    /\ UNCHANGED <<item, adjusted, row, request, op, lost, chunks, faults>>

\* A request to Naver fails, or a commit.
Break ==
    /\ Fault
    /\ exec.pc \in {"read", "final"}
    /\ Step("error")
    /\ UNCHANGED <<item, adjusted, row, request, op, lost, chunks>>

\* The error path first writes the local record over progressJson. The
\* executor is over, and its own list with it.
RecordError ==
    /\ exec.pc = "error"
    /\ op' = [op EXCEPT ![Current].dates = exec.local]
    /\ exec' = [exec EXCEPT !.pc = "failed", !.dates = exec.local]
    /\ Forget(op[Current].dates \ exec.local, "overwritten")
    /\ UNCHANGED <<item, adjusted, row, request, chunks, faults>>

\* A second commit queues the operation again, or fails it for good and its
\* dates with it.
PersistFailure ==
    /\ exec.pc = "failed"
    /\ \E again \in BOOLEAN :
        /\ again => AttemptLeft(Current)
        /\ op' = [op EXCEPT ![Current].status = IF again THEN "queued" ELSE "failed"]
        /\ IF again THEN UNCHANGED lost ELSE Forget(op[Current].dates, "failed")
    /\ exec' = NoRun
    /\ UNCHANGED <<item, adjusted, row, request, chunks, faults>>

\* Either commit of the error path fails too, and the row stays as it is.
ErrorIsLost ==
    /\ Fault
    /\ exec.pc \in {"error", "failed"}
    /\ exec' = NoRun
    /\ UNCHANGED <<item, adjusted, row, request, op, lost, chunks>>

\* The lease of a run that is gone expires.
Expire ==
    /\ exec.pc = "none"
    /\ \E n \in Run :
        /\ op[n].status = "running"
        /\ IF AttemptLeft(n)
           THEN op' = [op EXCEPT ![n].status = "queued"] /\ UNCHANGED lost
           ELSE op' = [op EXCEPT ![n].status = "failed"] /\ Forget(op[n].dates, "failed")
    /\ UNCHANGED <<item, adjusted, row, request, exec, chunks, faults>>

Warned(n) == op[n].status = "succeeded" /\ op[n].summary = "WARNING"

\* retry-summary of a batch, for a run that ended with a warning. Its commits
\* are one step: a change between them owes a refresh of its own.
RetrySummary ==
    \E n \in Run :
        /\ Warned(n)
        /\ Refreshed(op[n].dates)
        /\ op' = [op EXCEPT ![n].summary = "SUCCEEDED"]
        /\ UNCHANGED <<item, adjusted, request, exec, chunks, faults>>

\* The refresh fails again, and the warning stays.
RetryInvalidates ==
    \E n \in Run :
        /\ Fault
        /\ Warned(n)
        /\ Removed(op[n].dates)
        /\ UNCHANGED <<item, adjusted, request, op, exec, chunks>>

\* The process dies: requests are cut between their two commits.
Crash ==
    /\ Fault
    /\ exec' = NoRun
    /\ LET cut == {q \in Request : request[q].pc \in {"collect", "refresh", "invalidate"}} IN
        /\ request' = [q \in Request |-> IF q \in cut THEN [request[q] EXCEPT !.pc = "done"]
                                                      ELSE request[q]]
        /\ Forget(UNION {request[q].from : q \in cut}, "unrefreshed")
    /\ UNCHANGED <<item, adjusted, row, op, chunks>>

Next ==
    \/ \E q \in Request :
        \/ ChangeDates(q)
        \/ ChangeSince(q)
        \/ CollectDates(q)
        \/ RefreshAfter(q)
        \/ RefreshFails(q)
        \/ InvalidateAfter(q)
        \/ InvalidateFails(q)
    \/ Lease
    \/ SaveChunk
    \/ ReportChunk
    \/ ReportFails
    \/ EndOfStream
    \/ RunRefreshes
    \/ RunCannotRefresh
    \/ RunInvalidates
    \/ RunCannotInvalidate
    \/ Succeed
    \/ Abort
    \/ NoticeAbort
    \/ Break
    \/ RecordError
    \/ PersistFailure
    \/ ErrorIsLost
    \/ Expire
    \/ RetrySummary
    \/ RetryInvalidates
    \/ Crash

\* Requests go on, streams end, runs settle and leases expire.
Fairness ==
    /\ \A q \in Request :
        WF_vars(CollectDates(q)) /\ WF_vars(RefreshAfter(q)) /\ WF_vars(InvalidateAfter(q))
    /\ WF_vars(Lease \/ ReportChunk \/ EndOfStream \/ RunRefreshes \/ RunInvalidates
               \/ Succeed \/ NoticeAbort \/ RecordError \/ PersistFailure
               \/ Expire)

Spec == Init /\ [][Next]_vars /\ Fairness

-----------------------------------------------------------------------------
(* Properties.                                                             *)

PC == {"none", "read", "saved", "refresh", "invalidate", "final", "error", "failed"}

\* Items, requests, operations and the run keep their shape; a run under way
\* is that of a running operation.
TypeOK ==
    /\ item \in [Item -> [date : Date \cup {0}, rev : 0..MaxChunks]]
    /\ adjusted \in [Date -> 0..Cardinality(Request)]
    /\ request \in [Request -> [pc : {"idle", "collect", "refresh", "invalidate", "done"},
                                from : SUBSET Date, dates : SUBSET Date]]
    /\ op \in [Run -> [status : {"queued", "running", "succeeded", "failed"},
                       attempt : 0..MaxAttempts, dates : SUBSET Date,
                       summary : {"none", "SUCCEEDED", "WARNING"}]]
    /\ exec \in [pc : PC, op : Run \cup {0}, dates : SUBSET Date, local : SUBSET Date,
                 summary : {"none", "SUCCEEDED", "WARNING"}, aborted : BOOLEAN]
    /\ exec.pc # "none" => op[Current].status = "running"
    /\ lost \subseteq [date : Date, why : {"unrefreshed", "overwritten", "failed"}]
    /\ chunks \in 0..MaxChunks
    /\ faults \in 0..MaxFaults

\* Who will still refresh a date: a request between its two commits, the run
\* of an operation or its next attempt, or the user who sees the warning.
Owed(d) ==
    \/ \E q \in Request : request[q].pc = "collect" /\ d \in request[q].from
    \/ \E q \in Request : request[q].pc \in {"refresh", "invalidate"} /\ d \in request[q].dates
    \/ exec.pc # "none" /\ d \in exec.dates
    \/ \E n \in Run :
        /\ d \in op[n].dates
        /\ op[n].status \in {"queued", "running"} \/ op[n].summary = "WARNING"

\* A summary that no longer says what the orders, mappings and costs of its
\* day say is one that somebody will refresh, or has been lost in one of the
\* three known ways: its request was cut, or failed to refresh and to
\* invalidate; its operation failed for good; the error path wrote an older
\* list over that of the last chunk. However refreshes and changes cross,
\* there is no other way.
StaleIsOwedOrLost == \A d \in Date : Stale(d) => Owed(d) \/ \E l \in lost : l.date = d

\* A summary does not stay stale, but in those ways or under a warning.
StaleIsSettled ==
    \A d \in Date : Stale(d) ~>
        \/ ~Stale(d)
        \/ \E l \in lost : l.date = d
        \/ \E n \in Run : op[n].summary = "WARNING" /\ d \in op[n].dates
=============================================================================
