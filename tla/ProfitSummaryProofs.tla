------------------------ MODULE ProfitSummaryProofs ------------------------
(***************************************************************************)
(* Theorems about ProfitSummary, for any dates, items, requests, runs and  *)
(* attempts: a stored summary that is stale is owed or known to be lost.   *)
(***************************************************************************)
EXTENDS ProfitSummary, FiniteSetTheorems, TLAPS

\* Who owes a date: a request, the run, an operation; or nobody any more.
ByRequest(d) ==
    \E q \in Request :
        \/ request[q].pc = "collect" /\ d \in request[q].from
        \/ request[q].pc \in {"refresh", "invalidate"} /\ d \in request[q].dates

ByOperation(n, d) ==
    /\ d \in op[n].dates
    /\ op[n].status \in {"queued", "running"} \/ op[n].summary = "WARNING"

Gone(d) == \E l \in lost : l.date = d

\* The requests that have changed something.
Busy == {q \in Request : request[q].pc # "idle"}

\* The shape of the state; every change counted in adjusted is of a request.
ShapeInv ==
    /\ item \in [Item -> [date : Date \cup {0}, rev : 0..MaxChunks]]
    /\ adjusted \in [Date -> Nat] /\ \A d \in Date : adjusted[d] <= Cardinality(Busy)
    /\ request \in [Request -> [pc : {"idle", "collect", "refresh", "invalidate", "done"},
                                from : SUBSET Date, dates : SUBSET Date]]
    /\ op \in [Run -> [status : {"queued", "running", "succeeded", "failed"},
                       attempt : 0..MaxAttempts, dates : SUBSET Date,
                       summary : {"none", "SUCCEEDED", "WARNING"}]]
    /\ exec \in [pc : PC, op : Run \cup {0}, dates : SUBSET Date, local : SUBSET Date,
                 summary : {"none", "SUCCEEDED", "WARNING"}, aborted : BOOLEAN]
    /\ lost \subseteq [date : Date, why : {"unrefreshed", "overwritten", "failed"}]
    /\ chunks \in 0..MaxChunks
    /\ faults \in 0..MaxFaults

\* A request refreshes only what it changed.
RequestInv == \A q \in Request : request[q].dates \subseteq request[q].from

\* An operation that waits has an attempt left, and only one that succeeded
\* can warn of its summaries.
OperationInv ==
    \A n \in Run :
        /\ op[n].status = "queued" => op[n].attempt < MaxAttempts
        /\ op[n].summary = "WARNING" => op[n].status = "succeeded"

\* The run knows the dates of its operation, and its local record no others.
RunInv ==
    /\ exec.pc # "none" =>
        /\ exec.op \in Run
        /\ op[exec.op].status = "running"
        /\ op[exec.op].dates = exec.dates
        /\ exec.local \subseteq exec.dates
    /\ exec.pc = "final" => exec.summary # "none"

\* Once a run has refreshed its dates, what is stale among them is owed by
\* somebody else.
FinalInv ==
    exec.pc = "final" /\ exec.summary = "SUCCEEDED" =>
        \A d \in exec.dates : Stale(d) =>
            ByRequest(d) \/ (\E n \in Run \ {exec.op} : ByOperation(n, d)) \/ Gone(d)

IInv == ShapeInv /\ RequestInv /\ OperationInv /\ RunInv /\ StaleIsOwedOrLost /\ FinalInv

-----------------------------------------------------------------------------
(* What changes of rows, items and losses mean for stale dates.            *)

LEMMA Constants ==
    /\ Date \subseteq Nat /\ 0 \notin Date /\ IsFiniteSet(Request)
    /\ Runs \in Nat /\ MaxChunks \in Nat /\ MaxFaults \in Nat /\ MaxAttempts \in Nat \ {0}
BY DateAssumption, RequestAssumption, BoundAssumption

LEMMA OwedBy ==
    ASSUME NEW d
    PROVE  Owed(d) <=> \/ ByRequest(d)
                       \/ exec.pc # "none" /\ d \in exec.dates
                       \/ \E n \in Run : ByOperation(n, d)
BY DEF Owed, ByRequest, ByOperation

LEMMA SameIsAsStale ==
    ASSUME UNCHANGED <<item, adjusted, row>>, NEW d
    PROVE  Stale(d)' <=> Stale(d)
BY DEF Stale, Input

\* What is refreshed is not stale, and other dates are as they were.
LEMMA RefreshedIsFresh ==
    ASSUME UNCHANGED <<item, adjusted>>, NEW dates, Refreshed(dates), NEW d \in Date
    PROVE  /\ d \in dates => ~Stale(d)'
           /\ d \notin dates => (Stale(d)' <=> Stale(d)) /\ (Gone(d) => Gone(d)')
<1>1. Input(d)' = Input(d)
  BY DEF Input
<1>2. row' = [e \in Date |-> IF e \in dates THEN Input(e) ELSE row[e]]
      /\ lost' = {l \in lost : l.date \notin dates}
  BY DEF Refreshed
<1> QED
  BY <1>1, <1>2 DEF Stale, Gone

LEMMA RemovedIsFresh ==
    ASSUME UNCHANGED <<item, adjusted>>, NEW dates, Removed(dates), NEW d \in Date
    PROVE  /\ d \in dates => ~Stale(d)'
           /\ d \notin dates => (Stale(d)' <=> Stale(d)) /\ (Gone(d) => Gone(d)')
<1>1. Input(d)' = Input(d)
  BY DEF Input
<1>2. row' = [e \in Date |-> IF e \in dates THEN NoRow ELSE row[e]]
      /\ lost' = {l \in lost : l.date \notin dates}
  BY DEF Removed
<1> QED
  BY <1>1, <1>2 DEF Stale, Gone, NoRow

LEMMA Lost ==
    ASSUME NEW dates, NEW why, Losses(dates, why) \subseteq lost', NEW d \in dates, Stale(d)
    PROVE  Gone(d)'
<1>1. [date |-> d, why |-> why] \in lost'
  BY DEF Losses
<1> QED
  BY <1>1 DEF Gone

LEMMA StillGone ==
    ASSUME lost \subseteq lost', NEW d, Gone(d)
    PROVE  Gone(d)'
BY DEF Gone

\* A change of some dates makes no other stale.
LEMMA Adjusted ==
    ASSUME ShapeInv, UNCHANGED <<item, row>>, NEW dates,
           adjusted' = [e \in Date |-> IF e \in dates THEN adjusted[e] + 1 ELSE adjusted[e]],
           NEW d \in Date, d \notin dates
    PROVE  Stale(d)' <=> Stale(d)
<1>1. adjusted'[d] = adjusted[d]
  OBVIOUS
<1> QED
  BY <1>1 DEF Stale, Input

\* An item that is saved makes only the dates stale that it comes from or goes to.
LEMMA Saved ==
    ASSUME ShapeInv, UNCHANGED <<adjusted, row>>, NEW i \in Item, NEW to \in Date, NEW r,
           item' = [item EXCEPT ![i] = [date |-> to, rev |-> r]],
           NEW d \in Date, d \notin Affected(i, to)
    PROVE  Stale(d)' <=> Stale(d)
<1>1. d # 0 /\ d # to /\ d # item[i].date
  BY Constants DEF Affected
<1>2. \A j \in Item : j # i => item'[j] = item[j]
  BY DEF ShapeInv
<1>3. item'[i].date = to
  BY DEF ShapeInv
<1>4. {j \in Item : item'[j].date = d} = {j \in Item : item[j].date = d}
  BY <1>1, <1>2, <1>3
<1>5. i \notin {j \in Item : item[j].date = d}
  BY <1>1
<1>6. {<<j, item'[j]>> : j \in {k \in Item : item'[k].date = d}}
      = {<<j, item[j]>> : j \in {k \in Item : item[k].date = d}}
  BY <1>2, <1>4, <1>5
<1> QED
  BY <1>6 DEF Stale, Input

-----------------------------------------------------------------------------
(* The shape of the state.                                                 *)

RequestType == [pc : {"idle", "collect", "refresh", "invalidate", "done"},
                from : SUBSET Date, dates : SUBSET Date]
OperationType == [status : {"queued", "running", "succeeded", "failed"},
                  attempt : 0..MaxAttempts, dates : SUBSET Date,
                  summary : {"none", "SUCCEEDED", "WARNING"}]
RunType == [pc : PC, op : Run \cup {0}, dates : SUBSET Date, local : SUBSET Date,
            summary : {"none", "SUCCEEDED", "WARNING"}, aborted : BOOLEAN]

LEMMA Shapes ==
    ASSUME ShapeInv
    PROVE  /\ request \in [Request -> RequestType] /\ op \in [Run -> OperationType]
           /\ exec \in RunType
           /\ \A q \in Request : request[q] \in RequestType
           /\ \A n \in Run : op[n] \in OperationType
           /\ exec.dates \in SUBSET Date /\ exec.local \in SUBSET Date /\ exec.aborted \in BOOLEAN
           /\ exec.pc \in PC
BY DEF ShapeInv, RequestType, OperationType, RunType

\* A step of a request changes that request alone.
LEMMA Requesting ==
    ASSUME ShapeInv, NEW q \in Request, NEW r \in RequestType, request[q].pc # "idle", r.pc # "idle",
           request' = [request EXCEPT ![q] = r], UNCHANGED adjusted
    PROVE  /\ request' \in [Request -> RequestType]
           /\ \A d \in Date : adjusted'[d] <= Cardinality(Busy')
<1>1. request' \in [Request -> RequestType] /\ request'[q] = r
      /\ \A p \in Request : p # q => request'[p] = request[p]
  BY Shapes
<1>2. Busy' = Busy
  BY <1>1 DEF Busy
<1> QED
  BY <1>1, <1>2 DEF ShapeInv

\* A request that begins is counted for the dates it changes.
LEMMA BeginRequest ==
    ASSUME ShapeInv, NEW q \in Request, NEW r \in RequestType, request[q].pc = "idle", r.pc # "idle",
           request' = [request EXCEPT ![q] = r], NEW dates,
           adjusted' = [d \in Date |-> IF d \in dates THEN adjusted[d] + 1 ELSE adjusted[d]]
    PROVE  /\ request' \in [Request -> RequestType]
           /\ adjusted' \in [Date -> Nat]
           /\ \A d \in Date : adjusted'[d] <= Cardinality(Busy')
<1>1. request' \in [Request -> RequestType] /\ request'[q] = r
      /\ \A p \in Request : p # q => request'[p] = request[p]
  BY Shapes
<1>2. Busy' = Busy \cup {q} /\ q \notin Busy
  BY <1>1 DEF Busy
<1>3. IsFiniteSet(Busy)
  BY Constants, FS_Subset DEF Busy
<1>4. Cardinality(Busy') = Cardinality(Busy) + 1 /\ Cardinality(Busy) \in Nat
  BY <1>2, <1>3, FS_AddElement, FS_CardinalityType
<1>5. adjusted \in [Date -> Nat] /\ \A d \in Date : adjusted[d] <= Cardinality(Busy)
  BY DEF ShapeInv
<1>6. ASSUME NEW d \in Date
      PROVE  adjusted'[d] \in Nat /\ adjusted'[d] <= Cardinality(Busy')
  BY <1>4, <1>5
<1> QED
  BY <1>1, <1>6

LossType == [date : Date, why : {"unrefreshed", "overwritten", "failed"}]

LEMMA LossesOf ==
    ASSUME NEW dates \in SUBSET Date, NEW why \in {"unrefreshed", "overwritten", "failed"}
    PROVE  Losses(dates, why) \subseteq LossType
BY DEF Losses, LossType

\* The run's record after each kind of change.
LEMMA RunUpdates ==
    ASSUME ShapeInv
    PROVE  /\ NoRun \in RunType /\ NoRun.pc = "none"
           /\ \A pc \in PC : [exec EXCEPT !.pc = pc] \in RunType
           /\ \A n \in Run, dates \in SUBSET Date :
                [NoRun EXCEPT !.pc = "read", !.op = n, !.dates = dates, !.local = dates] \in RunType
           /\ \A dates \in SUBSET Date : [exec EXCEPT !.pc = "saved", !.dates = dates] \in RunType
           /\ \A pc \in PC, dates \in SUBSET Date :
                [exec EXCEPT !.pc = pc, !.local = dates] \in RunType
           /\ \A dates \in SUBSET Date : [exec EXCEPT !.pc = "failed", !.dates = dates] \in RunType
           /\ \A s \in {"SUCCEEDED", "WARNING"} :
                [exec EXCEPT !.pc = "final", !.summary = s] \in RunType
           /\ [exec EXCEPT !.aborted = TRUE] \in RunType
BY Shapes DEF RunType, NoRun, PC

LEMMA OperationUpdates ==
    ASSUME ShapeInv, NEW n \in Run
    PROVE  /\ \A s \in {"queued", "running", "succeeded", "failed"} :
                [op[n] EXCEPT !.status = s] \in OperationType
           /\ \A dates \in SUBSET Date : [op[n] EXCEPT !.dates = dates] \in OperationType
           /\ \A dates \in SUBSET Date, s \in {"queued", "running", "succeeded", "failed"} :
                [op[n] EXCEPT !.dates = dates, !.status = s] \in OperationType
           /\ op[n].attempt < MaxAttempts =>
                [op[n] EXCEPT !.status = "running", !.attempt = op[n].attempt + 1] \in OperationType
           /\ \A dates \in SUBSET Date, s \in {"none", "SUCCEEDED", "WARNING"} :
                [op[n] EXCEPT !.status = "succeeded", !.dates = dates, !.summary = s] \in OperationType
           /\ [op[n] EXCEPT !.summary = "SUCCEEDED"] \in OperationType
<1>1. op[n] \in OperationType /\ MaxAttempts \in Nat
  BY Shapes, Constants
<1>2. ASSUME NEW s \in {"queued", "running", "succeeded", "failed"}, NEW dates \in SUBSET Date
      PROVE  /\ [op[n] EXCEPT !.status = s] \in OperationType
             /\ [op[n] EXCEPT !.dates = dates] \in OperationType
             /\ [op[n] EXCEPT !.dates = dates, !.status = s] \in OperationType
  BY <1>1 DEF OperationType
<1>3. ASSUME op[n].attempt < MaxAttempts
      PROVE  [op[n] EXCEPT !.status = "running", !.attempt = op[n].attempt + 1] \in OperationType
  <2> DEFINE a == op[n].attempt + 1
  <2>1. a \in 0..MaxAttempts
    BY <1>1, <1>3 DEF OperationType
  <2> HIDE DEF a
  <2>2. [op[n] EXCEPT !.status = "running", !.attempt = a] \in OperationType
    BY <1>1, <2>1 DEF OperationType
  <2> QED
    BY <2>2 DEF a
<1>4. ASSUME NEW dates \in SUBSET Date, NEW s \in {"none", "SUCCEEDED", "WARNING"}
      PROVE  [op[n] EXCEPT !.status = "succeeded", !.dates = dates, !.summary = s] \in OperationType
  BY <1>1 DEF OperationType
<1>5. [op[n] EXCEPT !.summary = "SUCCEEDED"] \in OperationType
  BY <1>1 DEF OperationType
<1> QED
  BY <1>2, <1>3, <1>4, <1>5

\* What a step has to keep of the shape, part by part.
LEMMA ShapeParts ==
    ASSUME item' \in [Item -> [date : Date \cup {0}, rev : 0..MaxChunks]],
           adjusted' \in [Date -> Nat], \A d \in Date : adjusted'[d] <= Cardinality(Busy'),
           request' \in [Request -> RequestType], op' \in [Run -> OperationType],
           exec' \in RunType, lost' \subseteq LossType,
           chunks' \in 0..MaxChunks, faults' \in 0..MaxFaults
    PROVE  ShapeInv'
BY DEF ShapeInv, RequestType, OperationType, RunType, LossType

LEMMA ShapeStep ==
    ASSUME IInv, [Next]_vars
    PROVE  ShapeInv'
<1>1. /\ item \in [Item -> [date : Date \cup {0}, rev : 0..MaxChunks]]
      /\ adjusted \in [Date -> Nat] /\ \A d \in Date : adjusted[d] <= Cardinality(Busy)
      /\ request \in [Request -> RequestType] /\ op \in [Run -> OperationType]
      /\ exec \in RunType /\ lost \subseteq LossType
      /\ chunks \in 0..MaxChunks /\ faults \in 0..MaxFaults
      /\ ShapeInv
  BY DEF IInv, ShapeInv, RequestType, OperationType, RunType, LossType
<1>2. UNCHANGED <<adjusted, request>> => /\ adjusted' \in [Date -> Nat]
                                         /\ \A d \in Date : adjusted'[d] <= Cardinality(Busy')
  BY <1>1 DEF Busy
<1>3. Fault => faults' \in 0..MaxFaults
  BY <1>1, Constants DEF Fault
<1>4. \A dates : Refreshed(dates) \/ Removed(dates) => lost' \subseteq LossType
  BY <1>1 DEF Refreshed, Removed
<1>5. \A dates \in SUBSET Date, why \in {"unrefreshed", "overwritten", "failed"} :
        Forget(dates, why) => lost' \subseteq LossType
  BY <1>1, LossesOf DEF Forget
<1>6. exec.pc # "none" => exec.op \in Run
  BY DEF IInv, RunInv
<1>7. ASSUME NEW q \in Request, ChangeDates(q) \/ ChangeSince(q)
      PROVE  ShapeInv'
  <2>1. UNCHANGED <<item, row, op, exec, lost, chunks, faults>> /\ request[q].pc = "idle"
    BY <1>7 DEF ChangeDates, ChangeSince
  <2>2. PICK dates \in SUBSET Date, r \in RequestType :
            /\ r.pc # "idle" /\ request' = [request EXCEPT ![q] = r]
            /\ adjusted' = [d \in Date |-> IF d \in dates THEN adjusted[d] + 1 ELSE adjusted[d]]
    <3>1. CASE ChangeDates(q)
      <4>1. PICK dates \in (SUBSET Date) \ {{}} :
            /\ adjusted' = [d \in Date |-> IF d \in dates THEN adjusted[d] + 1 ELSE adjusted[d]]
            /\ request' = [request EXCEPT ![q] = [pc |-> "refresh", from |-> dates, dates |-> dates]]
        BY <3>1 DEF ChangeDates
      <4>2. [pc |-> "refresh", from |-> dates, dates |-> dates] \in RequestType
        BY DEF RequestType
      <4> QED
        BY <4>1, <4>2
    <3>2. CASE ChangeSince(q)
      <4>1. PICK c \in Date : LET dates == {e \in Date : e >= c} IN
            /\ adjusted' = [e \in Date |-> IF e \in dates THEN adjusted[e] + 1 ELSE adjusted[e]]
            /\ request' = [request EXCEPT ![q] = [pc |-> "collect", from |-> dates, dates |-> {}]]
        BY <3>2 DEF ChangeSince
      <4> DEFINE dates == {e \in Date : e >= c}
      <4>2. dates \in SUBSET Date
        OBVIOUS
      <4> HIDE DEF dates
      <4>3. [pc |-> "collect", from |-> dates, dates |-> {}] \in RequestType
        BY <4>2 DEF RequestType
      <4>4. /\ adjusted' = [e \in Date |-> IF e \in dates THEN adjusted[e] + 1 ELSE adjusted[e]]
            /\ request' = [request EXCEPT ![q] = [pc |-> "collect", from |-> dates, dates |-> {}]]
        BY <4>1 DEF dates
      <4> QED
        BY <4>2, <4>3, <4>4
    <3> QED
      BY <1>7, <3>1, <3>2
  <2>3. /\ request' \in [Request -> RequestType]
        /\ adjusted' \in [Date -> Nat]
        /\ \A d \in Date : adjusted'[d] <= Cardinality(Busy')
    BY <1>1, <2>1, <2>2, BeginRequest
  <2> QED
    BY <1>1, <2>1, <2>3, ShapeParts
<1>8. ASSUME NEW q \in Request,
             CollectDates(q) \/ RefreshAfter(q) \/ RefreshFails(q) \/ InvalidateAfter(q)
             \/ InvalidateFails(q)
      PROVE  ShapeInv'
  <2>1. UNCHANGED <<item, adjusted, op, exec, chunks>> /\ request[q].pc # "idle"
    BY <1>8 DEF CollectDates, RefreshAfter, RefreshFails, InvalidateAfter, InvalidateFails
  <2>2. faults' \in 0..MaxFaults
    BY <1>1, <1>3, <1>8 DEF CollectDates, RefreshAfter, RefreshFails, InvalidateAfter, InvalidateFails
  <2>3. request[q] \in RequestType /\ request[q].dates \in SUBSET Date
    BY <1>1 DEF RequestType
  <2>4. lost' \subseteq LossType
    BY <1>1, <1>4, <1>5, <1>8, <2>3
       DEF CollectDates, RefreshAfter, RefreshFails, InvalidateAfter, InvalidateFails
  <2>5. PICK r \in RequestType : r.pc # "idle" /\ request' = [request EXCEPT ![q] = r]
    <3>1. KnownDates(request[q].from) \in SUBSET Date
      BY <2>3 DEF KnownDates, RequestType
    <3>2. CASE CollectDates(q)
      <4> DEFINE r == [request[q] EXCEPT !.pc = "refresh", !.dates = KnownDates(request[q].from)]
      <4>1. r \in RequestType /\ r.pc # "idle"
        BY <2>3, <3>1 DEF RequestType
      <4>2. request' = [request EXCEPT ![q] = r]
        BY <1>1, <3>2 DEF CollectDates
      <4> QED
        BY <4>1, <4>2
    <3>3. CASE ~CollectDates(q)
      <4>1. PICK pc \in {"invalidate", "done"} : request' = [request EXCEPT ![q].pc = pc]
        BY <1>8, <3>3 DEF RefreshAfter, RefreshFails, InvalidateAfter, InvalidateFails
      <4> DEFINE r == [request[q] EXCEPT !.pc = pc]
      <4>2. r \in RequestType /\ r.pc # "idle"
        BY <2>3 DEF RequestType
      <4>3. request' = [request EXCEPT ![q] = r]
        BY <1>1, <4>1
      <4> QED
        BY <4>2, <4>3
    <3> QED
      BY <3>2, <3>3
  <2>6. /\ request' \in [Request -> RequestType]
        /\ \A d \in Date : adjusted'[d] <= Cardinality(Busy')
    BY <1>1, <2>1, <2>5, Requesting
  <2> QED
    BY <1>1, <2>1, <2>2, <2>4, <2>6, ShapeParts
<1>9. CASE Lease
  <2>1. PICK n \in Run :
            /\ op[n].status = "queued"
            /\ op' = [op EXCEPT ![n].status = "running", ![n].attempt = @ + 1]
            /\ exec' = [NoRun EXCEPT !.pc = "read", !.op = n, !.dates = op[n].dates, !.local = op[n].dates]
    BY <1>9 DEF Lease
  <2>2. op[n].attempt < MaxAttempts /\ op[n].dates \in SUBSET Date
    BY <1>1, <2>1 DEF IInv, OperationInv, OperationType
  <2>3. op' = [op EXCEPT ![n] = [op[n] EXCEPT !.status = "running", !.attempt = op[n].attempt + 1]]
    BY <1>1, <2>1
  <2>4. op' \in [Run -> OperationType]
    BY <1>1, <2>2, <2>3, OperationUpdates
  <2>5. exec' \in RunType
    BY <1>1, <2>1, <2>2, RunUpdates
  <2>6. UNCHANGED <<item, adjusted, row, request, lost, chunks, faults>>
    BY <1>9 DEF Lease
  <2> QED
    BY <1>1, <1>2, <2>4, <2>5, <2>6, ShapeParts
<1>10. CASE SaveChunk
  <2>1. PICK i \in Item, to \in Date :
        LET dates == exec.dates \cup Affected(i, to) IN
        /\ item' = [item EXCEPT ![i] = [date |-> to, rev |-> chunks']]
        /\ op' = [op EXCEPT ![Current].dates = dates]
        /\ exec' = [exec EXCEPT !.pc = "saved", !.dates = dates]
    BY <1>10 DEF SaveChunk
  <2> DEFINE dates == exec.dates \cup Affected(i, to)
  <2>2. dates \in SUBSET Date
    <3>1. item[i].date \in Date \cup {0}
      BY <1>1
    <3> QED
      BY <1>1, <3>1, Shapes DEF Affected
  <2>3. exec.op \in Run
    BY <1>6, <1>10 DEF SaveChunk
  <2>4. /\ item' = [item EXCEPT ![i] = [date |-> to, rev |-> chunks']]
        /\ op' = [op EXCEPT ![exec.op] = [op[exec.op] EXCEPT !.dates = dates]]
        /\ exec' = [exec EXCEPT !.pc = "saved", !.dates = dates]
    BY <1>1, <2>1, <2>3 DEF Current
  <2> HIDE DEF dates
  <2>5. op' \in [Run -> OperationType] /\ exec' \in RunType
    BY <1>1, <2>2, <2>3, <2>4, OperationUpdates, RunUpdates
  <2>6. chunks' \in 0..MaxChunks /\ UNCHANGED <<adjusted, row, request, lost, faults>>
    BY <1>1, <1>10, Constants DEF SaveChunk
  <2>7. item' \in [Item -> [date : Date \cup {0}, rev : 0..MaxChunks]]
    BY <1>1, <2>4, <2>6
  <2> QED
    BY <1>1, <1>2, <2>5, <2>6, <2>7, ShapeParts
<1>11. CASE ReportChunk
  <2>1. exec.op \in Run /\ UNCHANGED <<item, adjusted, row, request, lost, chunks, faults>>
    BY <1>6, <1>11 DEF ReportChunk
  <2>2. op' = [op EXCEPT ![exec.op] = [op[exec.op] EXCEPT !.dates = exec.dates]]
    BY <1>1, <1>11, <2>1 DEF ReportChunk, Current
  <2>3. exec.dates \in SUBSET Date /\ exec' = [exec EXCEPT !.pc = "read", !.local = exec.dates] /\ "read" \in PC
    BY <1>1, <1>11, Shapes DEF ReportChunk, PC
  <2>4. op' \in [Run -> OperationType] /\ exec' \in RunType
    BY <1>1, <2>1, <2>2, <2>3, OperationUpdates, RunUpdates
  <2> QED
    BY <1>1, <1>2, <2>1, <2>4, ShapeParts
<1>12. CASE ReportFails
  <2>1. exec.dates \in SUBSET Date /\ exec' = [exec EXCEPT !.pc = "error", !.local = exec.dates] /\ "error" \in PC
    BY <1>1, <1>12, Shapes DEF ReportFails, PC
  <2>2. exec' \in RunType
    BY <1>1, <2>1, RunUpdates
  <2>3. UNCHANGED <<item, adjusted, row, request, op, lost, chunks>> /\ Fault
    BY <1>12 DEF ReportFails
  <2> QED
    BY <1>1, <1>2, <1>3, <2>2, <2>3, ShapeParts
<1>13. CASE EndOfStream \/ RunCannotRefresh \/ NoticeAbort \/ Break
  <2>1. PICK pc \in PC : exec' = [exec EXCEPT !.pc = pc]
    BY <1>13 DEF EndOfStream, RunCannotRefresh, NoticeAbort, Break, Step, PC
  <2>2. exec' \in RunType
    BY <1>1, <2>1, RunUpdates
  <2>3. UNCHANGED <<item, adjusted, request, op, lost, chunks>> /\ (Fault \/ UNCHANGED faults)
    BY <1>13 DEF EndOfStream, RunCannotRefresh, NoticeAbort, Break
  <2> QED
    BY <1>1, <1>2, <1>3, <2>2, <2>3, ShapeParts
<1>14. CASE RunRefreshes \/ RunInvalidates \/ RunCannotInvalidate
  <2>1. PICK s \in {"SUCCEEDED", "WARNING"} : exec' = [exec EXCEPT !.pc = "final", !.summary = s]
    BY <1>14 DEF RunRefreshes, RunInvalidates, RunCannotInvalidate
  <2>2. exec' \in RunType
    BY <1>1, <2>1, RunUpdates
  <2>3. UNCHANGED <<item, adjusted, request, op, chunks>> /\ (Fault \/ UNCHANGED faults)
    BY <1>14 DEF RunRefreshes, RunInvalidates, RunCannotInvalidate
  <2>4. lost' \subseteq LossType
    BY <1>1, <1>4, <1>14 DEF RunRefreshes, RunInvalidates, RunCannotInvalidate
  <2> QED
    BY <1>1, <1>2, <1>3, <2>2, <2>3, <2>4, ShapeParts
<1>15. CASE Succeed
  <2>1. exec.op \in Run /\ UNCHANGED <<item, adjusted, row, request, lost, chunks, faults>>
        /\ exec' = NoRun
    BY <1>6, <1>15 DEF Succeed
  <2>2. op' = [op EXCEPT ![exec.op] = [op[exec.op] EXCEPT !.status = "succeeded",
                                              !.dates = exec.dates, !.summary = exec.summary]]
    BY <1>1, <1>15, <2>1 DEF Succeed, Current
  <2>3. exec.dates \in SUBSET Date /\ exec.summary \in {"none", "SUCCEEDED", "WARNING"}
    BY <1>1 DEF RunType
  <2>4. op' \in [Run -> OperationType] /\ exec' \in RunType
    BY <1>1, <2>1, <2>2, <2>3, OperationUpdates, RunUpdates
  <2> QED
    BY <1>1, <1>2, <2>1, <2>4, ShapeParts
<1>16. CASE Abort
  <2>1. exec' = [exec EXCEPT !.aborted = TRUE] /\ Fault
        /\ UNCHANGED <<item, adjusted, row, request, op, lost, chunks>>
    BY <1>16 DEF Abort
  <2>2. exec' \in RunType
    BY <1>1, <2>1, RunUpdates
  <2> QED
    BY <1>1, <1>2, <1>3, <2>1, <2>2, ShapeParts
<1>17. CASE RecordError
  <2>1. exec.op \in Run /\ UNCHANGED <<item, adjusted, row, request, chunks, faults>>
    BY <1>6, <1>17 DEF RecordError
  <2>2. /\ op' = [op EXCEPT ![exec.op] = [op[exec.op] EXCEPT !.dates = exec.local]]
        /\ exec' = [exec EXCEPT !.pc = "failed", !.dates = exec.local]
        /\ Forget(op[exec.op].dates \ exec.local, "overwritten")
    BY <1>1, <1>17, <2>1 DEF RecordError, Current
  <2>3. op[exec.op].dates \in SUBSET Date /\ exec.local \in SUBSET Date
    BY <1>1, <2>1, Shapes DEF OperationType
  <2>4. (op[exec.op].dates \ exec.local) \in SUBSET Date
    BY <2>3
  <2>5. lost' \subseteq LossType
    BY <1>5, <2>2, <2>4
  <2>6. op' \in [Run -> OperationType] /\ exec' \in RunType
    BY <1>1, <2>1, <2>2, <2>3, OperationUpdates, RunUpdates
  <2> QED
    BY <1>1, <1>2, <2>1, <2>5, <2>6, ShapeParts
<1>18. CASE ErrorIsLost
  <2>1. exec' = NoRun /\ Fault /\ UNCHANGED <<item, adjusted, row, request, op, lost, chunks>>
    BY <1>18 DEF ErrorIsLost
  <2> QED
    BY <1>1, <1>2, <1>3, <2>1, RunUpdates, ShapeParts
<1>19. CASE Expire
  <2>1. PICK n \in Run :
            IF AttemptLeft(n)
            THEN op' = [op EXCEPT ![n].status = "queued"] /\ UNCHANGED lost
            ELSE op' = [op EXCEPT ![n].status = "failed"] /\ Forget(op[n].dates, "failed")
    BY <1>19 DEF Expire
  <2>2. op[n].dates \in SUBSET Date
    BY <1>1 DEF OperationType
  <2>3. PICK s \in {"queued", "failed"} : op' = [op EXCEPT ![n] = [op[n] EXCEPT !.status = s]]
    BY <1>1, <2>1
  <2>4. op' \in [Run -> OperationType]
    BY <1>1, <2>3, OperationUpdates
  <2>5. lost' \subseteq LossType
    BY <1>1, <1>5, <2>1, <2>2
  <2>6. UNCHANGED <<item, adjusted, row, request, exec, chunks, faults>>
    BY <1>19 DEF Expire
  <2> QED
    BY <1>1, <1>2, <2>4, <2>5, <2>6, ShapeParts
<1>20. CASE RetrySummary
  <2>1. PICK n \in Run : /\ Refreshed(op[n].dates) /\ op' = [op EXCEPT ![n].summary = "SUCCEEDED"]
                         /\ UNCHANGED <<item, adjusted, request, exec, chunks, faults>>
    BY <1>20 DEF RetrySummary
  <2>2. op' = [op EXCEPT ![n] = [op[n] EXCEPT !.summary = "SUCCEEDED"]]
    BY <1>1, <2>1
  <2>3. op' \in [Run -> OperationType] /\ lost' \subseteq LossType
    BY <1>1, <1>4, <2>1, <2>2, OperationUpdates
  <2> QED
    BY <1>1, <1>2, <2>1, <2>3, ShapeParts
<1>21. CASE RetryInvalidates
  <2>1. PICK n \in Run : /\ Fault /\ Removed(op[n].dates)
                         /\ UNCHANGED <<item, adjusted, request, op, exec, chunks>>
    BY <1>21 DEF RetryInvalidates
  <2> QED
    BY <1>1, <1>2, <1>3, <1>4, <2>1, ShapeParts
<1>22. CASE Crash
  <2> DEFINE cut == {q \in Request : request[q].pc \in {"collect", "refresh", "invalidate"}}
  <2>1. /\ exec' = NoRun /\ Fault /\ UNCHANGED <<item, adjusted, row, op, chunks>>
        /\ request' = [q \in Request |-> IF q \in cut THEN [request[q] EXCEPT !.pc = "done"]
                                                      ELSE request[q]]
        /\ Forget(UNION {request[q].from : q \in cut}, "unrefreshed")
    BY <1>22 DEF Crash
  <2>2. \A q \in Request : request[q].from \in SUBSET Date /\ request[q] \in RequestType
    BY <1>1 DEF RequestType
  <2>3. UNION {request[q].from : q \in cut} \in SUBSET Date
    BY <2>2
  <2>4. lost' \subseteq LossType
    BY <1>5, <2>1, <2>3
  <2>5. \A q \in Request : /\ request'[q] \in RequestType
                           /\ request'[q].pc = "idle" <=> request[q].pc = "idle"
    BY <2>1, <2>2 DEF RequestType
  <2>6. request' \in [Request -> RequestType] /\ Busy' = Busy
    BY <2>1, <2>5 DEF Busy
  <2> QED
    BY <1>1, <1>3, <2>1, <2>4, <2>6, RunUpdates, ShapeParts
<1>23. CASE UNCHANGED vars
  BY <1>1, <1>2, <1>23, ShapeParts DEF vars
<1>24. CASE PersistFailure
  <2>1. exec.op \in Run /\ UNCHANGED <<item, adjusted, row, request, chunks, faults>> /\ exec' = NoRun
    BY <1>6, <1>24 DEF PersistFailure
  <2>2. PICK again \in BOOLEAN :
            /\ op' = [op EXCEPT ![exec.op].status = IF again THEN "queued" ELSE "failed"]
            /\ IF again THEN UNCHANGED lost ELSE Forget(op[exec.op].dates, "failed")
    BY <1>24 DEF PersistFailure, Current
  <2>3. op[exec.op].dates \in SUBSET Date
    BY <1>1, <2>1 DEF OperationType
  <2>4. lost' \subseteq LossType
    BY <1>1, <1>5, <2>2, <2>3
  <2>5. PICK s \in {"queued", "failed"} :
            op' = [op EXCEPT ![exec.op] = [op[exec.op] EXCEPT !.status = s]]
    BY <1>1, <2>1, <2>2
  <2>6. op' \in [Run -> OperationType] /\ exec' \in RunType
    BY <1>1, <2>1, <2>5, OperationUpdates, RunUpdates
  <2> QED
    BY <1>1, <1>2, <2>1, <2>4, <2>6, ShapeParts
<1> QED
  BY <1>7, <1>8, <1>9, <1>10, <1>11, <1>12, <1>13, <1>14, <1>15, <1>16, <1>17, <1>18, <1>19, <1>20,
     <1>21, <1>22, <1>23, <1>24 DEF Next

-----------------------------------------------------------------------------
(* What each step makes of the run and of the operations.                  *)

LEMMA Leased ==
    ASSUME IInv, Lease
    PROVE  /\ exec.pc = "none" /\ UNCHANGED <<item, adjusted, row, request, lost>>
           /\ \E n \in Run :
                /\ op[n].status = "queued"
                /\ op'[n].status = "running" /\ op'[n].dates = op[n].dates
                /\ op'[n].summary = op[n].summary
                /\ \A m \in Run : m # n => op'[m] = op[m]
                /\ exec'.pc = "read" /\ exec'.op = n
                /\ exec'.dates = op[n].dates /\ exec'.local = op[n].dates
<1>1. op \in [Run -> OperationType] /\ \A n \in Run : op[n] \in OperationType
  BY Shapes DEF IInv
<1>2. PICK n \in Run :
        /\ op[n].status = "queued"
        /\ op' = [op EXCEPT ![n] = [op[n] EXCEPT !.status = "running", !.attempt = op[n].attempt + 1]]
        /\ exec' = [NoRun EXCEPT !.pc = "read", !.op = n, !.dates = op[n].dates, !.local = op[n].dates]
  BY <1>1 DEF Lease
<1>3. /\ op'[n].status = "running" /\ op'[n].dates = op[n].dates /\ op'[n].summary = op[n].summary
      /\ \A m \in Run : m # n => op'[m] = op[m]
  BY <1>1, <1>2 DEF OperationType
<1>4. exec'.pc = "read" /\ exec'.op = n /\ exec'.dates = op[n].dates /\ exec'.local = op[n].dates
  BY <1>2 DEF NoRun
<1>5. exec.pc = "none" /\ UNCHANGED <<item, adjusted, row, request, lost>>
  BY DEF Lease
<1> QED
  BY <1>2, <1>3, <1>4, <1>5

\* A chunk is saved with the dates it affects, which the operation is told of.
LEMMA SavedChunk ==
    ASSUME IInv, SaveChunk
    PROVE  /\ exec.pc = "read" /\ UNCHANGED <<adjusted, row, request, lost>>
           /\ \E i \in Item, to \in Date :
                /\ item' = [item EXCEPT ![i] = [date |-> to, rev |-> chunks']]
                /\ exec'.pc = "saved" /\ exec'.op = exec.op /\ exec'.local = exec.local
                /\ exec'.dates = exec.dates \cup Affected(i, to)
                /\ op'[exec.op].dates = exec'.dates /\ op'[exec.op].status = op[exec.op].status
                /\ op'[exec.op].summary = op[exec.op].summary
                /\ \A m \in Run : m # exec.op => op'[m] = op[m]
<1>1. /\ op \in [Run -> OperationType] /\ exec \in RunType
      /\ exec.pc = "read" /\ exec.op \in Run /\ op[exec.op] \in OperationType
  BY Shapes DEF IInv, RunInv, SaveChunk
<1>2. PICK i \in Item, to \in Date :
        /\ item' = [item EXCEPT ![i] = [date |-> to, rev |-> chunks']]
        /\ op' = [op EXCEPT ![exec.op] = [op[exec.op] EXCEPT !.dates = exec.dates \cup Affected(i, to)]]
        /\ exec' = [exec EXCEPT !.pc = "saved", !.dates = exec.dates \cup Affected(i, to)]
  BY <1>1 DEF SaveChunk, Current
<1> DEFINE dates == exec.dates \cup Affected(i, to)
<1> HIDE DEF dates
<1>3. /\ op' = [op EXCEPT ![exec.op] = [op[exec.op] EXCEPT !.dates = dates]]
      /\ exec' = [exec EXCEPT !.pc = "saved", !.dates = dates]
  BY <1>2 DEF dates
<1>4. /\ op'[exec.op].dates = dates /\ op'[exec.op].status = op[exec.op].status
      /\ op'[exec.op].summary = op[exec.op].summary
      /\ \A m \in Run : m # exec.op => op'[m] = op[m]
  BY <1>1, <1>3 DEF OperationType
<1>5. exec'.pc = "saved" /\ exec'.op = exec.op /\ exec'.local = exec.local /\ exec'.dates = dates
  BY <1>1, <1>3 DEF RunType
<1>6. UNCHANGED <<adjusted, row, request, lost>>
  BY DEF SaveChunk
<1> QED
  BY <1>1, <1>2, <1>4, <1>5, <1>6 DEF dates

\* The run goes on, and its operation as it was or told of the run's dates.
LEMMA Went ==
    ASSUME IInv, \/ ReportChunk \/ ReportFails \/ EndOfStream \/ RunCannotRefresh \/ NoticeAbort
                 \/ Break \/ Abort \/ RunCannotInvalidate
    PROVE  /\ UNCHANGED <<item, adjusted, row, request, lost>>
           /\ exec.pc # "none" /\ exec'.pc # "none"
           /\ exec'.op = exec.op /\ exec'.dates = exec.dates
           /\ exec'.local = exec.local \/ exec'.local = exec.dates
           /\ exec'.pc = "final" => \/ exec.pc = "final" /\ exec'.summary = exec.summary
                                    \/ exec'.summary = "WARNING"
           /\ op'[exec.op].dates = op[exec.op].dates /\ op'[exec.op].status = op[exec.op].status
           /\ op'[exec.op].summary = op[exec.op].summary
           /\ \A m \in Run : m # exec.op => op'[m] = op[m]
<1>1. op \in [Run -> OperationType] /\ exec \in RunType
  BY Shapes DEF IInv
<1>2. exec.pc # "none" /\ UNCHANGED <<item, adjusted, row, request, lost>>
  BY DEF ReportChunk, ReportFails, EndOfStream, RunCannotRefresh, NoticeAbort, Break, Abort,
         RunCannotInvalidate
<1>3. exec.op \in Run /\ op[exec.op] \in OperationType /\ op[exec.op].dates = exec.dates
  BY <1>2, Shapes DEF IInv, RunInv
<1>4. CASE ReportChunk
  <2>1. /\ exec' = [exec EXCEPT !.pc = "read", !.local = exec.dates]
        /\ op' = [op EXCEPT ![exec.op] = [op[exec.op] EXCEPT !.dates = exec.dates]]
    BY <1>1, <1>3, <1>4 DEF ReportChunk, Current
  <2>2. /\ op'[exec.op].dates = op[exec.op].dates /\ op'[exec.op].status = op[exec.op].status
        /\ op'[exec.op].summary = op[exec.op].summary
        /\ \A m \in Run : m # exec.op => op'[m] = op[m]
    BY <1>1, <1>3, <2>1 DEF OperationType
  <2>3. exec'.pc = "read" /\ exec'.op = exec.op /\ exec'.dates = exec.dates /\ exec'.local = exec.dates
    BY <1>1, <2>1 DEF RunType
  <2> QED
    BY <1>2, <2>2, <2>3
<1>5. CASE ReportFails
  <2>1. exec' = [exec EXCEPT !.pc = "error", !.local = exec.dates] /\ UNCHANGED op
    BY <1>5 DEF ReportFails
  <2>2. exec'.pc = "error" /\ exec'.op = exec.op /\ exec'.dates = exec.dates /\ exec'.local = exec.dates
    BY <1>1, <2>1 DEF RunType
  <2> QED
    BY <1>2, <2>1, <2>2
<1>6. CASE EndOfStream \/ RunCannotRefresh \/ NoticeAbort \/ Break
  <2>1. PICK pc \in {"refresh", "invalidate", "error"} : exec' = [exec EXCEPT !.pc = pc] /\ UNCHANGED op
    BY <1>6 DEF EndOfStream, RunCannotRefresh, NoticeAbort, Break, Step
  <2>2. exec'.pc = pc /\ exec'.op = exec.op /\ exec'.dates = exec.dates /\ exec'.local = exec.local
    BY <1>1, <2>1 DEF RunType
  <2> QED
    BY <1>2, <2>1, <2>2
<1>7. CASE Abort
  <2>1. exec' = [exec EXCEPT !.aborted = TRUE] /\ UNCHANGED op
    BY <1>7 DEF Abort
  <2>2. /\ exec'.pc = exec.pc /\ exec'.op = exec.op /\ exec'.dates = exec.dates
        /\ exec'.local = exec.local /\ exec'.summary = exec.summary
    BY <1>1, <2>1 DEF RunType
  <2> QED
    BY <1>2, <2>1, <2>2
<1>8. CASE RunCannotInvalidate
  <2>1. exec' = [exec EXCEPT !.pc = "final", !.summary = "WARNING"] /\ UNCHANGED op
    BY <1>8 DEF RunCannotInvalidate
  <2>2. /\ exec'.pc = "final" /\ exec'.op = exec.op /\ exec'.dates = exec.dates
        /\ exec'.local = exec.local /\ exec'.summary = "WARNING"
    BY <1>1, <2>1 DEF RunType
  <2> QED
    BY <1>2, <2>1, <2>2
<1> QED
  BY <1>4, <1>5, <1>6, <1>7, <1>8

\* The run has refreshed its dates, or removed their summaries.
LEMMA Finalised ==
    ASSUME IInv, RunRefreshes \/ RunInvalidates
    PROVE  /\ UNCHANGED <<item, adjusted, request, op>>
           /\ Refreshed(exec.dates) \/ Removed(exec.dates)
           /\ exec.pc # "none" /\ exec'.pc = "final" /\ exec'.op = exec.op
           /\ exec'.dates = exec.dates /\ exec'.local = exec.local
           /\ exec'.summary \in {"SUCCEEDED", "WARNING"}
<1>1. exec \in RunType
  BY Shapes DEF IInv
<1>2. PICK s \in {"SUCCEEDED", "WARNING"} : exec' = [exec EXCEPT !.pc = "final", !.summary = s]
  BY DEF RunRefreshes, RunInvalidates
<1>3. /\ exec'.pc = "final" /\ exec'.op = exec.op /\ exec'.dates = exec.dates
      /\ exec'.local = exec.local /\ exec'.summary = s
  BY <1>1, <1>2 DEF RunType
<1> QED
  BY <1>3 DEF RunRefreshes, RunInvalidates

\* The run is over, and its operation takes over its dates.
LEMMA Succeeded ==
    ASSUME IInv, Succeed
    PROVE  /\ UNCHANGED <<item, adjusted, row, request, lost>>
           /\ exec.pc = "final" /\ exec' = NoRun
           /\ op'[exec.op].status = "succeeded" /\ op'[exec.op].dates = exec.dates
           /\ op'[exec.op].summary = exec.summary
           /\ \A m \in Run : m # exec.op => op'[m] = op[m]
<1>1. op \in [Run -> OperationType] /\ exec.pc = "final" /\ exec.op \in Run
      /\ op[exec.op] \in OperationType
  BY Shapes DEF IInv, RunInv, Succeed
<1>2. op' = [op EXCEPT ![exec.op] = [op[exec.op] EXCEPT !.status = "succeeded",
                                            !.dates = exec.dates, !.summary = exec.summary]]
  BY <1>1 DEF Succeed, Current
<1>3. /\ op'[exec.op].status = "succeeded" /\ op'[exec.op].dates = exec.dates
      /\ op'[exec.op].summary = exec.summary
      /\ \A m \in Run : m # exec.op => op'[m] = op[m]
  BY <1>1, <1>2 DEF OperationType
<1> QED
  BY <1>1, <1>3 DEF Succeed

\* The error path first leaves the operation with the local record.
LEMMA Recorded ==
    ASSUME IInv, RecordError
    PROVE  /\ UNCHANGED <<item, adjusted, row, request>> /\ lost \subseteq lost'
           /\ exec.pc # "none" /\ exec'.pc = "failed" /\ exec'.op = exec.op
           /\ exec'.aborted = exec.aborted
           /\ exec'.dates = exec.local /\ exec'.local = exec.local
           /\ Losses(op[exec.op].dates \ exec.local, "overwritten") \subseteq lost'
           /\ op'[exec.op].dates = exec.local /\ op'[exec.op].summary = op[exec.op].summary
           /\ op'[exec.op].status = op[exec.op].status
           /\ op'[exec.op].attempt = op[exec.op].attempt
           /\ \A m \in Run : m # exec.op => op'[m] = op[m]
<1>1. op \in [Run -> OperationType] /\ exec.pc # "none" /\ exec.op \in Run
      /\ op[exec.op] \in OperationType /\ exec \in RunType
  BY Shapes DEF IInv, RunInv, RecordError
<1>2. /\ op' = [op EXCEPT ![exec.op] = [op[exec.op] EXCEPT !.dates = exec.local]]
      /\ exec' = [exec EXCEPT !.pc = "failed", !.dates = exec.local]
  BY <1>1 DEF RecordError, Current
<1>3. /\ op'[exec.op].dates = exec.local /\ op'[exec.op].summary = op[exec.op].summary
      /\ op'[exec.op].status = op[exec.op].status /\ op'[exec.op].attempt = op[exec.op].attempt
      /\ \A m \in Run : m # exec.op => op'[m] = op[m]
  BY <1>1, <1>2 DEF OperationType
<1>4. /\ exec'.pc = "failed" /\ exec'.op = exec.op /\ exec'.aborted = exec.aborted
      /\ exec'.dates = exec.local /\ exec'.local = exec.local
  BY <1>1, <1>2 DEF RunType
<1>5. /\ lost \subseteq lost'
      /\ Losses(op[exec.op].dates \ exec.local, "overwritten") \subseteq lost'
  BY DEF RecordError, Current, Forget
<1> QED
  BY <1>1, <1>3, <1>4, <1>5 DEF RecordError

\* Then the operation is queued again, or has failed and its dates with it.
LEMMA Settled ==
    ASSUME IInv, PersistFailure
    PROVE  /\ UNCHANGED <<item, adjusted, row, request>>
           /\ exec.pc # "none" /\ exec' = NoRun /\ lost \subseteq lost'
           /\ op'[exec.op].dates = op[exec.op].dates
           /\ op'[exec.op].summary = op[exec.op].summary
           /\ \/ op'[exec.op].status = "queued" /\ AttemptLeft(exec.op)
              \/ /\ op'[exec.op].status = "failed"
                 /\ Losses(op[exec.op].dates, "failed") \subseteq lost'
           /\ op'[exec.op].attempt = op[exec.op].attempt
           /\ \A m \in Run : m # exec.op => op'[m] = op[m]
<1>1. op \in [Run -> OperationType] /\ exec.pc # "none" /\ exec.op \in Run
      /\ op[exec.op] \in OperationType
  BY Shapes DEF IInv, RunInv, PersistFailure
<1>2. PICK again \in BOOLEAN :
        /\ again => AttemptLeft(exec.op)
        /\ op' = [op EXCEPT ![exec.op].status = IF again THEN "queued" ELSE "failed"]
        /\ IF again THEN UNCHANGED lost ELSE Forget(op[exec.op].dates, "failed")
  BY DEF PersistFailure, Current
<1> DEFINE s == IF again THEN "queued" ELSE "failed"
<1>3. op' = [op EXCEPT ![exec.op] = [op[exec.op] EXCEPT !.status = s]]
  BY <1>1, <1>2
<1> HIDE DEF s
<1>4. /\ op'[exec.op].dates = op[exec.op].dates /\ op'[exec.op].summary = op[exec.op].summary
      /\ op'[exec.op].status = s /\ op'[exec.op].attempt = op[exec.op].attempt
      /\ \A m \in Run : m # exec.op => op'[m] = op[m]
  BY <1>1, <1>3 DEF OperationType
<1>5. /\ lost \subseteq lost'
      /\ \/ s = "queued" /\ AttemptLeft(exec.op)
         \/ s = "failed" /\ Losses(op[exec.op].dates, "failed") \subseteq lost'
  BY <1>2 DEF s, Forget
<1> QED
  BY <1>1, <1>4, <1>5 DEF PersistFailure

\* The lease of a run that is gone expires.
LEMMA Expired ==
    ASSUME IInv, Expire
    PROVE  /\ UNCHANGED <<item, adjusted, row, request, exec>> /\ exec.pc = "none"
           /\ lost \subseteq lost'
           /\ \E n \in Run :
                /\ op[n].status = "running"
                /\ op'[n].dates = op[n].dates /\ op'[n].summary = op[n].summary
                /\ op'[n].attempt = op[n].attempt
                /\ \/ op'[n].status = "queued" /\ AttemptLeft(n)
                   \/ op'[n].status = "failed" /\ Losses(op[n].dates, "failed") \subseteq lost'
                /\ \A m \in Run : m # n => op'[m] = op[m]
<1>1. op \in [Run -> OperationType] /\ \A n \in Run : op[n] \in OperationType
  BY Shapes DEF IInv
<1>2. PICK n \in Run :
        /\ op[n].status = "running"
        /\ IF AttemptLeft(n)
           THEN op' = [op EXCEPT ![n].status = "queued"] /\ UNCHANGED lost
           ELSE op' = [op EXCEPT ![n].status = "failed"] /\ Forget(op[n].dates, "failed")
  BY DEF Expire
<1>3. lost \subseteq lost' /\ (~AttemptLeft(n) => Losses(op[n].dates, "failed") \subseteq lost')
  BY <1>2 DEF Forget
<1> DEFINE s == IF AttemptLeft(n) THEN "queued" ELSE "failed"
<1>4. op' = [op EXCEPT ![n] = [op[n] EXCEPT !.status = s]]
  BY <1>1, <1>2
<1> HIDE DEF s
<1>5. /\ op'[n].dates = op[n].dates /\ op'[n].summary = op[n].summary /\ op'[n].status = s
      /\ op'[n].attempt = op[n].attempt /\ \A m \in Run : m # n => op'[m] = op[m]
  BY <1>1, <1>4 DEF OperationType
<1>6. UNCHANGED <<item, adjusted, row, request, exec>> /\ exec.pc = "none"
  BY DEF Expire
<1>7. (s = "queued" /\ AttemptLeft(n)) \/ (s = "failed" /\ ~AttemptLeft(n))
  BY DEF s
<1> QED
  BY <1>2, <1>3, <1>5, <1>6, <1>7

\* The summaries of an operation that warned are refreshed or removed.
LEMMA Retried ==
    ASSUME IInv, RetrySummary \/ RetryInvalidates
    PROVE  /\ UNCHANGED <<item, adjusted, request, exec>>
           /\ \E n \in Run :
                /\ Refreshed(op[n].dates) \/ Removed(op[n].dates)
                /\ op[n].status = "succeeded"
                /\ op'[n].status = "succeeded" /\ op'[n].dates = op[n].dates
                /\ \A m \in Run : m # n => op'[m] = op[m]
<1>1. op \in [Run -> OperationType] /\ \A n \in Run : op[n] \in OperationType
  BY Shapes DEF IInv
<1>2. CASE RetrySummary
  <2>1. PICK n \in Run : /\ Warned(n) /\ Refreshed(op[n].dates)
                         /\ op' = [op EXCEPT ![n] = [op[n] EXCEPT !.summary = "SUCCEEDED"]]
                         /\ UNCHANGED <<item, adjusted, request, exec, chunks, faults>>
    BY <1>1, <1>2 DEF RetrySummary
  <2>2. /\ op'[n].status = op[n].status /\ op'[n].dates = op[n].dates
        /\ \A m \in Run : m # n => op'[m] = op[m]
    BY <1>1, <2>1 DEF OperationType
  <2> QED
    BY <2>1, <2>2 DEF Warned
<1>3. CASE RetryInvalidates
  BY <1>3 DEF RetryInvalidates, Warned
<1> QED
  BY <1>2, <1>3

-----------------------------------------------------------------------------
(* Each part of the invariant is kept by every step.                       *)

\* The steps of requests.
RequestSteps(q) ==
    \/ ChangeDates(q) \/ ChangeSince(q) \/ CollectDates(q)
    \/ RefreshAfter(q) \/ RefreshFails(q) \/ InvalidateAfter(q) \/ InvalidateFails(q)

\* What a step of a request makes of it; the others wait.
LEMMA Requested ==
    ASSUME IInv, NEW q \in Request, RequestSteps(q)
    PROVE  /\ UNCHANGED <<item, op, exec>>
           /\ \A p \in Request : p # q => request'[p] = request[p]
           /\ ChangeDates(q) =>
                /\ request[q].pc = "idle" /\ request'[q].pc = "refresh"
                /\ request'[q].dates = request'[q].from /\ UNCHANGED <<row, lost>>
                /\ adjusted' = [d \in Date |-> IF d \in request'[q].dates THEN adjusted[d] + 1
                                               ELSE adjusted[d]]
           /\ ChangeSince(q) =>
                /\ request[q].pc = "idle" /\ request'[q].pc = "collect"
                /\ request'[q].dates = {} /\ UNCHANGED <<row, lost>>
                /\ adjusted' = [d \in Date |-> IF d \in request'[q].from THEN adjusted[d] + 1
                                               ELSE adjusted[d]]
           /\ CollectDates(q) =>
                /\ request[q].pc = "collect" /\ request'[q].pc = "refresh"
                /\ request'[q].from = request[q].from
                /\ request'[q].dates = KnownDates(request[q].from)
                /\ UNCHANGED <<adjusted, row, lost>>
           /\ RefreshAfter(q) \/ InvalidateAfter(q) \/ RefreshFails(q) \/ InvalidateFails(q) =>
                /\ request[q].pc \in {"refresh", "invalidate"}
                /\ request'[q].from = request[q].from /\ request'[q].dates = request[q].dates
                /\ UNCHANGED adjusted
           /\ RefreshFails(q) => request'[q].pc = "invalidate"
<1>1. /\ request \in [Request -> RequestType] /\ request[q] \in RequestType
  BY Shapes DEF IInv
<1>2. UNCHANGED <<item, op, exec>>
  BY DEF RequestSteps, ChangeDates, ChangeSince, CollectDates, RefreshAfter, RefreshFails,
         InvalidateAfter, InvalidateFails
<1>3. \A r : request' = [request EXCEPT ![q] = r] =>
        request'[q] = r /\ \A p \in Request : p # q => request'[p] = request[p]
  BY <1>1
<1>4. ASSUME ChangeDates(q)
      PROVE  /\ \A p \in Request : p # q => request'[p] = request[p]
             /\ request[q].pc = "idle" /\ request'[q].pc = "refresh"
             /\ request'[q].dates = request'[q].from /\ UNCHANGED <<row, lost>>
             /\ adjusted' = [d \in Date |-> IF d \in request'[q].dates THEN adjusted[d] + 1
                                            ELSE adjusted[d]]
  <2>1. PICK dates \in (SUBSET Date) \ {{}} :
            /\ adjusted' = [d \in Date |-> IF d \in dates THEN adjusted[d] + 1 ELSE adjusted[d]]
            /\ request' = [request EXCEPT ![q] = [pc |-> "refresh", from |-> dates, dates |-> dates]]
    BY <1>4 DEF ChangeDates
  <2>2. request'[q] = [pc |-> "refresh", from |-> dates, dates |-> dates]
    BY <1>3, <2>1
  <2> QED
    BY <1>3, <1>4, <2>1, <2>2 DEF ChangeDates
<1>5. ASSUME ChangeSince(q)
      PROVE  /\ \A p \in Request : p # q => request'[p] = request[p]
             /\ request[q].pc = "idle" /\ request'[q].pc = "collect"
             /\ request'[q].dates = {} /\ UNCHANGED <<row, lost>>
             /\ adjusted' = [d \in Date |-> IF d \in request'[q].from THEN adjusted[d] + 1
                                            ELSE adjusted[d]]
  <2>1. PICK c \in Date : LET dates == {e \in Date : e >= c} IN
            /\ adjusted' = [e \in Date |-> IF e \in dates THEN adjusted[e] + 1 ELSE adjusted[e]]
            /\ request' = [request EXCEPT ![q] = [pc |-> "collect", from |-> dates, dates |-> {}]]
    BY <1>5 DEF ChangeSince
  <2> DEFINE dates == {e \in Date : e >= c}
  <2>2. /\ adjusted' = [e \in Date |-> IF e \in dates THEN adjusted[e] + 1 ELSE adjusted[e]]
        /\ request' = [request EXCEPT ![q] = [pc |-> "collect", from |-> dates, dates |-> {}]]
    BY <2>1
  <2> HIDE DEF dates
  <2>3. request'[q] = [pc |-> "collect", from |-> dates, dates |-> {}]
    BY <1>3, <2>2
  <2> QED
    BY <1>3, <1>5, <2>2, <2>3 DEF ChangeSince
<1>6. ASSUME CollectDates(q)
      PROVE  /\ \A p \in Request : p # q => request'[p] = request[p]
             /\ request[q].pc = "collect" /\ request'[q].pc = "refresh"
             /\ request'[q].from = request[q].from
             /\ request'[q].dates = KnownDates(request[q].from)
             /\ UNCHANGED <<adjusted, row, lost>>
  <2> DEFINE known == KnownDates(request[q].from)
  <2>1. request' = [request EXCEPT ![q].pc = "refresh", ![q].dates = known]
    BY <1>6 DEF CollectDates
  <2> HIDE DEF known
  <2>2. /\ \A p \in Request : p # q => request'[p] = request[p]
        /\ request'[q].pc = "refresh" /\ request'[q].from = request[q].from
        /\ request'[q].dates = known
    BY <1>1, <2>1 DEF RequestType
  <2> QED
    BY <1>6, <2>2 DEF CollectDates, known
<1>7. ASSUME RefreshAfter(q) \/ InvalidateAfter(q) \/ RefreshFails(q) \/ InvalidateFails(q)
      PROVE  /\ \A p \in Request : p # q => request'[p] = request[p]
             /\ request[q].pc \in {"refresh", "invalidate"}
             /\ request'[q].from = request[q].from /\ request'[q].dates = request[q].dates
             /\ UNCHANGED adjusted
             /\ RefreshFails(q) => request'[q].pc = "invalidate"
  <2>1. PICK pc \in {"invalidate", "done"} :
            /\ request' = [request EXCEPT ![q].pc = pc]
            /\ RefreshFails(q) => pc = "invalidate"
    BY <1>7 DEF RefreshAfter, RefreshFails, InvalidateAfter, InvalidateFails
  <2>2. /\ \A p \in Request : p # q => request'[p] = request[p]
        /\ request'[q].pc = pc /\ request'[q].from = request[q].from
        /\ request'[q].dates = request[q].dates
    BY <1>1, <2>1 DEF RequestType
  <2>3. request[q].pc \in {"refresh", "invalidate"} /\ UNCHANGED adjusted
    BY <1>7 DEF RefreshAfter, RefreshFails, InvalidateAfter, InvalidateFails
  <2> QED
    BY <2>1, <2>2, <2>3
<1> HIDE DEF RequestSteps
<1>8. \A p \in Request : p # q => request'[p] = request[p]
  BY <1>4, <1>5, <1>6, <1>7 DEF RequestSteps
<1> QED
  BY <1>2, <1>4, <1>5, <1>6, <1>7, <1>8

\* A crash cuts the requests between their two commits.
LEMMA Crashed ==
    ASSUME IInv, Crash
    PROVE  /\ UNCHANGED <<item, adjusted, row, op>> /\ exec' = NoRun /\ lost \subseteq lost'
           /\ \A q \in Request : /\ request'[q].from = request[q].from
                                 /\ request'[q].dates = request[q].dates
           /\ \A q \in Request : request[q].pc \in {"collect", "refresh", "invalidate"} =>
                Losses(request[q].from, "unrefreshed") \subseteq lost'
<1> DEFINE cut == {q \in Request : request[q].pc \in {"collect", "refresh", "invalidate"}}
           froms == UNION {request[q].from : q \in cut}
<1>1. /\ exec' = NoRun /\ UNCHANGED <<item, adjusted, row, op>>
      /\ request' = [q \in Request |-> IF q \in cut THEN [request[q] EXCEPT !.pc = "done"]
                                                    ELSE request[q]]
      /\ lost' = lost \cup Losses(froms, "unrefreshed")
  BY DEF Crash, Forget
<1>2. \A q \in Request : request[q] \in RequestType
  BY Shapes DEF IInv
<1>3. \A q \in Request : request'[q].from = request[q].from /\ request'[q].dates = request[q].dates
  BY <1>1, <1>2 DEF RequestType
<1>4. ASSUME NEW q \in cut
      PROVE  Losses(request[q].from, "unrefreshed") \subseteq Losses(froms, "unrefreshed")
  <2>1. request[q].from \subseteq froms
    OBVIOUS
  <2> HIDE DEF froms
  <2> QED
    BY <2>1 DEF Losses
<1> HIDE DEF froms
<1> QED
  BY <1>1, <1>3, <1>4

LEMMA RequestStep ==
    ASSUME IInv, [Next]_vars
    PROVE  RequestInv'
<1>1. RequestInv
  BY DEF IInv
<1>2. ASSUME NEW q \in Request, RequestSteps(q)
      PROVE  RequestInv'
  <2>1. KnownDates(request[q].from) \subseteq request[q].from
    BY DEF KnownDates
  <2>2. request'[q].dates \subseteq request'[q].from
    BY <1>1, <1>2, <2>1, Requested DEF RequestInv, RequestSteps
  <2> QED
    BY <1>1, <1>2, <2>2, Requested DEF RequestInv
<1>3. CASE Crash
  BY <1>1, <1>3, Crashed DEF RequestInv
<1>4. UNCHANGED request => RequestInv'
  BY <1>1 DEF RequestInv
<1>5. \/ Lease \/ SaveChunk \/ ReportChunk \/ ReportFails \/ EndOfStream \/ RunRefreshes
      \/ RunCannotRefresh \/ RunInvalidates \/ RunCannotInvalidate \/ Succeed \/ Abort
      \/ NoticeAbort \/ Break \/ RecordError \/ PersistFailure \/ ErrorIsLost \/ Expire
      \/ RetrySummary \/ RetryInvalidates \/ UNCHANGED vars
      => UNCHANGED request
  BY DEF Lease, SaveChunk, ReportChunk, ReportFails, EndOfStream, RunRefreshes,
         RunCannotRefresh, RunInvalidates, RunCannotInvalidate, Succeed, Abort,
         NoticeAbort, Break, RecordError, PersistFailure, ErrorIsLost, Expire, RetrySummary,
         RetryInvalidates, vars
<1> QED
  BY <1>2, <1>3, <1>4, <1>5 DEF Next, RequestSteps

LEMMA OperationStep ==
    ASSUME IInv, [Next]_vars
    PROVE  OperationInv'
<1>1. OperationInv /\ (exec.pc # "none" => exec.op \in Run /\ op[exec.op].status = "running")
  BY DEF IInv, RunInv
<1>2. ASSUME NEW q \in Request, RequestSteps(q)
      PROVE  OperationInv'
  BY <1>1, <1>2, Requested DEF OperationInv
<1>3. CASE Lease
  BY <1>1, <1>3, Leased DEF OperationInv
<1>4. CASE SaveChunk
  BY <1>1, <1>4, SavedChunk DEF OperationInv
<1>5. CASE ReportChunk \/ ReportFails \/ EndOfStream \/ RunCannotRefresh \/ NoticeAbort
           \/ Break \/ Abort \/ RunCannotInvalidate
  BY <1>1, <1>5, Went DEF OperationInv
<1>6. CASE RunRefreshes \/ RunInvalidates
  BY <1>1, <1>6, Finalised DEF OperationInv
<1>7. CASE Succeed
  BY <1>1, <1>7, Succeeded DEF OperationInv
<1>8. CASE RecordError \/ PersistFailure
  BY <1>1, <1>8, Recorded, Settled DEF OperationInv, AttemptLeft
<1>9. CASE Expire
  BY <1>1, <1>9, Expired DEF OperationInv, AttemptLeft
<1>10. CASE RetrySummary \/ RetryInvalidates
  BY <1>1, <1>10, Retried DEF OperationInv
<1>11. CASE Crash \/ ErrorIsLost \/ UNCHANGED vars
  BY <1>1, <1>11 DEF OperationInv, Crash, ErrorIsLost, vars
<1> QED
  BY <1>2, <1>3, <1>4, <1>5, <1>6, <1>7, <1>8, <1>9, <1>10, <1>11 DEF Next, RequestSteps

LEMMA RunStep ==
    ASSUME IInv, [Next]_vars
    PROVE  RunInv'
<1>1. RunInv /\ NoRun.pc = "none"
  BY DEF IInv, NoRun
<1>2. exec' = NoRun => RunInv'
  BY <1>1 DEF RunInv
<1>3. ASSUME NEW q \in Request, RequestSteps(q)
      PROVE  RunInv'
  BY <1>1, <1>3, Requested DEF RunInv
<1>4. CASE Lease
  BY <1>1, <1>4, Leased DEF RunInv
<1>5. CASE SaveChunk
  BY <1>1, <1>5, SavedChunk DEF RunInv
<1>6. CASE ReportChunk \/ ReportFails \/ EndOfStream \/ RunCannotRefresh \/ NoticeAbort
           \/ Break \/ Abort \/ RunCannotInvalidate
  BY <1>1, <1>6, Went DEF RunInv
<1>7. CASE RunRefreshes \/ RunInvalidates
  BY <1>1, <1>7, Finalised DEF RunInv
<1>8. CASE Succeed \/ PersistFailure \/ ErrorIsLost \/ Crash
  BY <1>2, <1>8 DEF Succeed, PersistFailure, ErrorIsLost, Crash
<1>12. CASE RecordError
  BY <1>1, <1>12, Recorded DEF RunInv
<1>9. CASE Expire
  BY <1>1, <1>9, Expired DEF RunInv
<1>10. CASE RetrySummary \/ RetryInvalidates
  BY <1>1, <1>10, Retried DEF RunInv
<1>11. CASE UNCHANGED vars
  BY <1>1, <1>11 DEF RunInv, vars
<1> QED
  BY <1>3, <1>4, <1>5, <1>6, <1>7, <1>8, <1>9, <1>10, <1>11, <1>12 DEF Next, RequestSteps

\* A date that is stale after a step of a request is owed by a request or
\* lost, or it was stale before and was neither.
LEMMA RequestsHold ==
    ASSUME IInv, NEW q \in Request, RequestSteps(q), NEW d \in Date, Stale(d)'
    PROVE  \/ ByRequest(d)' \/ Gone(d)'
           \/ Stale(d) /\ ~ByRequest(d) /\ ~Gone(d)
<1>1. UNCHANGED item /\ \A p \in Request : p # q => request'[p] = request[p]
  BY Requested
<1>2. ASSUME ByRequest(d), ~ByRequest(d)'
      PROVE  \/ request[q].pc = "collect" /\ d \in request[q].from
             \/ request[q].pc \in {"refresh", "invalidate"} /\ d \in request[q].dates
  BY <1>1, <1>2 DEF ByRequest
<1>3. CASE ChangeDates(q) \/ ChangeSince(q)
  <2>1. /\ request[q].pc = "idle" /\ UNCHANGED <<row, lost>>
        /\ \/ request'[q].pc = "refresh" /\ adjusted' = [e \in Date |->
                IF e \in request'[q].dates THEN adjusted[e] + 1 ELSE adjusted[e]]
           \/ request'[q].pc = "collect" /\ adjusted' = [e \in Date |->
                IF e \in request'[q].from THEN adjusted[e] + 1 ELSE adjusted[e]]
    BY <1>3, Requested
  <2>2. ByRequest(d)' \/ Stale(d)
    BY <1>1, <2>1, Adjusted DEF IInv, ByRequest
  <2>3. Gone(d) => Gone(d)'
    BY <2>1 DEF Gone
  <2> QED
    BY <1>2, <2>1, <2>2, <2>3
<1>4. CASE CollectDates(q)
  <2>1. /\ request[q].pc = "collect" /\ request'[q].pc = "refresh"
        /\ request'[q].dates = KnownDates(request[q].from) /\ UNCHANGED <<adjusted, row, lost>>
    BY <1>4, Requested
  <2>2. Stale(d) /\ (Gone(d) => Gone(d)')
    BY <1>1, <2>1, SameIsAsStale DEF Gone
  <2>3. d \in request[q].from => d \in request'[q].dates
    BY <2>1, <2>2 DEF KnownDates, Stale
  <2>4. d \in request[q].from => ByRequest(d)'
    BY <2>1, <2>3 DEF ByRequest
  <2> QED
    BY <1>2, <2>1, <2>2, <2>4
<1>5. CASE RefreshAfter(q) \/ InvalidateAfter(q)
  <2>1. request[q].pc \in {"refresh", "invalidate"} /\ UNCHANGED <<item, adjusted>>
    BY <1>1, <1>5, Requested
  <2>2. Refreshed(request[q].dates) \/ Removed(request[q].dates)
    BY <1>5 DEF RefreshAfter, InvalidateAfter
  <2>3. d \notin request[q].dates /\ Stale(d) /\ (Gone(d) => Gone(d)')
    BY <2>1, <2>2, RefreshedIsFresh, RemovedIsFresh
  <2> QED
    BY <1>2, <2>1, <2>3
<1>6. CASE RefreshFails(q)
  <2>1. /\ request[q].pc = "refresh" /\ request'[q].pc = "invalidate"
        /\ request'[q].dates = request[q].dates /\ UNCHANGED <<adjusted, row, lost>>
    BY <1>6, Requested DEF RefreshFails
  <2>2. Stale(d) /\ (Gone(d) => Gone(d)')
    BY <1>1, <2>1, SameIsAsStale DEF Gone
  <2>3. d \in request[q].dates => ByRequest(d)'
    BY <2>1 DEF ByRequest
  <2> QED
    BY <1>2, <2>1, <2>2, <2>3
<1>7. CASE InvalidateFails(q)
  <2>1. /\ request[q].pc = "invalidate" /\ UNCHANGED <<adjusted, row>>
        /\ lost' = lost \cup Losses(request[q].dates, "unrefreshed")
    BY <1>7, Requested DEF InvalidateFails, Forget
  <2>2. Stale(d) /\ (Gone(d) => Gone(d)')
    BY <1>1, <2>1, SameIsAsStale, StillGone
  <2>3. Losses(request[q].dates, "unrefreshed") \subseteq lost'
    BY <2>1
  <2>4. d \in request[q].dates => Gone(d)'
    BY <2>2, <2>3, Lost
  <2> QED
    BY <1>2, <2>1, <2>2, <2>4
<1> QED
  BY <1>3, <1>4, <1>5, <1>6, <1>7 DEF RequestSteps

\* A crash loses what requests owed.
LEMMA CrashHolds ==
    ASSUME IInv, Crash, NEW d \in Date, Stale(d)'
    PROVE  Stale(d) /\ (ByRequest(d) \/ Gone(d) => Gone(d)')
<1>1. Stale(d) /\ lost \subseteq lost'
  BY Crashed, SameIsAsStale
<1>2. ASSUME ByRequest(d)
      PROVE  Gone(d)'
  <2>1. PICK q \in Request : /\ request[q].pc \in {"collect", "refresh", "invalidate"}
                             /\ d \in request[q].from \/ d \in request[q].dates
    BY <1>2 DEF ByRequest
  <2>2. d \in request[q].from
    BY <2>1 DEF IInv, RequestInv
  <2>3. Losses(request[q].from, "unrefreshed") \subseteq lost'
    BY <2>1, Crashed
  <2> QED
    BY <1>1, <2>2, <2>3, Lost
<1> QED
  BY <1>1, <1>2, StillGone

\* A run owes what its operation owes.
LEMMA HeldBy ==
    ASSUME IInv, NEW d \in Date, Stale(d)
    PROVE  ByRequest(d) \/ Gone(d) \/ \E n \in Run : ByOperation(n, d)
<1>1. Owed(d) \/ Gone(d)
  BY DEF IInv, StaleIsOwedOrLost, Gone
<1>2. exec.pc # "none" /\ d \in exec.dates => exec.op \in Run /\ ByOperation(exec.op, d)
  BY DEF IInv, RunInv, ByOperation
<1> QED
  BY <1>1, <1>2, OwedBy

\* A step that only moves operations.
LEMMA Quiet ==
    ASSUME UNCHANGED <<item, adjusted, row, request>>, lost \subseteq lost', NEW d, Stale(d)'
    PROVE  Stale(d) /\ (ByRequest(d) => ByRequest(d)') /\ (Gone(d) => Gone(d)')
<1>1. ByRequest(d) => ByRequest(d)'
  BY DEF ByRequest
<1> QED
  BY <1>1, SameIsAsStale, StillGone

\* A step after which summaries of some dates are fresh or gone.
LEMMA Renewed ==
    ASSUME UNCHANGED <<item, adjusted, request>>, NEW dates, Refreshed(dates) \/ Removed(dates),
           NEW d \in Date, Stale(d)'
    PROVE  d \notin dates /\ Stale(d) /\ (ByRequest(d) => ByRequest(d)') /\ (Gone(d) => Gone(d)')
<1>1. ByRequest(d) => ByRequest(d)'
  BY DEF ByRequest
<1> QED
  BY <1>1, RefreshedIsFresh, RemovedIsFresh

LEMMA StaleStep ==
    ASSUME IInv, [Next]_vars
    PROVE  StaleIsOwedOrLost'
<1> SUFFICES ASSUME NEW d \in Date, Stale(d)'
             PROVE  ByRequest(d)' \/ Gone(d)' \/ (\E n \in Run : ByOperation(n, d)')
  BY DEF StaleIsOwedOrLost, Owed, ByRequest, ByOperation, Gone
<1>0. /\ \A n \in Run : op[n] \in OperationType
      /\ exec.pc # "none" => /\ exec.op \in Run /\ op[exec.op].status = "running"
                              /\ op[exec.op].dates = exec.dates /\ exec.local \subseteq exec.dates
  BY Shapes DEF IInv, RunInv
<1> USE DEF ByOperation
<1>1. ASSUME NEW q \in Request, RequestSteps(q)
      PROVE  ByRequest(d)' \/ Gone(d)' \/ (\E n \in Run : ByOperation(n, d)')
  BY <1>1, Requested, RequestsHold, HeldBy
<1>2. CASE Lease
  BY <1>2, Leased, Quiet, HeldBy
<1>3. CASE SaveChunk
  <2>1. PICK i \in Item, to \in Date :
            /\ item' = [item EXCEPT ![i] = [date |-> to, rev |-> chunks']]
            /\ op'[exec.op].dates = exec.dates \cup Affected(i, to)
    BY <1>3, SavedChunk
  <2>2. /\ exec.pc # "none" /\ UNCHANGED <<adjusted, row, request, lost>>
        /\ op'[exec.op].status = op[exec.op].status
        /\ \A m \in Run : m # exec.op => op'[m] = op[m]
    BY <1>3, SavedChunk
  <2>3. CASE d \in op'[exec.op].dates
    BY <1>0, <2>2, <2>3
  <2>4. CASE d \notin op'[exec.op].dates
    <3>1. Stale(d)
      BY <2>1, <2>2, <2>4, Saved DEF IInv
    <3>2. (ByRequest(d) => ByRequest(d)') /\ (Gone(d) => Gone(d)')
      BY <2>2 DEF ByRequest, Gone
    <3>3. ~ByOperation(exec.op, d)
      BY <1>0, <2>1, <2>2, <2>4
    <3> QED
      BY <2>2, <3>1, <3>2, <3>3, HeldBy
  <2> QED
    BY <2>3, <2>4
<1>4. CASE ReportChunk \/ ReportFails \/ EndOfStream \/ RunCannotRefresh \/ NoticeAbort
           \/ Break \/ Abort \/ RunCannotInvalidate
  BY <1>4, Went, Quiet, HeldBy
<1>5. CASE RunRefreshes \/ RunInvalidates
  BY <1>5, Finalised, Renewed, HeldBy
<1>6. CASE Succeed
  <2>1. /\ Stale(d) /\ (ByRequest(d) => ByRequest(d)') /\ (Gone(d) => Gone(d)')
    BY <1>6, Succeeded, Quiet
  <2>2. \A m \in Run : m # exec.op /\ ByOperation(m, d) => ByOperation(m, d)'
    BY <1>6, Succeeded
  <2>3. /\ exec.pc = "final" /\ exec.summary \in {"SUCCEEDED", "WARNING"}
        /\ op'[exec.op].dates = exec.dates /\ op'[exec.op].summary = exec.summary
    BY <1>6, Succeeded, Shapes DEF IInv, RunInv, RunType
  <2>4. CASE d \in exec.dates /\ exec.summary = "SUCCEEDED"
    BY <2>1, <2>2, <2>3, <2>4 DEF IInv, FinalInv
  <2>5. CASE d \in exec.dates /\ exec.summary = "WARNING"
    BY <1>0, <2>3, <2>5
  <2>6. CASE d \notin exec.dates
    BY <1>0, <2>1, <2>2, <2>3, <2>6, HeldBy
  <2> QED
    BY <2>3, <2>4, <2>5, <2>6
<1>7. CASE RecordError
  <2>1. /\ Stale(d) /\ (ByRequest(d) => ByRequest(d)') /\ (Gone(d) => Gone(d)')
    BY <1>7, Recorded, Quiet
  <2>2. \A m \in Run : m # exec.op /\ ByOperation(m, d) => ByOperation(m, d)'
    BY <1>7, Recorded
  <2>3. CASE ByOperation(exec.op, d)
    <3>1. d \in op[exec.op].dates \ exec.local => Gone(d)'
      BY <1>7, <2>1, Recorded, Lost
    <3>2. d \in exec.local => ByOperation(exec.op, d)'
      BY <1>7, <2>3, Recorded
    <3> QED
      BY <1>0, <1>7, <2>3, <3>1, <3>2, Recorded
  <2> QED
    BY <2>1, <2>2, <2>3, HeldBy
<1>12. CASE PersistFailure
  <2>1. /\ Stale(d) /\ (ByRequest(d) => ByRequest(d)') /\ (Gone(d) => Gone(d)')
    BY <1>12, Settled, Quiet
  <2>2. \A m \in Run : m # exec.op /\ ByOperation(m, d) => ByOperation(m, d)'
    BY <1>12, Settled
  <2>3. CASE ByOperation(exec.op, d)
    <3>1. op'[exec.op].status # "queued" => Gone(d)'
      BY <1>12, <2>1, <2>3, Settled, Lost
    <3>2. op'[exec.op].status = "queued" => \E n \in Run : ByOperation(n, d)'
      BY <1>0, <1>12, <2>3, Settled
    <3> QED
      BY <3>1, <3>2
  <2> QED
    BY <2>1, <2>2, <2>3, HeldBy
<1>8. CASE ErrorIsLost \/ UNCHANGED vars
  BY <1>8, Quiet, HeldBy DEF ErrorIsLost, vars
<1>9. CASE Expire
  <2>1. /\ Stale(d) /\ (ByRequest(d) => ByRequest(d)') /\ (Gone(d) => Gone(d)')
    BY <1>9, Expired, Quiet
  <2>2. PICK n \in Run :
            /\ op'[n].dates = op[n].dates
            /\ \/ op'[n].status = "queued"
               \/ op'[n].status = "failed" /\ Losses(op[n].dates, "failed") \subseteq lost'
            /\ \A m \in Run : m # n => op'[m] = op[m]
    BY <1>9, Expired
  <2>3. ByOperation(n, d) => ByOperation(n, d)' \/ Gone(d)'
    BY <2>1, <2>2, Lost
  <2> QED
    BY <2>1, <2>2, <2>3, HeldBy
<1>10. CASE RetrySummary \/ RetryInvalidates
  BY <1>10, Retried, Renewed, HeldBy
<1>11. CASE Crash
  BY <1>11, Crashed, CrashHolds, HeldBy
<1> QED
  BY <1>1, <1>2, <1>3, <1>4, <1>5, <1>6, <1>7, <1>8, <1>9, <1>10, <1>11,
     <1>12 DEF Next, RequestSteps

\* What a run has refreshed stays fresh, but for what others owe.
LEMMA FinalStep ==
    ASSUME IInv, [Next]_vars
    PROVE  FinalInv'
<1> DEFINE Other(d) == ByRequest(d) \/ (\E n \in Run \ {exec.op} : ByOperation(n, d)) \/ Gone(d)
<1> SUFFICES ASSUME exec'.pc = "final", exec'.summary = "SUCCEEDED",
                    NEW d \in exec'.dates, Stale(d)'
             PROVE  Other(d)'
  BY DEF FinalInv
<1>0. exec'.dates \subseteq Date /\ NoRun.pc # "final"
  BY ShapeStep, Shapes DEF ShapeInv, NoRun
<1>1. ASSUME NEW q \in Request, RequestSteps(q)
      PROVE  Other(d)'
  <2>1. UNCHANGED <<op, exec>>
    BY <1>1, Requested
  <2>2. (\E n \in Run \ {exec.op} : ByOperation(n, d)) => Other(d)'
    BY <2>1 DEF ByOperation
  <2>3. \/ ByRequest(d)' \/ Gone(d)'
        \/ Stale(d) /\ ~ByRequest(d) /\ ~Gone(d)
    BY <1>0, <1>1, RequestsHold
  <2>4. Stale(d) => Other(d)
    BY <2>1 DEF IInv, FinalInv
  <2> QED
    BY <2>2, <2>3, <2>4
<1>2. CASE Lease \/ SaveChunk
  BY <1>2, Leased, SavedChunk
<1>3. CASE ReportChunk \/ ReportFails \/ EndOfStream \/ RunCannotRefresh \/ NoticeAbort
           \/ Break \/ Abort \/ RunCannotInvalidate
  <2>1. /\ Stale(d) /\ (ByRequest(d) => ByRequest(d)') /\ (Gone(d) => Gone(d)')
    BY <1>3, Went, Quiet
  <2>2. /\ exec.pc = "final" /\ exec.summary = "SUCCEEDED" /\ exec'.op = exec.op
        /\ exec'.dates = exec.dates /\ \A m \in Run : m # exec.op => op'[m] = op[m]
    BY <1>3, Went
  <2>3. Other(d)
    BY <2>1, <2>2 DEF IInv, FinalInv
  <2>4. (\E n \in Run \ {exec.op} : ByOperation(n, d)) => Other(d)'
    BY <2>2 DEF ByOperation
  <2> QED
    BY <2>1, <2>3, <2>4
<1>4. CASE RunRefreshes \/ RunInvalidates
  BY <1>0, <1>4, Finalised, Renewed
<1>5. CASE Succeed \/ PersistFailure \/ ErrorIsLost \/ Crash
  BY <1>0, <1>5 DEF Succeed, PersistFailure, ErrorIsLost, Crash
<1>9. CASE RecordError
  BY <1>9, Recorded
<1>6. CASE UNCHANGED vars
  <2>1. UNCHANGED <<item, adjusted, row, request, op, exec, lost>>
    BY <1>6 DEF vars
  <2>2. Stale(d) => Other(d)
    BY <2>1 DEF IInv, FinalInv
  <2> QED
    BY <2>1, <2>2, Quiet DEF ByOperation
<1>7. CASE Expire
  BY <1>0, <1>7, Expired
<1>8. CASE RetrySummary \/ RetryInvalidates
  <2>1. UNCHANGED <<item, adjusted, request, exec>>
    BY <1>8, Retried
  <2>2. PICK n \in Run :
            /\ Refreshed(op[n].dates) \/ Removed(op[n].dates)
            /\ op[n].status = "succeeded"
            /\ \A m \in Run : m # n => op'[m] = op[m]
    BY <1>8, Retried
  <2>3. /\ d \notin op[n].dates /\ Stale(d)
        /\ (ByRequest(d) => ByRequest(d)') /\ (Gone(d) => Gone(d)')
    BY <1>0, <2>1, <2>2, Renewed
  <2>4. Other(d)
    BY <2>1, <2>3 DEF IInv, FinalInv
  <2>5. (\E m \in Run \ {exec.op} : ByOperation(m, d)) => Other(d)'
    BY <2>1, <2>2, <2>3 DEF ByOperation
  <2> QED
    BY <2>3, <2>4, <2>5
<1> QED
  BY <1>1, <1>2, <1>3, <1>4, <1>5, <1>6, <1>7, <1>8, <1>9 DEF Next, RequestSteps

-----------------------------------------------------------------------------
(* The invariant, and what follows from it.                                *)

LEMMA Start == Init => IInv
<1> SUFFICES ASSUME Init
             PROVE  IInv
  OBVIOUS
<1>1. ShapeInv
  <2>1. Busy = {} /\ Cardinality(Busy) = 0
    BY FS_EmptySet DEF Init, Busy
  <2>2. exec \in [pc : PC, op : Run \cup {0}, dates : SUBSET Date, local : SUBSET Date,
                  summary : {"none", "SUCCEEDED", "WARNING"}, aborted : BOOLEAN]
    BY DEF Init, NoRun, PC
  <2>3. /\ adjusted \in [Date -> Nat] /\ \A d \in Date : adjusted[d] <= Cardinality(Busy)
    BY <2>1 DEF Init
  <2>4. op \in [Run -> [status : {"queued", "running", "succeeded", "failed"},
                        attempt : 0..MaxAttempts, dates : SUBSET Date,
                        summary : {"none", "SUCCEEDED", "WARNING"}]]
    BY Constants DEF Init
  <2>5. request \in [Request -> [pc : {"idle", "collect", "refresh", "invalidate", "done"},
                                 from : SUBSET Date, dates : SUBSET Date]]
    BY DEF Init
  <2>6. /\ item \in [Item -> [date : Date \cup {0}, rev : 0..MaxChunks]]
        /\ lost \subseteq [date : Date, why : {"unrefreshed", "overwritten", "failed"}]
        /\ chunks \in 0..MaxChunks /\ faults \in 0..MaxFaults
    BY Constants DEF Init
  <2> QED
    BY <2>2, <2>3, <2>4, <2>5, <2>6 DEF ShapeInv
<1>2. RequestInv
  BY DEF Init, RequestInv
<1>3. OperationInv
  BY Constants DEF Init, OperationInv
<1>4. RunInv /\ FinalInv
  BY DEF Init, NoRun, RunInv, FinalInv
<1>5. \A d \in Date : ~Stale(d)
  BY DEF Init, Stale, NoRow
<1> QED
  BY <1>1, <1>2, <1>3, <1>4, <1>5 DEF IInv, StaleIsOwedOrLost

\* The invariant holds in every state.
THEOREM Invariance == Spec => []IInv
<1>1. IInv /\ [Next]_vars => IInv'
  BY ShapeStep, RequestStep, OperationStep, RunStep, StaleStep, FinalStep DEF IInv
<1> QED
  BY <1>1, Start, PTL DEF Spec

\* Rows, requests, operations and the run have the shape that the model gives
\* them; a date is changed at most once by each request.
THEOREM TypeCorrect == Spec => []TypeOK
<1>1. ASSUME IInv
      PROVE  TypeOK
  <2>1. Busy \subseteq Request /\ IsFiniteSet(Request)
    BY Constants DEF Busy
  <2>2. Cardinality(Busy) <= Cardinality(Request) /\ Cardinality(Request) \in Nat
        /\ Cardinality(Busy) \in Nat
    BY <2>1, FS_Subset, FS_CardinalityType
  <2>3. adjusted \in [Date -> 0..Cardinality(Request)]
    BY <1>1, <2>2 DEF IInv, ShapeInv
  <2> QED
    BY <1>1, <2>3 DEF IInv, ShapeInv, RunInv, TypeOK, Current
<1> QED
  BY <1>1, Invariance, PTL

\* A stored summary that no longer says what the orders, mappings and costs of
\* its day say is owed by a request between its two commits, by the run, by an
\* operation that waits or warned, or has been lost in a known way.
THEOREM StaleIsNeverForgotten == Spec => []StaleIsOwedOrLost
<1>1. IInv => StaleIsOwedOrLost
  BY DEF IInv
<1> QED
  BY <1>1, Invariance, PTL
=============================================================================
