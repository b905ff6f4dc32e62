------------------------ MODULE OrderSyncBatchProofs ------------------------
(***************************************************************************)
(* Theorems about OrderSyncBatch for every number of stores, keys, batches *)
(* and attempts and every window. One inductive invariant carries them.    *)
(***************************************************************************)
EXTENDS OrderSyncBatch, TLAPS

\* Nothing is known of a batch before it is admitted.
FreeInv ==
    \A b \in Batch : batches[b].key = NoKey =>
        /\ ~batches[b].finished
        /\ batches[b].source = 0
        /\ \A s \in Store : jobs[b][s].status = "NONE"

\* A retried batch was admitted.
SourceInv ==
    \A b \in Batch : batches[b].source # 0 => batches[batches[b].source].key # NoKey

\* Every batch has a cutoff a run can look back from.
CutoffInv ==
    /\ now > Window
    /\ batches[0].cutoff > Window
    /\ \A b \in Batch : batches[b].key # NoKey => batches[b].cutoff > Window

\* One operation of a store runs at a time.
OneRunInv ==
    \A b, c \in Batch, s \in Store :
        jobs[b][s].status = "RUNNING" /\ jobs[c][s].status = "RUNNING" => b = c

\* The watermark is set once the reading of a store's changes has begun.
OriginInv ==
    \A s \in Store : /\ origin[s] = 0 <=> Watermark(s) = 0
                     /\ coverage[s].from = 0 => coverage[s].to = 0

\* A run began at a point that the watermark has not fallen behind since.
SeenInv ==
    \A b \in Batch, s \in Store :
        jobs[b][s].status = "RUNNING" /\ Current(b) =>
            /\ jobs[b][s].seen <= Watermark(s)
            /\ jobs[b][s].seen = 0 => Watermark(s) = 0

\* The gap of a failed run begins where changes were read up to, and the
\* run has read everything after it.
GapInv ==
    \A b \in Batch, s \in Store :
        jobs[b][s].gap =>
            /\ jobs[b][s].status = "FAILED"
            /\ jobs[b][s].seen # 0
            /\ jobs[b][s].seen <= Watermark(s)
            /\ Changes(RecoveryFrom(b), batches[b].cutoff) \subseteq read[s]

IInv ==
    /\ TypeOK
    /\ FreeInv
    /\ SourceInv
    /\ CutoffInv
    /\ OneRunInv
    /\ OriginInv
    /\ SeenInv
    /\ GapInv
    /\ RetryTakesFailedOnly
    /\ FinishedMeansOver
    /\ WatermarkIsEarned
    /\ NoSilentGap

-----------------------------------------------------------------------------
\* What the named assumptions say, in the forms the proofs use.
LEMMA Constants ==
    /\ MaxBatches \in Nat
    /\ MaxAttempts \in Nat
    /\ MaxAttempts >= 1
    /\ Window \in Nat
    /\ MaxTime \in Nat
    /\ Window < MaxTime
    /\ NoKey \notin Key
    /\ OldMode \in Mode
    /\ Batch \subseteq 0..MaxBatches
    /\ 0 \in 0..MaxBatches
    /\ 0 \notin Batch
    /\ 0 \in Time
BY KeyAssumption, BoundAssumption, ModeAssumption DEF Batch, Time

\* The initial state satisfies the inductive invariant.
LEMMA InitInv == Init => IInv
<1> SUFFICES ASSUME Init PROVE IInv
    OBVIOUS
<1> USE Constants
<1> USE DEF Init
<1>1. TypeOK
    <2>1. now \in Time
        BY DEF Time
    <2>2. batches \in [0..MaxBatches -> BatchRow]
        BY <2>1 DEF BatchRow, NoBatch, Mode, Time
    <2>3. jobs \in [0..MaxBatches -> [Store -> Job]]
        BY DEF Job, NewJob, ItemStatus, Terminal, InFlight, Time
    <2>4. coverage \in [Store -> Coverage]
        BY DEF Coverage, NoCoverage
    <2> QED
        BY <2>1, <2>2, <2>3, <2>4 DEF TypeOK
<1>2. \A b \in Batch : batches[b] = NoBatch
    OBVIOUS
<1>3. \A b \in Batch, s \in Store : jobs[b][s] = NewJob("NONE")
    OBVIOUS
<1>4. FreeInv /\ SourceInv
    BY <1>2, <1>3 DEF FreeInv, SourceInv, NoBatch, NewJob
<1>5. CutoffInv
    <2>1. batches[0].cutoff = Window + 1 /\ now = Window + 1
        BY DEF NoBatch
    <2>2. \A b \in Batch : batches[b].key = NoKey
        BY <1>2 DEF NoBatch
    <2>3. Window + 1 > Window
        OBVIOUS
    <2> HIDE DEF Init
    <2> QED
        BY <2>1, <2>2, <2>3 DEF CutoffInv
<1>6. OneRunInv /\ SeenInv /\ GapInv
    BY <1>3 DEF OneRunInv, SeenInv, GapInv, NewJob
<1>7. OriginInv
    BY DEF OriginInv, Watermark, Larger, NoCoverage
<1>8. RetryTakesFailedOnly /\ FinishedMeansOver
    BY <1>2 DEF RetryTakesFailedOnly, FinishedMeansOver, NoBatch
<1>9. WatermarkIsEarned
    BY DEF WatermarkIsEarned, NoCoverage
<1>10. NoSilentGap
    BY DEF NoSilentGap, Changes, Watermark, Larger, NoCoverage, Time
<1> QED
    BY <1>1, <1>4, <1>5, <1>6, <1>7, <1>8, <1>9, <1>10 DEF IInv

\* The window of a batch that was admitted lies in time.
LEMMA Recovery ==
    ASSUME TypeOK, CutoffInv, NEW b \in Batch, batches[b].key # NoKey
    PROVE  /\ RecoveryFrom(b) \in Time
           /\ RecoveryFrom(b) >= 1
           /\ RecoveryFrom(b) <= batches[b].cutoff
           /\ batches[b].cutoff \in Time
           /\ batches[b].mode \in Mode
<1>1. batches[b] \in BatchRow
    BY Constants DEF TypeOK
<1>2. batches[b].cutoff \in Time /\ batches[b].mode \in Mode
    BY <1>1 DEF BatchRow
<1>3. batches[b].cutoff > Window
    BY DEF CutoffInv
<1> QED
    BY Constants, <1>2, <1>3 DEF RecoveryFrom, Time

\* The watermark of a store is the larger of two times.
LEMMA WatermarkTyped ==
    ASSUME TypeOK, NEW s \in Store
    PROVE  /\ Watermark(s) \in Time
           /\ coverage[s].upTo \in Time
           /\ coverage[s].baseline \in Time
           /\ coverage[s].from \in Time
           /\ coverage[s].to \in Time
           /\ coverage[s].upTo <= Watermark(s)
           /\ coverage[s].baseline <= Watermark(s)
BY Constants DEF TypeOK, Coverage, Watermark, Larger, Time

-----------------------------------------------------------------------------
(* Steps of one operation.                                                 *)

\* The step j of the operation of s in b: every other operation is kept, and
\* the batch is finished only with the last of its operations.
JobStep(b, s, j) ==
    /\ jobs[b][s].status \in InFlight
    /\ j.status # "NONE"
    /\ j.status = "RUNNING" => \A c \in Batch : jobs[c][s].status # "RUNNING"
    /\ jobs' = [jobs EXCEPT ![b][s] = j]
    /\ \/ batches' = batches
       \/ /\ j.status \in Terminal
          /\ OverWithout(b, s)
          /\ batches' = [batches EXCEPT ![b].finished = TRUE]
    /\ now' = now

\* What a step of one operation leaves as it was.
LEMMA JobFrame ==
    ASSUME TypeOK, FreeInv, NEW b \in Batch, NEW s \in Store, NEW j \in Job, JobStep(b, s, j)
    PROVE  /\ jobs' \in [0..MaxBatches -> [Store -> Job]]
           /\ batches' \in [0..MaxBatches -> BatchRow]
           /\ batches[b].key # NoKey
           /\ jobs'[b][s] = j
           /\ \A c \in 0..MaxBatches, r \in Store :
                c # b \/ r # s => jobs'[c][r] = jobs[c][r]
           /\ \A c \in 0..MaxBatches :
                /\ batches'[c].key = batches[c].key
                /\ batches'[c].mode = batches[c].mode
                /\ batches'[c].cutoff = batches[c].cutoff
                /\ batches'[c].source = batches[c].source
                /\ c # b => batches'[c] = batches[c]
<1>1. b \in 0..MaxBatches
    BY Constants
<1>2. /\ jobs' \in [0..MaxBatches -> [Store -> Job]]
      /\ jobs'[b][s] = j
      /\ \A c \in 0..MaxBatches, r \in Store :
            c # b \/ r # s => jobs'[c][r] = jobs[c][r]
    BY <1>1 DEF TypeOK, JobStep
<1>3. batches[b].key # NoKey
    BY DEF FreeInv, JobStep, InFlight
<1> DEFINE Over == [batches[b] EXCEPT !.finished = TRUE]
<1>4. /\ batches \in [0..MaxBatches -> BatchRow]
      /\ batches[b] \in BatchRow
    BY <1>1 DEF TypeOK
<1>5. /\ Over \in BatchRow
      /\ Over.key = batches[b].key
      /\ Over.mode = batches[b].mode
      /\ Over.cutoff = batches[b].cutoff
      /\ Over.source = batches[b].source
    BY <1>4 DEF BatchRow
<1>6. batches' = batches \/ batches' = [batches EXCEPT ![b] = Over]
    BY DEF JobStep
<1> HIDE DEF Over
<1>7. batches' \in [0..MaxBatches -> BatchRow]
    BY <1>1, <1>4, <1>5, <1>6
<1>8. \A c \in 0..MaxBatches :
        /\ batches'[c].key = batches[c].key
        /\ batches'[c].mode = batches[c].mode
        /\ batches'[c].cutoff = batches[c].cutoff
        /\ batches'[c].source = batches[c].source
        /\ c # b => batches'[c] = batches[c]
    BY <1>1, <1>4, <1>5, <1>6
<1> QED
    BY <1>2, <1>3, <1>7, <1>8

\* A step of one operation keeps what relates operations and batches.
LEMMA JobStepInv ==
    ASSUME IInv, NEW b \in Batch, NEW s \in Store, NEW j \in Job, JobStep(b, s, j)
    PROVE  (FreeInv /\ SourceInv /\ CutoffInv /\ OneRunInv
                /\ RetryTakesFailedOnly /\ FinishedMeansOver)'
<1> USE DEF IInv
<1> DEFINE Frame == \A c \in Batch, r \in Store :
                        c # b \/ r # s => jobs'[c][r] = jobs[c][r]
<1>1. Frame /\ jobs'[b][s] = j
    BY JobFrame, Constants
<1>2. \A c \in Batch : /\ batches'[c].key = batches[c].key
                       /\ batches'[c].cutoff = batches[c].cutoff
                       /\ batches'[c].source = batches[c].source
                       /\ c # b => batches'[c] = batches[c]
    BY JobFrame, Constants
<1>3. /\ batches[b].key # NoKey
      /\ batches'[0] = batches[0]
    BY JobFrame, Constants
<1>4. \A c \in Batch : batches[c].source \in 0..MaxBatches
    BY Constants DEF TypeOK, BatchRow
<1>5. FreeInv'
    BY <1>1, <1>2, <1>3 DEF FreeInv
<1>6. SourceInv'
    <2>1. \A c \in Batch : batches[c].source # 0 => batches[c].source \in Batch
        BY <1>4, Constants DEF Batch
    <2> QED
        BY <1>2, <2>1 DEF SourceInv
<1>7. CutoffInv'
    BY <1>2, <1>3 DEF CutoffInv, JobStep
<1>8. OneRunInv'
    <2> SUFFICES ASSUME NEW c \in Batch, NEW d \in Batch, NEW r \in Store,
                        jobs'[c][r].status = "RUNNING", jobs'[d][r].status = "RUNNING"
                 PROVE  c = d
        BY DEF OneRunInv
    <2>1. CASE r # s
        BY <1>1, <2>1 DEF OneRunInv
    <2>2. CASE r = s /\ j.status = "RUNNING"
        BY <1>1, <2>2 DEF JobStep
    <2>3. CASE r = s /\ j.status # "RUNNING"
        BY <1>1, <2>3 DEF OneRunInv
    <2> QED
        BY <2>1, <2>2, <2>3
<1>9. RetryTakesFailedOnly'
    <2> SUFFICES ASSUME NEW c \in Batch, NEW r \in Store,
                        batches'[c].source # 0, jobs'[c][r].status # "NONE"
                 PROVE  jobs'[batches'[c].source][r].status = "FAILED"
        BY DEF RetryTakesFailedOnly
    <2>1. batches'[c].source = batches[c].source /\ batches[c].source \in Batch
        BY <1>2, <1>4, Constants DEF Batch
    <2>2. jobs[c][r].status # "NONE"
        BY <1>1 DEF JobStep, InFlight
    <2>3. jobs[batches[c].source][r].status = "FAILED"
        BY <2>1, <2>2 DEF RetryTakesFailedOnly
    <2>4. batches[c].source # b \/ r # s
        BY <2>3 DEF JobStep, InFlight
    <2> QED
        BY <1>1, <2>1, <2>3, <2>4
<1>10. FinishedMeansOver'
    <2> SUFFICES ASSUME NEW c \in Batch, batches'[c].finished
                 PROVE  Done(c)'
        BY DEF FinishedMeansOver
    <2>1. CASE c # b
        BY <1>1, <1>2, <2>1 DEF FinishedMeansOver, Done, BatchInFlight
    <2>2. CASE c = b /\ batches' = batches
        BY <2>2 DEF FinishedMeansOver, Done, BatchInFlight, JobStep
    <2>3. CASE c = b /\ batches' # batches
        <3>1. j.status \in Terminal /\ OverWithout(b, s)
            BY <2>3 DEF JobStep
        <3>2. \A r \in Store : jobs'[b][r].status \notin InFlight
            BY <1>1, <3>1 DEF OverWithout, Terminal, InFlight
        <3> QED
            BY <1>2, <1>3, <2>3, <3>2 DEF Done, BatchInFlight
    <2> QED
        BY <2>1, <2>2, <2>3
<1> QED
    BY <1>5, <1>6, <1>7, <1>8, <1>9, <1>10

\* A step of one operation that does not settle what was read.
LEMMA UnsettledStepInv ==
    ASSUME IInv, NEW b \in Batch, NEW s \in Store, NEW j \in Job, JobStep(b, s, j),
           UNCHANGED <<active, coverage, read, origin>>,
           shown' \in [Store -> {"NEVER"} \cup Terminal],
           ~j.gap,
           j.status = "RUNNING" /\ Current(b) => j.seen = Watermark(s)
    PROVE  IInv'
<1> USE DEF IInv
<1>a. /\ \A c \in 0..MaxBatches, r \in Store :
            c # b \/ r # s => jobs'[c][r] = jobs[c][r]
      /\ jobs'[b][s] = j
    BY JobFrame
<1>1. /\ \A c \in Batch, r \in Store :
            c # b \/ r # s => jobs'[c][r] = jobs[c][r]
      /\ jobs'[b][s] = j
    BY <1>a, Constants
<1>2. \A c \in Batch : /\ batches'[c].mode = batches[c].mode
                       /\ batches'[c].cutoff = batches[c].cutoff
    BY JobFrame, Constants
<1>3. TypeOK'
    BY JobFrame DEF TypeOK, JobStep
<1>4. \A r \in Store : Watermark(r)' = Watermark(r)
    BY DEF Watermark
<1>5. \A c \in Batch : /\ Current(c)' <=> Current(c)
                       /\ RecoveryFrom(c)' = RecoveryFrom(c)
    BY <1>2 DEF Current, RecoveryFrom
<1>6. OriginInv'
    BY <1>4 DEF OriginInv
<1>7. SeenInv'
    <2> SUFFICES ASSUME NEW c \in Batch, NEW r \in Store,
                        jobs'[c][r].status = "RUNNING", Current(c)'
                 PROVE  /\ jobs'[c][r].seen <= Watermark(r)
                        /\ jobs'[c][r].seen = 0 => Watermark(r) = 0
        BY <1>4 DEF SeenInv
    <2>1. CASE c # b \/ r # s
        BY <1>1, <1>5, <2>1 DEF SeenInv
    <2>2. CASE c = b /\ r = s
        <3>1. j.seen = Watermark(s)
            BY <1>1, <1>5, <2>2
        <3>2. Watermark(s) <= Watermark(s)
            BY WatermarkTyped DEF Time
        <3> QED
            BY <1>1, <2>2, <3>1, <3>2
    <2> QED
        BY <2>1, <2>2
<1>8. GapInv'
    <2> SUFFICES ASSUME NEW c \in Batch, NEW r \in Store, jobs'[c][r].gap
                 PROVE  /\ jobs'[c][r].status = "FAILED"
                        /\ jobs'[c][r].seen # 0
                        /\ jobs'[c][r].seen <= Watermark(r)
                        /\ Changes(RecoveryFrom(c)', batches'[c].cutoff) \subseteq read[r]
        BY <1>4 DEF GapInv, Changes
    <2>1. c # b \/ r # s
        BY <1>1
    <2>2. jobs[c][r].gap /\ jobs'[c][r] = jobs[c][r]
        BY <1>1, <2>1
    <2> QED
        BY <1>2, <1>5, <2>2 DEF GapInv
<1>9. WatermarkIsEarned'
    <2> SUFFICES ASSUME NEW r \in Store, coverage[r].upTo # 0
                 PROVE  \E c \in Batch : /\ jobs'[c][r].status = "SUCCEEDED"
                                         /\ Current(c)'
                                         /\ batches'[c].cutoff = coverage[r].upTo
        BY DEF WatermarkIsEarned
    <2>1. PICK c \in Batch : /\ jobs[c][r].status = "SUCCEEDED"
                            /\ Current(c)
                            /\ batches[c].cutoff = coverage[r].upTo
        BY DEF WatermarkIsEarned
    <2>2. c # b \/ r # s
        BY <2>1 DEF JobStep, InFlight
    <2> QED
        BY <1>1, <1>2, <1>5, <2>1, <2>2
<1>10. NoSilentGap'
    BY <1>4 DEF NoSilentGap, Changes
<1> QED
    BY <1>3, <1>6, <1>7, <1>8, <1>9, <1>10, JobStepInv

\* An operation begins.
LEMMA BeginInv ==
    ASSUME IInv, NEW b \in Batch, NEW s \in Store, Begin(b, s)
    PROVE  IInv'
<1> DEFINE j == Begun(b, s)
<1>1. jobs[b][s] \in Job
    BY Constants DEF IInv, TypeOK
<1>2. Watermark(s) \in Time /\ 0 \in Time
    BY Constants, WatermarkTyped DEF IInv
<1>3. jobs[b][s].attempt + 1 \in 0..MaxAttempts
    BY <1>1, Constants DEF Job, Begin, AttemptLeft
<1>4. ~jobs[b][s].gap
    BY DEF IInv, GapInv, Begin
<1>5. /\ j \in Job
      /\ j.status = "RUNNING"
      /\ j.gap = jobs[b][s].gap
      /\ Current(b) => j.seen = Watermark(s)
    <2> DEFINE seen == IF Current(b) THEN Watermark(s) ELSE 0
    <2>1. seen \in Time
        BY <1>2
    <2>2. (s \in active) \in BOOLEAN
        OBVIOUS
    <2>3. j = [jobs[b][s] EXCEPT !.status = "RUNNING", !.attempt = @ + 1,
                                 !.seen = seen, !.open = (s \in active)]
        BY DEF Begun
    <2> HIDE DEF seen
    <2>4. /\ j.status = "RUNNING"
          /\ j.seen = seen
          /\ j.gap = jobs[b][s].gap
          /\ j \in Job
        BY <1>1, <1>3, <2>1, <2>2, <2>3 DEF Job, ItemStatus, InFlight
    <2> QED
        BY <2>4 DEF seen
<1> HIDE DEF j
<1>6. JobStep(b, s, j)
    BY <1>5 DEF JobStep, Begin, InFlight, j
<1>7. shown' \in [Store -> {"NEVER"} \cup Terminal]
    BY DEF IInv, TypeOK, Begin
<1> QED
    BY <1>4, <1>5, <1>6, <1>7, UnsettledStepInv DEF Begin

\* An operation is queued again, or ended by the cleanup.
LEMMA LeftInv ==
    ASSUME IInv, NEW b \in Batch, NEW s \in Store, NEW status \in {"QUEUED", "FAILED"},
           jobs[b][s].status = "RUNNING",
           jobs' = [jobs EXCEPT ![b][s] = Left(b, s, status)],
           UNCHANGED <<now, active, batches, coverage, shown, read, origin>>
    PROVE  IInv'
<1> DEFINE j == Left(b, s, status)
<1>1. jobs[b][s] \in Job
    BY Constants DEF IInv, TypeOK
<1>a. ~jobs[b][s].gap
    BY DEF IInv, GapInv
<1>2. j \in Job /\ j.status = status /\ ~j.gap
    BY <1>1, <1>a, Constants DEF Left, Job, ItemStatus, InFlight, Terminal
<1> HIDE DEF j
<1>3. JobStep(b, s, j)
    BY <1>2 DEF JobStep, InFlight, j
<1>4. shown' \in [Store -> {"NEVER"} \cup Terminal]
    BY DEF IInv, TypeOK
<1> QED
    BY <1>2, <1>3, <1>4, UnsettledStepInv

\* The end of an operation is a step of it.
LEMMA EndStep ==
    ASSUME IInv, NEW b \in Batch, NEW s \in Store, NEW status \in Terminal,
           NEW gap \in BOOLEAN, jobs[b][s].status = "RUNNING",
           End(b, s, status, gap), now' = now
    PROVE  /\ Final(b, s, status, gap) \in Job
           /\ Final(b, s, status, gap).status = status
           /\ Final(b, s, status, gap).gap = gap
           /\ gap => Final(b, s, status, gap).seen = jobs[b][s].seen
           /\ JobStep(b, s, Final(b, s, status, gap))
           /\ shown' \in [Store -> {"NEVER"} \cup Terminal]
<1> DEFINE j == Final(b, s, status, gap)
<1>1. jobs[b][s] \in Job
    BY Constants DEF IInv, TypeOK
<1>2. /\ j \in Job
      /\ j.status = status
      /\ j.gap = gap
      /\ gap => j.seen = jobs[b][s].seen
    BY <1>1, Constants DEF Final, Job, ItemStatus
<1>3. shown' \in [Store -> {"NEVER"} \cup Terminal]
    BY DEF IInv, TypeOK, End
<1>4. jobs' = [jobs EXCEPT ![b][s] = j]
    BY DEF End
<1> HIDE DEF j
<1>5. JobStep(b, s, j)
    BY <1>2, <1>4 DEF JobStep, InFlight, Terminal, End
<1> QED
    BY <1>2, <1>3, <1>5 DEF j

\* An operation fails for good.
LEMMA FailInv ==
    ASSUME IInv, NEW b \in Batch, NEW s \in Store, Fail(b, s)
    PROVE  IInv'
<1> DEFINE j == Final(b, s, "FAILED", FALSE)
<1>1. /\ j \in Job
      /\ j.status = "FAILED"
      /\ j.gap = FALSE
      /\ JobStep(b, s, j)
      /\ shown' \in [Store -> {"NEVER"} \cup Terminal]
    BY EndStep DEF Fail, Terminal
<1> HIDE DEF j
<1> QED
    BY <1>1, UnsettledStepInv DEF Fail

-----------------------------------------------------------------------------
(* Settling what a run has read.                                           *)

\* A run of mode CURRENT reads an interval of times up to its cutoff.
LEMMA ChangesRead ==
    ASSUME IInv, NEW b \in Batch, NEW s \in Store, batches[b].key # NoKey
    PROVE  /\ jobs[b][s].seen \in Time
           /\ ChangedFrom(b, s) \in Time
           /\ Changes(ChangedFrom(b, s), batches[b].cutoff) \subseteq Time
           /\ HasGap(b, s) => ChangedFrom(b, s) = RecoveryFrom(b) /\ jobs[b][s].seen # 0
           /\ jobs[b][s].seen = 0 => ChangedFrom(b, s) = RecoveryFrom(b)
           /\ jobs[b][s].seen # 0 /\ ~HasGap(b, s) => ChangedFrom(b, s) = jobs[b][s].seen
<1>1. jobs[b][s].seen \in Time
    BY Constants DEF IInv, TypeOK, Job
<1>2. RecoveryFrom(b) \in Time /\ batches[b].cutoff \in Time
    BY Recovery DEF IInv
<1>3. /\ ChangedFrom(b, s) \in Time
      /\ HasGap(b, s) => ChangedFrom(b, s) = RecoveryFrom(b) /\ jobs[b][s].seen # 0
      /\ jobs[b][s].seen = 0 => ChangedFrom(b, s) = RecoveryFrom(b)
      /\ jobs[b][s].seen # 0 /\ ~HasGap(b, s) => ChangedFrom(b, s) = jobs[b][s].seen
    BY <1>1, <1>2 DEF ChangedFrom, HasGap
<1>4. Changes(ChangedFrom(b, s), batches[b].cutoff) \subseteq Time
    BY <1>2, <1>3, Constants DEF Changes, Time
<1> QED
    BY <1>1, <1>3, <1>4

\* A run of mode CURRENT that found a gap fails with it.
LEMMA GapFoundInv ==
    ASSUME IInv, NEW b \in Batch, NEW s \in Store, Complete(b, s),
           Current(b), HasGap(b, s)
    PROVE  IInv'
<1> USE DEF IInv
<1> DEFINE j == Final(b, s, "FAILED", TRUE)
<1> DEFINE new == Changes(ChangedFrom(b, s), batches[b].cutoff)
<1>1. /\ j \in Job
      /\ j.status = "FAILED"
      /\ j.gap = TRUE
      /\ j.seen = jobs[b][s].seen
      /\ JobStep(b, s, j)
      /\ shown' \in [Store -> {"NEVER"} \cup Terminal]
    <2>1. End(b, s, "FAILED", TRUE) /\ jobs[b][s].status = "RUNNING" /\ now' = now
        BY DEF Complete
    <2> QED
        BY <2>1, EndStep DEF Terminal
<1>2. batches[b].key # NoKey
    BY <1>1, JobFrame
<1>3. /\ coverage' = coverage
      /\ origin' = origin
      /\ read' = [read EXCEPT ![s] = @ \cup new]
      /\ active' = active
    BY <1>2, ChangesRead DEF Complete, Advanced, TypeOK
<1>4. jobs[b][s].status = "RUNNING"
    BY DEF Complete
<1> HIDE DEF j
<1>5. /\ \A c \in 0..MaxBatches, r \in Store :
            c # b \/ r # s => jobs'[c][r] = jobs[c][r]
      /\ jobs'[b][s] = j
      /\ jobs' \in [0..MaxBatches -> [Store -> Job]]
      /\ batches' \in [0..MaxBatches -> BatchRow]
    BY <1>1, JobFrame
<1>6. \A c \in Batch, r \in Store : c # b \/ r # s => jobs'[c][r] = jobs[c][r]
    BY <1>5, Constants
<1>7. \A c \in Batch : /\ batches'[c].mode = batches[c].mode
                       /\ batches'[c].cutoff = batches[c].cutoff
    BY <1>1, JobFrame, Constants
<1>8. \A c \in Batch : /\ Current(c)' <=> Current(c)
                       /\ RecoveryFrom(c)' = RecoveryFrom(c)
    BY <1>7 DEF Current, RecoveryFrom
<1>9. \A r \in Store : Watermark(r)' = Watermark(r)
    BY <1>3 DEF Watermark
<1>10. /\ read' \in [Store -> SUBSET Time]
       /\ \A r \in Store : read[r] \subseteq read'[r]
       /\ Changes(RecoveryFrom(b), batches[b].cutoff) \subseteq read'[s]
    <2>1. new \subseteq Time /\ read \in [Store -> SUBSET Time]
        BY <1>2, ChangesRead DEF TypeOK
    <2>2. new = Changes(RecoveryFrom(b), batches[b].cutoff)
        BY <1>2, ChangesRead
    <2> HIDE DEF new
    <2> QED
        BY <1>3, <2>1, <2>2
<1>11. TypeOK'
    BY <1>1, <1>3, <1>5, <1>10 DEF TypeOK, JobStep
<1>12. OriginInv'
    BY <1>3, <1>9 DEF OriginInv
<1>13. SeenInv'
    <2> SUFFICES ASSUME NEW c \in Batch, NEW r \in Store,
                        jobs'[c][r].status = "RUNNING", Current(c)'
                 PROVE  /\ jobs'[c][r].seen <= Watermark(r)
                        /\ jobs'[c][r].seen = 0 => Watermark(r) = 0
        BY <1>9 DEF SeenInv
    <2>1. c # b \/ r # s
        BY <1>1, <1>5
    <2> QED
        BY <1>6, <1>8, <2>1 DEF SeenInv
<1>14. GapInv'
    <2> SUFFICES ASSUME NEW c \in Batch, NEW r \in Store, jobs'[c][r].gap
                 PROVE  /\ jobs'[c][r].status = "FAILED"
                        /\ jobs'[c][r].seen # 0
                        /\ jobs'[c][r].seen <= Watermark(r)
                        /\ Changes(RecoveryFrom(c), batches[c].cutoff) \subseteq read'[r]
        BY <1>7, <1>8, <1>9 DEF GapInv, Changes
    <2>1. CASE c # b \/ r # s
        <3>1. jobs[c][r].gap /\ jobs'[c][r] = jobs[c][r]
            BY <1>6, <2>1
        <3> QED
            BY <1>10, <3>1 DEF GapInv
    <2>2. CASE c = b /\ r = s
        <3>1. jobs[b][s].seen # 0
            BY <1>2, ChangesRead
        <3>2. jobs[b][s].seen <= Watermark(s)
            BY <1>4 DEF SeenInv
        <3> QED
            BY <1>1, <1>5, <1>10, <2>2, <3>1, <3>2
    <2> QED
        BY <2>1, <2>2
<1>15. WatermarkIsEarned'
    <2> SUFFICES ASSUME NEW r \in Store, coverage[r].upTo # 0
                 PROVE  \E c \in Batch : /\ jobs'[c][r].status = "SUCCEEDED"
                                         /\ Current(c)'
                                         /\ batches'[c].cutoff = coverage[r].upTo
        BY <1>3 DEF WatermarkIsEarned
    <2>1. PICK c \in Batch : /\ jobs[c][r].status = "SUCCEEDED"
                            /\ Current(c)
                            /\ batches[c].cutoff = coverage[r].upTo
        BY DEF WatermarkIsEarned
    <2>2. c # b \/ r # s
        BY <1>4, <2>1
    <2> QED
        BY <1>6, <1>7, <1>8, <2>1, <2>2
<1>16. NoSilentGap'
    BY <1>3, <1>9, <1>10 DEF NoSilentGap, Changes
<1> QED
    BY <1>1, <1>11, <1>12, <1>13, <1>14, <1>15, <1>16, JobStepInv

\* A run of another mode than CURRENT settles its operation only.
LEMMA OtherModeInv ==
    ASSUME IInv, NEW b \in Batch, NEW s \in Store, Complete(b, s), ~Current(b)
    PROVE  IInv'
<1> DEFINE j == Final(b, s, "SUCCEEDED", FALSE)
<1>1. ~HasGap(b, s)
    BY DEF HasGap
<1>2. /\ j \in Job
      /\ j.status = "SUCCEEDED"
      /\ j.gap = FALSE
      /\ JobStep(b, s, j)
      /\ shown' \in [Store -> {"NEVER"} \cup Terminal]
    <2>1. End(b, s, "SUCCEEDED", FALSE) /\ jobs[b][s].status = "RUNNING" /\ now' = now
        BY <1>1 DEF Complete
    <2> QED
        BY <2>1, EndStep DEF Terminal
<1>3. UNCHANGED <<active, coverage, read, origin>>
    BY DEF Complete, Advanced, IInv, TypeOK
<1> HIDE DEF j
<1> QED
    BY <1>2, <1>3, UnsettledStepInv

\* A run of mode CURRENT without a gap advances the watermark.
LEMMA AdvancedInv ==
    ASSUME IInv, NEW b \in Batch, NEW s \in Store, Complete(b, s),
           Current(b), ~HasGap(b, s)
    PROVE  IInv'
<1> USE DEF IInv
<1> DEFINE j == Final(b, s, "SUCCEEDED", FALSE)
<1> DEFINE cutoff == batches[b].cutoff
<1> DEFINE new == Changes(ChangedFrom(b, s), cutoff)
<1> DEFINE cov == [coverage[s] EXCEPT !.upTo = Larger(@, cutoff)]
<1> DEFINE start == IF jobs[b][s].seen # 0 THEN origin[s]
                    ELSE IF origin[s] = 0 THEN RecoveryFrom(b)
                         ELSE Smaller(origin[s], RecoveryFrom(b))
<1>1. /\ j \in Job
      /\ j.status = "SUCCEEDED"
      /\ j.gap = FALSE
      /\ JobStep(b, s, j)
      /\ shown' \in [Store -> {"NEVER"} \cup Terminal]
    <2>1. End(b, s, "SUCCEEDED", FALSE) /\ jobs[b][s].status = "RUNNING" /\ now' = now
        BY DEF Complete
    <2> QED
        BY <2>1, EndStep DEF Terminal
<1>2. batches[b].key # NoKey
    BY <1>1, JobFrame
<1>3. /\ jobs[b][s].status = "RUNNING"
      /\ coverage' = [coverage EXCEPT ![s] = cov]
      /\ read' = [read EXCEPT ![s] = @ \cup new]
      /\ active' = active
    BY DEF Complete, Advanced
<1>4. origin' = [origin EXCEPT ![s] = start]
    BY DEF Complete, TypeOK
<1> HIDE DEF j
<1>5. /\ \A c \in 0..MaxBatches, r \in Store :
            c # b \/ r # s => jobs'[c][r] = jobs[c][r]
      /\ jobs'[b][s] = j
      /\ jobs' \in [0..MaxBatches -> [Store -> Job]]
      /\ batches' \in [0..MaxBatches -> BatchRow]
    BY <1>1, JobFrame
<1>6. \A c \in Batch, r \in Store : c # b \/ r # s => jobs'[c][r] = jobs[c][r]
    BY <1>5, Constants
<1>7. \A c \in Batch : /\ batches'[c].mode = batches[c].mode
                       /\ batches'[c].cutoff = batches[c].cutoff
    BY <1>1, JobFrame, Constants
<1>8. \A c \in Batch : /\ Current(c)' <=> Current(c)
                       /\ RecoveryFrom(c)' = RecoveryFrom(c)
    BY <1>7 DEF Current, RecoveryFrom
<1>9. /\ cutoff \in Time
      /\ cutoff >= 1
      /\ RecoveryFrom(b) \in Time
      /\ RecoveryFrom(b) >= 1
    BY <1>2, Recovery, Constants DEF Time
<1> HIDE DEF cutoff
<1>10. /\ cov \in Coverage
       /\ cov.upTo = Larger(coverage[s].upTo, cutoff)
       /\ cov.baseline = coverage[s].baseline
       /\ cov.from = coverage[s].from
       /\ cov.to = coverage[s].to
    BY <1>9 DEF TypeOK, Coverage, Larger
<1> HIDE DEF cov
<1>11. \A r \in Store \ {s} : coverage'[r] = coverage[r] /\ Watermark(r)' = Watermark(r)
    BY <1>3 DEF TypeOK, Watermark
<1>12. /\ coverage'[s] = cov
       /\ coverage' \in [Store -> Coverage]
    BY <1>3, <1>10 DEF TypeOK
<1>13. Watermark(s)' = Larger(Watermark(s), cutoff)
    BY <1>9, <1>10, <1>12, WatermarkTyped DEF Watermark, Larger, Time
<1>14. /\ Watermark(s) \in Time
       /\ Watermark(s)' \in Time
       /\ Watermark(s) <= Watermark(s)'
       /\ Watermark(s)' # 0
    BY <1>9, <1>13, WatermarkTyped DEF Larger, Time
<1>15. /\ jobs[b][s].seen \in Time
       /\ jobs[b][s].seen <= Watermark(s)
       /\ jobs[b][s].seen = 0 => Watermark(s) = 0
    BY <1>2, <1>3, ChangesRead DEF SeenInv
<1>16. /\ start \in Time
       /\ start # 0
       /\ jobs[b][s].seen = 0 => start = RecoveryFrom(b)
       /\ jobs[b][s].seen # 0 => start = origin[s]
    <2>1. origin[s] \in Time /\ (origin[s] = 0 <=> Watermark(s) = 0)
        BY DEF TypeOK, OriginInv
    <2>2. jobs[b][s].seen # 0 => Watermark(s) # 0
        BY <1>14, <1>15 DEF Time
    <2> QED
        BY <1>9, <1>15, <2>1, <2>2 DEF Smaller, Time
<1> HIDE DEF start
<1>17. /\ origin'[s] = start
       /\ origin' \in [Store -> Time]
       /\ \A r \in Store \ {s} : origin'[r] = origin[r]
    BY <1>4, <1>16 DEF TypeOK
<1>18. /\ read' \in [Store -> SUBSET Time]
       /\ \A r \in Store : read[r] \subseteq read'[r]
       /\ new \subseteq read'[s]
    <2>1. new \subseteq Time /\ read \in [Store -> SUBSET Time]
        BY <1>2, ChangesRead DEF TypeOK, cutoff
    <2> HIDE DEF new
    <2> QED
        BY <1>3, <2>1
<1>19. TypeOK'
    BY <1>1, <1>3, <1>5, <1>12, <1>17, <1>18 DEF TypeOK, JobStep
<1>20. OriginInv'
    <2> SUFFICES ASSUME NEW r \in Store
                 PROVE  /\ origin'[r] = 0 <=> Watermark(r)' = 0
                        /\ coverage'[r].from = 0 => coverage'[r].to = 0
        BY DEF OriginInv
    <2>1. CASE r = s
        BY <1>10, <1>12, <1>14, <1>16, <1>17, <2>1 DEF OriginInv
    <2>2. CASE r # s
        BY <1>11, <1>17, <2>2 DEF OriginInv
    <2> QED
        BY <2>1, <2>2
<1>21. SeenInv'
    <2> SUFFICES ASSUME NEW c \in Batch, NEW r \in Store,
                        jobs'[c][r].status = "RUNNING", Current(c)'
                 PROVE  /\ jobs'[c][r].seen <= Watermark(r)'
                        /\ jobs'[c][r].seen = 0 => Watermark(r)' = 0
        BY DEF SeenInv
    <2>1. c # b \/ r # s
        BY <1>1, <1>5
    <2>2. jobs'[c][r] = jobs[c][r]
        BY <1>6, <2>1
    <2>3. r # s
        BY <1>3, <2>1, <2>2 DEF OneRunInv
    <2> QED
        BY <1>8, <1>11, <2>2, <2>3 DEF SeenInv
<1>22. GapInv'
    <2> SUFFICES ASSUME NEW c \in Batch, NEW r \in Store, jobs'[c][r].gap
                 PROVE  /\ jobs'[c][r].status = "FAILED"
                        /\ jobs'[c][r].seen # 0
                        /\ jobs'[c][r].seen <= Watermark(r)'
                        /\ Changes(RecoveryFrom(c), batches[c].cutoff) \subseteq read'[r]
        BY <1>7, <1>8 DEF GapInv, Changes
    <2>1. jobs[c][r].gap /\ jobs'[c][r] = jobs[c][r]
        BY <1>1, <1>5, <1>6
    <2>2. /\ jobs[c][r].seen <= Watermark(r)
          /\ Changes(RecoveryFrom(c), batches[c].cutoff) \subseteq read'[r]
        BY <1>18, <2>1 DEF GapInv
    <2>3. jobs[c][r].seen \in Time
        BY Constants DEF TypeOK, Job
    <2>4. jobs[c][r].seen <= Watermark(r)'
        BY <1>11, <1>14, <2>2, <2>3 DEF Time
    <2> QED
        BY <2>1, <2>2, <2>4 DEF GapInv
<1>23. WatermarkIsEarned'
    <2> SUFFICES ASSUME NEW r \in Store, coverage'[r].upTo # 0
                 PROVE  \E c \in Batch : /\ jobs'[c][r].status = "SUCCEEDED"
                                         /\ Current(c)'
                                         /\ batches'[c].cutoff = coverage'[r].upTo
        BY DEF WatermarkIsEarned
    <2>1. CASE r = s /\ coverage'[r].upTo = cutoff
        BY <1>1, <1>5, <1>7, <1>8, <2>1 DEF cutoff
    <2>2. CASE coverage'[r].upTo = coverage[r].upTo
        <3>1. PICK c \in Batch : /\ jobs[c][r].status = "SUCCEEDED"
                                /\ Current(c)
                                /\ batches[c].cutoff = coverage[r].upTo
            BY <2>2 DEF WatermarkIsEarned
        <3>2. c # b \/ r # s
            BY <1>3, <3>1
        <3> QED
            BY <1>6, <1>7, <1>8, <2>2, <3>1, <3>2
    <2> QED
        BY <1>10, <1>11, <1>12, <2>1, <2>2 DEF Larger
<1>24. NoSilentGap'
    <2> SUFFICES ASSUME NEW r \in Store, NEW x \in Changes(origin'[r], Watermark(r)'),
                        x \notin read'[r]
                 PROVE  x \in Changes(coverage'[r].from, coverage'[r].to)
        BY DEF NoSilentGap, Changes
    <2>1. CASE r # s
        BY <1>11, <1>17, <1>18, <2>1 DEF NoSilentGap
    <2>2. CASE r = s
        <3>1. x \notin new
            BY <1>18, <2>2
        <3>2. x \in Nat /\ start < x /\ x <= Larger(Watermark(s), cutoff)
            BY <1>13, <1>16, <1>17, <2>2 DEF Changes, Larger, Time
        <3>3. x <= cutoff => x <= ChangedFrom(b, s)
            BY <1>2, <1>9, <3>1, <3>2, ChangesRead DEF Changes, Time
        <3>4. jobs[b][s].seen # 0
            BY <1>2, <1>9, <1>15, <1>16, <3>2, <3>3, ChangesRead DEF Larger, Time
        <3>5. ChangedFrom(b, s) = jobs[b][s].seen /\ start = origin[s]
            BY <1>2, <1>16, <3>4, ChangesRead
        <3>6. x <= Watermark(s)
            BY <1>9, <1>14, <1>15, <3>2, <3>3, <3>5 DEF Larger, Time
        <3>7. x \in Changes(origin[s], Watermark(s))
            BY <1>14, <1>16, <3>2, <3>5, <3>6 DEF Changes, Time
        <3>8. x \in Changes(coverage[s].from, coverage[s].to)
            BY <1>18, <2>2, <3>7 DEF NoSilentGap
        <3> QED
            BY <1>10, <1>12, <2>2, <3>8
    <2> QED
        BY <2>1, <2>2
<1> QED
    BY <1>1, <1>19, <1>20, <1>21, <1>22, <1>23, <1>24, JobStepInv

\* A run that has read everything ends.
LEMMA CompleteInv ==
    ASSUME IInv, NEW b \in Batch, NEW s \in Store, Complete(b, s)
    PROVE  IInv'
BY OtherModeInv, GapFoundInv, AdvancedInv

\* The record of a store whose gap is accepted.
LEMMA AcceptedCoverage ==
    ASSUME IInv, NEW b \in Batch, NEW s \in Store, batches[b].key # NoKey, Gapped(b, s)
    PROVE  /\ Accepted(b, s) \in Coverage
           /\ Accepted(b, s).upTo = coverage[s].upTo
           /\ Accepted(b, s).baseline = Larger(Watermark(s), batches[b].cutoff)
           /\ Accepted(b, s).from # 0
           /\ Accepted(b, s).from <= jobs[b][s].seen
           /\ coverage[s].from # 0 => Accepted(b, s).from <= coverage[s].from
           /\ Accepted(b, s).to >= RecoveryFrom(b)
           /\ Accepted(b, s).to >= coverage[s].to
<1> USE DEF IInv
<1> DEFINE seen == jobs[b][s].seen
<1> DEFINE from == IF coverage[s].from # 0 THEN Smaller(coverage[s].from, seen) ELSE seen
<1> DEFINE to == Larger(coverage[s].to, RecoveryFrom(b))
<1> DEFINE baseline == Larger(Watermark(s), batches[b].cutoff)
<1> DEFINE acknowledged == coverage[s].acknowledged \cup {b}
<1>1. /\ RecoveryFrom(b) \in Time
      /\ batches[b].cutoff \in Time
    BY Recovery
<1>2. seen \in Time /\ seen # 0
    BY Constants DEF TypeOK, Job, Gapped, GapInv
<1>3. coverage[s] \in Coverage
    BY DEF TypeOK
<1>4. /\ from \in Time
      /\ from # 0
      /\ from <= seen
      /\ coverage[s].from # 0 => from <= coverage[s].from
    BY <1>2, <1>3 DEF Coverage, Smaller, Time
<1>5. /\ to \in Time
      /\ to >= RecoveryFrom(b)
      /\ to >= coverage[s].to
    BY <1>1, <1>3 DEF Coverage, Larger, Time
<1>6. baseline \in Time
    BY <1>1, WatermarkTyped DEF Larger
<1>7. acknowledged \in SUBSET Batch
    BY <1>3 DEF Coverage
<1>8. Accepted(b, s) = [coverage[s] EXCEPT !.from = from, !.to = to,
                                           !.baseline = baseline,
                                           !.acknowledged = acknowledged]
    BY <1>3 DEF Accepted, Widened, Coverage
<1> HIDE DEF seen, from, to, baseline, acknowledged
<1>9. /\ Accepted(b, s) \in Coverage
      /\ Accepted(b, s).upTo = coverage[s].upTo
      /\ Accepted(b, s).baseline = baseline
      /\ Accepted(b, s).from = from
      /\ Accepted(b, s).to = to
    BY <1>3, <1>4, <1>5, <1>6, <1>7, <1>8 DEF Coverage
<1> QED
    BY <1>4, <1>5, <1>9 DEF seen, baseline

\* Gaps are acknowledged.
LEMMA AcknowledgeInv ==
    ASSUME IInv, NEW b \in Batch, Acknowledge(b)
    PROVE  IInv'
<1> USE DEF IInv
<1> DEFINE Taken(r) == Gapped(b, r) /\ b \notin coverage[r].acknowledged
<1>1. /\ UNCHANGED <<now, active, batches, jobs, shown, read, origin>>
      /\ batches[b].key # NoKey
      /\ coverage' = [r \in Store |-> IF Taken(r) THEN Accepted(b, r) ELSE coverage[r]]
    BY DEF Acknowledge, Done
<1>2. \A r \in Store : ~Taken(r) => coverage'[r] = coverage[r] /\ Watermark(r)' = Watermark(r)
    BY <1>1 DEF Watermark
<1>3. ASSUME NEW r \in Store, Taken(r)
      PROVE  /\ coverage'[r] = Accepted(b, r)
             /\ Watermark(r)' = Larger(Watermark(r), batches[b].cutoff)
             /\ Watermark(r) # 0
    <2>1. coverage'[r] = Accepted(b, r)
        BY <1>1, <1>3
    <2>2. Watermark(r)' = Larger(coverage[r].upTo, Larger(Watermark(r), batches[b].cutoff))
        BY <1>1, <1>3, <2>1, AcceptedCoverage DEF Watermark
    <2>3. batches[b].cutoff \in Time
        BY <1>1, Recovery
    <2>4. Watermark(r) # 0
        <3>1. jobs[b][r].seen \in Time /\ jobs[b][r].seen # 0 /\ jobs[b][r].seen <= Watermark(r)
            <4>1. jobs[b][r] \in Job
                BY Constants DEF TypeOK, Batch
            <4>2. jobs[b][r].gap
                BY <1>3 DEF Gapped
            <4>3. jobs[b][r].seen # 0 /\ jobs[b][r].seen <= Watermark(r)
                BY <4>2 DEF GapInv
            <4>4. jobs[b][r].seen \in Time
                BY <4>1 DEF Job
            <4> QED
                BY <4>3, <4>4
        <3> QED
            BY <3>1, WatermarkTyped DEF Time
    <2> QED
        BY <2>1, <2>2, <2>3, <2>4, WatermarkTyped DEF Larger, Time
<1>4. \A r \in Store : /\ Watermark(r) \in Time
                       /\ Watermark(r)' \in Time
                       /\ Watermark(r) <= Watermark(r)'
                       /\ Watermark(r)' = 0 <=> Watermark(r) = 0
    <2> SUFFICES ASSUME NEW r \in Store
                 PROVE  /\ Watermark(r) \in Time
                        /\ Watermark(r)' \in Time
                        /\ Watermark(r) <= Watermark(r)'
                        /\ Watermark(r)' = 0 <=> Watermark(r) = 0
        OBVIOUS
    <2>1. batches[b].cutoff \in Time
        BY <1>1, Recovery
    <2>2. Watermark(r) \in Time
        BY WatermarkTyped
    <2>3. CASE Taken(r)
        BY <1>3, <2>1, <2>2, <2>3 DEF Larger, Time
    <2>4. CASE ~Taken(r)
        BY <1>2, <2>2, <2>4 DEF Time
    <2> QED
        BY <2>3, <2>4
<1> HIDE DEF Taken
<1>5. TypeOK'
    <2>1. coverage' \in [Store -> Coverage]
        <3>1. \A r \in Store : Taken(r) => Accepted(b, r) \in Coverage
            BY <1>1, AcceptedCoverage DEF Taken
        <3>2. coverage \in [Store -> Coverage]
            BY DEF TypeOK
        <3> QED
            BY <1>1, <3>1, <3>2
    <2> QED
        BY <1>1, <2>1 DEF TypeOK
<1>6. (FreeInv /\ SourceInv /\ CutoffInv /\ OneRunInv /\ RetryTakesFailedOnly)'
    BY <1>1 DEF FreeInv, SourceInv, CutoffInv, OneRunInv, RetryTakesFailedOnly
<1>7. FinishedMeansOver'
    BY <1>1 DEF FinishedMeansOver, Done, BatchInFlight
<1>8. OriginInv'
    <2>1. \A r \in Store : coverage'[r].from = 0 => coverage'[r].to = 0
        <3> SUFFICES ASSUME NEW r \in Store, coverage'[r].from = 0
                     PROVE  coverage'[r].to = 0
            OBVIOUS
        <3>1. ~Taken(r)
            BY <1>1, <1>3, AcceptedCoverage DEF Taken
        <3> QED
            BY <1>2, <3>1 DEF OriginInv
    <2> QED
        BY <1>1, <1>4, <2>1 DEF OriginInv
<1>9. SeenInv'
    <2> SUFFICES ASSUME NEW c \in Batch, NEW r \in Store,
                        jobs[c][r].status = "RUNNING", Current(c)
                 PROVE  /\ jobs[c][r].seen <= Watermark(r)'
                        /\ jobs[c][r].seen = 0 => Watermark(r)' = 0
        BY <1>1 DEF SeenInv, Current
    <2>1. jobs[c][r].seen \in Time
        BY Constants DEF TypeOK, Job
    <2> QED
        BY <1>4, <2>1 DEF SeenInv, Time
<1>10. GapInv'
    <2> SUFFICES ASSUME NEW c \in Batch, NEW r \in Store, jobs[c][r].gap
                 PROVE  /\ jobs[c][r].status = "FAILED"
                        /\ jobs[c][r].seen # 0
                        /\ jobs[c][r].seen <= Watermark(r)'
                        /\ Changes(RecoveryFrom(c), batches[c].cutoff) \subseteq read[r]
        BY <1>1 DEF GapInv, Changes, RecoveryFrom
    <2>1. jobs[c][r].seen \in Time
        BY Constants DEF TypeOK, Job
    <2> QED
        BY <1>4, <2>1 DEF GapInv, Time
<1>11. WatermarkIsEarned'
    <2>1. \A r \in Store : coverage'[r].upTo = coverage[r].upTo
        BY <1>1, <1>2, <1>3, AcceptedCoverage DEF Taken
    <2> QED
        BY <1>1, <2>1 DEF WatermarkIsEarned, Current
<1>12. NoSilentGap'
    <2> SUFFICES ASSUME NEW r \in Store, NEW x \in Changes(origin[r], Watermark(r)'),
                        x \notin read[r]
                 PROVE  x \in Changes(coverage'[r].from, coverage'[r].to)
        BY <1>1 DEF NoSilentGap, Changes
    <2>1. CASE ~Taken(r)
        BY <1>2, <2>1 DEF NoSilentGap
    <2>2. CASE Taken(r)
        <3>1. /\ coverage'[r] = Accepted(b, r)
              /\ Watermark(r)' = Larger(Watermark(r), batches[b].cutoff)
            BY <1>3, <2>2
        <3>2. /\ RecoveryFrom(b) \in Time
              /\ batches[b].cutoff \in Time
              /\ origin[r] \in Time
              /\ jobs[b][r].seen \in Time
              /\ jobs[b][r].seen <= Watermark(r)
            BY <1>1, <2>2, Recovery, Constants DEF TypeOK, Job, GapInv, Gapped, Taken
        <3>3. x \in Nat /\ origin[r] < x /\ x <= Larger(Watermark(r), batches[b].cutoff)
            BY <1>4, <3>1, <3>2 DEF Changes, Larger, Time
        <3>4. /\ coverage'[r] \in Coverage
              /\ coverage'[r].from <= jobs[b][r].seen
              /\ coverage[r].from # 0 => coverage'[r].from <= coverage[r].from
              /\ coverage'[r].to >= RecoveryFrom(b)
              /\ coverage'[r].to >= coverage[r].to
            BY <1>1, <2>2, <3>1, AcceptedCoverage DEF Taken
        <3>5. /\ coverage'[r].from \in Time
              /\ coverage'[r].to \in Time
              /\ coverage[r].from \in Time
              /\ coverage[r].to \in Time
            BY <3>4 DEF TypeOK, Coverage
        <3>6. CASE x <= Watermark(r)
            <4>1. x \in Changes(origin[r], Watermark(r))
                BY <1>4, <3>2, <3>3, <3>6 DEF Changes, Time
            <4>2. x \in Changes(coverage[r].from, coverage[r].to)
                BY <4>1 DEF NoSilentGap
            <4>3. coverage[r].from # 0
                BY <3>3, <4>2 DEF OriginInv, Changes
            <4> QED
                BY <3>3, <3>4, <3>5, <4>2, <4>3 DEF Changes, Time
        <3>7. CASE x > Watermark(r)
            <4>1. x <= batches[b].cutoff
                BY <1>4, <3>2, <3>3, <3>7 DEF Larger, Time
            <4>2. Changes(RecoveryFrom(b), batches[b].cutoff) \subseteq read[r]
                BY <2>2 DEF GapInv, Gapped, Taken
            <4>3. x <= RecoveryFrom(b)
                BY <3>2, <3>3, <4>1, <4>2 DEF Changes, Time
            <4> QED
                BY <1>4, <3>2, <3>3, <3>4, <3>5, <3>7, <4>3 DEF Changes, Time
        <3> QED
            BY <1>4, <3>3, <3>6, <3>7 DEF Time
    <2> QED
        BY <2>1, <2>2
<1> QED
    BY <1>5, <1>6, <1>7, <1>8, <1>9, <1>10, <1>11, <1>12

-----------------------------------------------------------------------------
(* Admission and what is left.                                             *)

\* A batch is admitted; a retry takes stores that failed in its source.
LEMMA InsertInv ==
    ASSUME IInv, NEW b \in Batch, NEW key \in Key, NEW mode \in Mode,
           NEW cutoff \in Time, cutoff > Window, NEW source \in 0..MaxBatches,
           NEW stores \in SUBSET Store,
           source # 0 => /\ batches[source].key # NoKey
                         /\ \A s \in stores : jobs[source][s].status = "FAILED",
           Insert(b, key, mode, cutoff, source, stores)
    PROVE  IInv'
<1> USE DEF IInv
<1> DEFINE row == [key |-> key, mode |-> mode, cutoff |-> cutoff,
                   source |-> source, finished |-> stores \cap active = {}]
<1> DEFINE job(s) == NewJob(IF s \notin stores THEN "NONE"
                            ELSE IF s \in active THEN "QUEUED" ELSE "SKIPPED")
<1>1. batches[b].key = NoKey
    BY DEF Insert, NextBatch, Batch
<1>2. /\ batches' = [batches EXCEPT ![b] = row]
      /\ jobs' = [jobs EXCEPT ![b] = [s \in Store |-> job(s)]]
      /\ UNCHANGED <<now, active, coverage, shown, read, origin>>
    BY DEF Insert
<1>3. /\ row \in BatchRow
      /\ row.key # NoKey
      /\ row.cutoff > Window
      /\ row.source = source
      /\ row.finished => stores \cap active = {}
    BY Constants DEF BatchRow
<1>4. \A s \in Store :
        /\ job(s) \in Job
        /\ job(s).status \in {"NONE", "QUEUED", "SKIPPED"}
        /\ ~job(s).gap
        /\ s \notin stores => job(s).status = "NONE"
        /\ job(s).status \in InFlight => s \in stores \cap active
    BY Constants DEF NewJob, Job, ItemStatus, InFlight, Terminal
<1> HIDE DEF row, job
<1>5. /\ batches' \in [0..MaxBatches -> BatchRow]
      /\ batches'[b] = row
      /\ \A c \in 0..MaxBatches : c # b => batches'[c] = batches[c]
    BY <1>2, <1>3, Constants DEF TypeOK
<1>6. /\ jobs' \in [0..MaxBatches -> [Store -> Job]]
      /\ \A s \in Store : jobs'[b][s] = job(s)
      /\ \A c \in 0..MaxBatches : c # b => jobs'[c] = jobs[c]
    BY <1>2, <1>4, Constants DEF TypeOK
<1>7. \A s \in Store : jobs[b][s].status = "NONE"
    BY <1>1 DEF FreeInv
<1>8. \A c \in Batch : c # b => /\ batches'[c] = batches[c]
                              /\ jobs'[c] = jobs[c]
    BY <1>5, <1>6, Constants
<1>9. \A r \in Store : Watermark(r)' = Watermark(r)
    BY <1>2 DEF Watermark
<1>10. \A c \in Batch : c # b => /\ Current(c)' <=> Current(c)
                               /\ RecoveryFrom(c)' = RecoveryFrom(c)
    BY <1>8 DEF Current, RecoveryFrom
<1>11. TypeOK'
    BY <1>2, <1>5, <1>6 DEF TypeOK
<1>12. FreeInv'
    BY <1>3, <1>5, <1>8 DEF FreeInv
<1>13. SourceInv'
    <2> SUFFICES ASSUME NEW c \in Batch, batches'[c].source # 0
                 PROVE  batches'[batches'[c].source].key # NoKey
        BY DEF SourceInv
    <2>1. CASE c = b
        <3>1. source # b /\ batches'[c].source = source
            BY <1>1, <1>3, <1>5, <2>1
        <3> QED
            BY <1>3, <1>5, <2>1, <3>1
    <2>2. CASE c # b
        <3>1. batches'[c].source = batches[c].source /\ batches[c].source # 0
            BY <1>8, <2>2
        <3>2. batches[c].source \in 0..MaxBatches
            BY Constants DEF TypeOK, BatchRow
        <3>3. batches[batches[c].source].key # NoKey
            BY <3>1 DEF SourceInv
        <3> QED
            BY <1>1, <1>5, <3>1, <3>2, <3>3
    <2> QED
        BY <2>1, <2>2
<1>14. CutoffInv'
    <2>1. batches'[0] = batches[0]
        BY <1>5, Constants
    <2> QED
        BY <1>2, <1>3, <1>5, <1>8, <2>1 DEF CutoffInv
<1>15. OneRunInv'
    BY <1>4, <1>6, <1>8 DEF OneRunInv
<1>16. OriginInv'
    BY <1>2, <1>9 DEF OriginInv
<1>17. SeenInv'
    BY <1>4, <1>6, <1>8, <1>9, <1>10 DEF SeenInv
<1>18. GapInv'
    <2> SUFFICES ASSUME NEW c \in Batch, NEW r \in Store, jobs'[c][r].gap
                 PROVE  /\ jobs'[c][r].status = "FAILED"
                        /\ jobs'[c][r].seen # 0
                        /\ jobs'[c][r].seen <= Watermark(r)
                        /\ Changes(RecoveryFrom(c)', batches'[c].cutoff) \subseteq read[r]
        BY <1>2, <1>9 DEF GapInv, Changes
    <2>1. c # b
        BY <1>4, <1>6
    <2> QED
        BY <1>8, <1>10, <2>1 DEF GapInv
<1>19. RetryTakesFailedOnly'
    <2> SUFFICES ASSUME NEW c \in Batch, NEW r \in Store,
                        batches'[c].source # 0, jobs'[c][r].status # "NONE"
                 PROVE  jobs'[batches'[c].source][r].status = "FAILED"
        BY DEF RetryTakesFailedOnly
    <2>1. CASE c = b
        <3>1. source # b /\ batches'[c].source = source
            BY <1>1, <1>3, <1>5, <2>1
        <3>2. jobs[source][r].status = "FAILED"
            BY <1>3, <1>4, <1>5, <1>6, <2>1
        <3> QED
            BY <1>6, <3>1, <3>2
    <2>2. CASE c # b
        <3>1. batches'[c].source = batches[c].source /\ jobs'[c] = jobs[c]
            BY <1>8, <2>2
        <3>2. batches[c].source \in 0..MaxBatches
            BY Constants DEF TypeOK, BatchRow
        <3>3. jobs[batches[c].source][r].status = "FAILED"
            BY <3>1 DEF RetryTakesFailedOnly
        <3>4. batches[c].source # b
            BY <1>7, <3>3
        <3> QED
            BY <1>6, <3>1, <3>2, <3>3, <3>4
    <2> QED
        BY <2>1, <2>2
<1>20. FinishedMeansOver'
    <2> SUFFICES ASSUME NEW c \in Batch, batches'[c].finished
                 PROVE  Done(c)'
        BY DEF FinishedMeansOver
    <2>1. CASE c = b
        BY <1>3, <1>4, <1>5, <1>6, <2>1 DEF Done, BatchInFlight
    <2>2. CASE c # b
        BY <1>8, <2>2 DEF FinishedMeansOver, Done, BatchInFlight
    <2> QED
        BY <2>1, <2>2
<1>21. WatermarkIsEarned'
    <2> SUFFICES ASSUME NEW r \in Store, coverage[r].upTo # 0
                 PROVE  \E c \in Batch : /\ jobs'[c][r].status = "SUCCEEDED"
                                         /\ Current(c)'
                                         /\ batches'[c].cutoff = coverage[r].upTo
        BY <1>2 DEF WatermarkIsEarned
    <2>1. PICK c \in Batch : /\ jobs[c][r].status = "SUCCEEDED"
                            /\ Current(c)
                            /\ batches[c].cutoff = coverage[r].upTo
        BY DEF WatermarkIsEarned
    <2>2. c # b
        BY <1>7, <2>1
    <2> QED
        BY <1>8, <1>10, <2>1, <2>2
<1>22. NoSilentGap'
    BY <1>2, <1>9 DEF NoSilentGap, Changes
<1> QED
    BY <1>11, <1>12, <1>13, <1>14, <1>15, <1>16, <1>17, <1>18, <1>19, <1>20, <1>21, <1>22

\* Requests, retries of a batch and retries of an operation without one.
LEMMA AdmitInv ==
    ASSUME IInv, Admit
    PROVE  IInv'
<1> USE DEF IInv
<1>1. PICK b \in Batch, key \in Key :
        \/ \E mode \in Mode, stores \in Targets : Request(b, key, mode, stores)
        \/ \E source \in Batch, stores \in Targets : Retry(b, key, source, stores)
        \/ \E s \in Store : RetryOld(b, key, s)
    BY DEF Admit
<1>2. Targets \subseteq SUBSET Store
    BY DEF Targets
<1>3. ASSUME NEW mode \in Mode, NEW stores \in Targets, Request(b, key, mode, stores)
      PROVE  IInv'
    <2>1. now \in Time /\ now > Window
        BY DEF TypeOK, CutoffInv
    <2>2. Insert(b, key, mode, now, 0, stores)
        BY <1>3 DEF Request
    <2> HIDE DEF IInv
    <2> QED
        BY <1>2, <2>1, <2>2, InsertInv, Constants
<1>4. ASSUME NEW source \in Batch, NEW stores \in Targets, Retry(b, key, source, stores)
      PROVE  IInv'
    <2>1. /\ batches[source].key # NoKey
          /\ Insert(b, key, batches[source].mode, batches[source].cutoff, source,
                    FailedStores(source, stores))
        BY <1>4 DEF Retry
    <2>2. /\ batches[source].cutoff \in Time
          /\ batches[source].mode \in Mode
          /\ batches[source].cutoff > Window
        BY <2>1, Recovery DEF CutoffInv
    <2>3. /\ FailedStores(source, stores) \in SUBSET Store
          /\ \A s \in FailedStores(source, stores) : jobs[source][s].status = "FAILED"
        BY <1>2 DEF FailedStores
    <2>4. source \in 0..MaxBatches
        BY Constants
    <2> HIDE DEF IInv
    <2> QED
        BY <2>1, <2>2, <2>3, <2>4, InsertInv
<1>5. ASSUME NEW s \in Store, RetryOld(b, key, s)
      PROVE  IInv'
    <2>1. Insert(b, key, batches[0].mode, batches[0].cutoff, 0, {s})
        BY <1>5 DEF RetryOld
    <2>2. batches[0].mode \in Mode /\ batches[0].cutoff \in Time
        BY Constants DEF TypeOK, BatchRow
    <2>3. batches[0].cutoff > Window /\ {s} \in SUBSET Store
        BY DEF CutoffInv
    <2> HIDE DEF IInv
    <2> QED
        BY <2>1, <2>2, <2>3, InsertInv, Constants
<1> QED
    BY <1>1, <1>3, <1>4, <1>5

\* Stores are switched on and off, time passes, or nothing happens.
LEMMA OtherInv ==
    ASSUME IInv, UNCHANGED <<batches, jobs, coverage, shown, read, origin>>,
           now' \in Time, now' >= now, active' \subseteq Store
    PROVE  IInv'
<1> USE DEF IInv
<1>1. TypeOK'
    BY DEF TypeOK
<1>2. CutoffInv'
    BY Constants DEF CutoffInv, TypeOK, Time
<1>3. (FreeInv /\ SourceInv /\ OneRunInv /\ RetryTakesFailedOnly)'
    BY DEF FreeInv, SourceInv, OneRunInv, RetryTakesFailedOnly
<1>4. FinishedMeansOver'
    BY DEF FinishedMeansOver, Done, BatchInFlight
<1>5. (OriginInv /\ SeenInv)'
    BY DEF OriginInv, SeenInv, Watermark, Current
<1>6. GapInv'
    BY DEF GapInv, Changes, RecoveryFrom, Watermark
<1>7. WatermarkIsEarned'
    BY DEF WatermarkIsEarned, Current
<1>8. NoSilentGap'
    BY DEF NoSilentGap, Changes, Watermark
<1> QED
    BY <1>1, <1>2, <1>3, <1>4, <1>5, <1>6, <1>7, <1>8

\* Every step keeps the inductive invariant.
LEMMA NextInv == IInv /\ [Next]_vars => IInv'
<1> SUFFICES ASSUME IInv, [Next]_vars PROVE IInv'
    OBVIOUS
<1>1. now \in Time /\ active \subseteq Store
    BY DEF IInv, TypeOK
<1>2. CASE Admit
    BY <1>2, AdmitInv
<1>3. ASSUME NEW b \in Batch, NEW s \in Store, Begin(b, s)
      PROVE  IInv'
    BY <1>3, BeginInv
<1>4. ASSUME NEW b \in Batch, NEW s \in Store, Settle(b, s)
      PROVE  IInv'
    <2>1. CASE Complete(b, s)
        BY <2>1, CompleteInv
    <2>2. CASE Fail(b, s)
        BY <2>2, FailInv
    <2>3. CASE Requeue(b, s)
        BY <2>3, LeftInv DEF Requeue
    <2>4. CASE Expire(b, s)
        <3>1. AfterExpiry(b, s) \in {"QUEUED", "FAILED"}
            BY DEF AfterExpiry
        <3> QED
            BY <2>4, <3>1, LeftInv DEF Expire
    <2> QED
        BY <1>4, <2>1, <2>2, <2>3, <2>4 DEF Settle
<1>5. ASSUME NEW b \in Batch, Acknowledge(b)
      PROVE  IInv'
    BY <1>5, AcknowledgeInv
<1>6. ASSUME NEW s \in Store, Activate(s) \/ Deactivate(s)
      PROVE  IInv'
    BY <1>1, <1>6, OtherInv DEF Activate, Deactivate, Time
<1>7. CASE Tick
    BY <1>1, <1>7, OtherInv, Constants DEF Tick, Time
<1>8. CASE UNCHANGED vars
    BY <1>1, <1>8, OtherInv DEF vars, Time
<1> QED
    BY <1>2, <1>3, <1>4, <1>5, <1>6, <1>7, <1>8 DEF Next

\* The inductive invariant holds in every reachable state.
LEMMA Invariance == Spec => []IInv
<1>1. Init => IInv
    BY InitInv
<1>2. IInv /\ [Next]_vars => IInv'
    BY NextInv
<1> QED
    BY <1>1, <1>2, PTL DEF Spec

-----------------------------------------------------------------------------
(* The theorems.                                                           *)

\* Type correctness: what enqueue, the commits of runOperation and
\* acknowledgeCoverageGap store always has the shape of its types.
THEOREM TypeCorrect == Spec => []TypeOK
<1>1. IInv => TypeOK
    BY DEF IInv
<1> QED
    BY <1>1, Invariance, PTL

\* enqueue with retryOfBatchId takes only stores that failed for good.
THEOREM RetriesTakeFailures == Spec => []RetryTakesFailedOnly
<1>1. IInv => RetryTakesFailedOnly
    BY DEF IInv
<1> QED
    BY <1>1, Invariance, PTL

\* finishBatchIfTerminal never finishes a batch with an operation in flight.
THEOREM FinishedBatchesAreOver == Spec => []FinishedMeansOver
<1>1. IInv => FinishedMeansOver
    BY DEF IInv
<1> QED
    BY <1>1, Invariance, PTL

\* lastSuccessfulChangedTo is always the cutoff of a CURRENT operation of the
\* store that succeeded.
THEOREM WatermarksAreEarned == Spec => []WatermarkIsEarned
<1>1. IInv => WatermarkIsEarned
    BY DEF IInv
<1> QED
    BY <1>1, Invariance, PTL

\* Between where the reading of a store began and where its next run begins,
\* no change is missed that historicalCoverageGap does not show.
THEOREM GapsAreShown == Spec => []NoSilentGap
<1>1. IInv => NoSilentGap
    BY DEF IInv
<1> QED
    BY <1>1, Invariance, PTL

-----------------------------------------------------------------------------
(* A batch that is shown as over is never written again.                   *)

\* A batch whose key and operations are kept is shown as before.
LEMMA KeptBatch ==
    ASSUME NEW c \in Batch, jobs'[c] = jobs[c], batches'[c].key = batches[c].key
    PROVE  Done(c) => Done(c)' /\ BatchStatus(c)' = BatchStatus(c)
<1>1. BatchInFlight(c)' <=> BatchInFlight(c)
    BY DEF BatchInFlight
<1>2. Done(c)' <=> Done(c)
    BY <1>1 DEF Done
<1>3. \A S : Having(c, S)' <=> Having(c, S)
    BY DEF Having
<1>4. (\E s \in Store : jobs[c][s].attempt > 0)'
        <=> (\E s \in Store : jobs[c][s].attempt > 0)
    OBVIOUS
<1>5. BatchStatus(c)' = BatchStatus(c)
    BY <1>3, <1>4 DEF BatchStatus, Having
<1> QED
    BY <1>2, <1>5

\* A step of an operation in flight keeps the batches that are over.
LEMMA OverKept ==
    ASSUME IInv, NEW c \in Batch, Done(c), NEW b \in Batch, NEW s \in Store,
           NEW j, jobs[b][s].status \in InFlight,
           jobs' = [jobs EXCEPT ![b][s] = j],
           \/ batches' = batches
           \/ batches' = [batches EXCEPT ![b].finished = TRUE]
    PROVE  jobs'[c] = jobs[c] /\ batches'[c].key = batches[c].key
<1>1. b # c
    BY DEF Done, BatchInFlight
<1>2. c \in 0..MaxBatches /\ b \in 0..MaxBatches
    BY Constants
<1>3. jobs'[c] = jobs[c]
    BY <1>1, <1>2 DEF IInv, TypeOK
<1>4. batches'[c] = batches[c]
    BY <1>1, <1>2 DEF IInv, TypeOK
<1> QED
    BY <1>3, <1>4

\* An admitted batch takes a number that was free.
LEMMA OverNotTaken ==
    ASSUME IInv, NEW c \in Batch, Done(c), NEW b \in Batch, NEW key, NEW mode,
           NEW cutoff, NEW source, NEW stores,
           Insert(b, key, mode, cutoff, source, stores)
    PROVE  jobs'[c] = jobs[c] /\ batches'[c].key = batches[c].key
<1>1. batches[b].key = NoKey
    BY DEF Insert, NextBatch, Batch
<1>2. b # c
    BY <1>1 DEF Done
<1>3. c \in 0..MaxBatches /\ b \in 0..MaxBatches
    BY Constants
<1> QED
    BY <1>2, <1>3 DEF Insert, IInv, TypeOK

\* No step changes the operations or the key of a batch that is over.
LEMMA OverStep ==
    ASSUME IInv, [Next]_vars, NEW c \in Batch, Done(c)
    PROVE  jobs'[c] = jobs[c] /\ batches'[c].key = batches[c].key
<1> DEFINE Kept == jobs'[c] = jobs[c] /\ batches'[c].key = batches[c].key
<1>1. CASE Admit
    <2>1. PICK b \in Batch, key \in Key :
            \/ \E mode \in Mode, stores \in Targets : Request(b, key, mode, stores)
            \/ \E source \in Batch, stores \in Targets : Retry(b, key, source, stores)
            \/ \E s \in Store : RetryOld(b, key, s)
        BY <1>1 DEF Admit
    <2> QED
        BY <2>1, OverNotTaken DEF Request, Retry, RetryOld
<1>2. ASSUME NEW b \in Batch, NEW s \in Store, Begin(b, s)
      PROVE  Kept
    <2>1. /\ jobs[b][s].status \in InFlight
          /\ jobs' = [jobs EXCEPT ![b][s] = Begun(b, s)]
          /\ batches' = batches
        BY <1>2 DEF Begin, InFlight
    <2> HIDE DEF Kept
    <2> DEFINE j == Begun(b, s)
    <2>2. jobs' = [jobs EXCEPT ![b][s] = j]
        BY <2>1
    <2> HIDE DEF j
    <2> QED
        BY <2>1, <2>2, OverKept DEF Kept
<1>3. ASSUME NEW b \in Batch, NEW s \in Store, Settle(b, s)
      PROVE  Kept
    <2>1. jobs[b][s].status \in InFlight
        BY <1>3 DEF Settle, Complete, Fail, Requeue, Expire, InFlight
    <2>2. ASSUME NEW status, NEW gap, End(b, s, status, gap)
          PROVE  Kept
        BY <2>1, <2>2, OverKept DEF End
    <2>3. CASE Complete(b, s)
        BY <2>2, <2>3 DEF Complete
    <2>4. CASE Fail(b, s)
        BY <2>2, <2>4 DEF Fail
    <2>5. CASE Requeue(b, s)
        BY <2>1, <2>5, OverKept DEF Requeue
    <2>6. CASE Expire(b, s)
        BY <2>1, <2>6, OverKept DEF Expire
    <2> QED
        BY <1>3, <2>3, <2>4, <2>5, <2>6 DEF Settle
<1>4. ASSUME NEW b \in Batch, Acknowledge(b)
      PROVE  Kept
    BY <1>4 DEF Acknowledge
<1>5. ASSUME NEW s \in Store, Activate(s) \/ Deactivate(s)
      PROVE  Kept
    BY <1>5 DEF Activate, Deactivate
<1>6. CASE Tick
    BY <1>6 DEF Tick
<1>7. CASE UNCHANGED vars
    BY <1>7 DEF vars
<1> QED
    BY <1>1, <1>2, <1>3, <1>4, <1>5, <1>6, <1>7 DEF Next

\* What get() has shown of a batch with a finishedAt, it shows for ever: no
\* admission, run, cleanup or acknowledgement reaches into it.
THEOREM OverIsFinal == Spec => DoneIsFinal
<1>1. IInv /\ [Next]_vars
        => [\A b \in Batch : Done(b) => Done(b)' /\ BatchStatus(b)' = BatchStatus(b)]_vars
    BY OverStep, KeptBatch
<1> QED
    BY <1>1, Invariance, PTL DEF Spec, DoneIsFinal

-----------------------------------------------------------------------------
(* The operations of batches live as the queue lets them.                  *)

\* What a step may do to the operation of a store in a batch.
Lives(b, s) ==
    LET j == jobs[b][s]
        k == jobs'[b][s]
    IN  \/ k.status = j.status /\ k.attempt = j.attempt
        \/ j.status = "NONE" /\ k.status \in {"NONE", "SKIPPED"}
        \/ j.status = "NONE" /\ k.status = "QUEUED" /\ k.attempt = 0
        \/ /\ j.status = "QUEUED"
           /\ k.status = "RUNNING"
           /\ k.attempt = j.attempt + 1
           /\ AttemptLeft(b, s)
           /\ Older(b, s) = {}
           /\ \A c \in Batch : jobs[c][s].status # "RUNNING"
        \/ /\ j.status = "RUNNING"
           /\ k.status \in Terminal \cup {AfterExpiry(b, s)}
           /\ k.attempt = j.attempt

\* A step that writes one operation leaves the others as they are.
LEMMA OneLives ==
    ASSUME IInv, NEW b \in Batch, NEW s \in Store, NEW j,
           jobs' = [jobs EXCEPT ![b][s] = j],
           jobs'[b][s] = j => Lives(b, s)
    PROVE  \A c \in 0..MaxBatches, r \in Store : Lives(c, r)
<1>1. b \in 0..MaxBatches /\ jobs'[b][s] = j
    BY Constants DEF IInv, TypeOK
<1>2. ASSUME NEW c \in 0..MaxBatches, NEW r \in Store, <<c, r>> # <<b, s>>
      PROVE  jobs'[c][r] = jobs[c][r]
    BY <1>1, <1>2 DEF IInv, TypeOK
<1> QED
    BY <1>1, <1>2 DEF Lives

\* An admission writes to a number whose operations are not there yet.
LEMMA InsertLives ==
    ASSUME IInv, NEW b \in Batch, NEW key, NEW mode, NEW cutoff, NEW source,
           NEW stores, Insert(b, key, mode, cutoff, source, stores)
    PROVE  \A c \in 0..MaxBatches, r \in Store : Lives(c, r)
<1>1. b \in 0..MaxBatches
    BY Constants
<1>2. batches[b].key = NoKey
    BY DEF Insert, NextBatch, Batch
<1>3. \A r \in Store : jobs[b][r].status = "NONE"
    BY <1>2 DEF IInv, FreeInv
<1>4. ASSUME NEW c \in 0..MaxBatches, NEW r \in Store
      PROVE  Lives(c, r)
    <2>1. CASE c = b
        <3>1. \E x \in {"NONE", "QUEUED", "SKIPPED"} : jobs'[b][r] = NewJob(x)
            BY <1>1 DEF Insert, IInv, TypeOK
        <3> QED
            BY <2>1, <3>1, <1>3 DEF Lives, NewJob
    <2>2. CASE c # b
        <3>1. jobs'[c] = jobs[c]
            BY <1>1, <2>2 DEF Insert, IInv, TypeOK
        <3> QED
            BY <3>1 DEF Lives
    <2> QED
        BY <2>1, <2>2
<1> QED
    BY <1>4

\* Every step lets every operation live.
LEMMA StepLives ==
    IInv /\ [Next]_vars => \A c \in 0..MaxBatches, r \in Store : Lives(c, r)
<1> SUFFICES ASSUME IInv, [Next]_vars
             PROVE  \A c \in 0..MaxBatches, r \in Store : Lives(c, r)
    OBVIOUS
<1> DEFINE All == \A c \in 0..MaxBatches, r \in Store : Lives(c, r)
<1>1. CASE Admit
    <2>1. PICK b \in Batch, key \in Key :
            \/ \E mode \in Mode, stores \in Targets : Request(b, key, mode, stores)
            \/ \E source \in Batch, stores \in Targets : Retry(b, key, source, stores)
            \/ \E s \in Store : RetryOld(b, key, s)
        BY <1>1 DEF Admit
    <2> QED
        BY <2>1, InsertLives DEF Request, Retry, RetryOld
<1>2. ASSUME NEW b \in Batch, NEW s \in Store, Begin(b, s)
      PROVE  All
    <2> DEFINE j == Begun(b, s)
    <2>1. jobs' = [jobs EXCEPT ![b][s] = j]
        BY <1>2 DEF Begin
    <2>2. jobs'[b][s] = j => Lives(b, s)
        <3>1. jobs[b][s] \in Job
            BY Constants DEF IInv, TypeOK
        <3>2. j.status = "RUNNING" /\ j.attempt = jobs[b][s].attempt + 1
            BY <3>1 DEF Begun, Job
        <3> HIDE DEF j
        <3> QED
            BY <1>2, <3>2 DEF Begin, Lives
    <2> HIDE DEF j, All
    <2> QED
        BY <2>1, <2>2, OneLives DEF All
<1>3. ASSUME NEW b \in Batch, NEW s \in Store, Settle(b, s)
      PROVE  All
    <2>1. jobs[b][s].status = "RUNNING" /\ jobs[b][s] \in Job
        <3>1. jobs[b][s].status = "RUNNING"
            BY <1>3 DEF Settle, Complete, Fail, Requeue, Expire
        <3>2. jobs[b][s] \in Job
            BY Constants DEF IInv, TypeOK
        <3> QED
            BY <3>1, <3>2
    <2>2. ASSUME NEW j, jobs' = [jobs EXCEPT ![b][s] = j],
                 j.status \in Terminal \cup {AfterExpiry(b, s)},
                 j.attempt = jobs[b][s].attempt
          PROVE  All
        <3>1. jobs'[b][s] = j => Lives(b, s)
            BY <2>1, <2>2 DEF Lives
        <3> HIDE DEF All
        <3> QED
            BY <2>2, <3>1, OneLives DEF All
    <2>3. ASSUME NEW status \in Terminal, NEW gap, End(b, s, status, gap)
          PROVE  All
        <3> DEFINE j == Final(b, s, status, gap)
        <3>1. jobs' = [jobs EXCEPT ![b][s] = j]
            BY <2>3 DEF End
        <3>2. j.status = status /\ j.attempt = jobs[b][s].attempt
            BY <2>1 DEF Final, Job
        <3> HIDE DEF j, All
        <3> QED
            BY <3>1, <3>2, <2>2
    <2>4. ASSUME NEW status, status = AfterExpiry(b, s),
                 jobs' = [jobs EXCEPT ![b][s] = Left(b, s, status)]
          PROVE  All
        <3> DEFINE j == Left(b, s, status)
        <3>1. jobs' = [jobs EXCEPT ![b][s] = j]
            BY <2>4
        <3>2. j.status = status /\ j.attempt = jobs[b][s].attempt
            BY <2>1 DEF Left, Job
        <3> HIDE DEF j, All
        <3> QED
            BY <3>1, <3>2, <2>2, <2>4
    <2> HIDE DEF All
    <2>5. CASE Complete(b, s)
        BY <2>3, <2>5 DEF Complete, Terminal
    <2>6. CASE Fail(b, s)
        BY <2>3, <2>6 DEF Fail, Terminal
    <2>7. CASE Requeue(b, s)
        BY <2>4, <2>7 DEF Requeue, AfterExpiry
    <2>8. CASE Expire(b, s)
        BY <2>4, <2>8 DEF Expire
    <2> QED
        BY <1>3, <2>5, <2>6, <2>7, <2>8 DEF Settle
<1>4. ASSUME jobs' = jobs
      PROVE  All
    BY <1>4 DEF Lives
<1>5. ASSUME NEW b \in Batch, Acknowledge(b)
      PROVE  All
    BY <1>4, <1>5 DEF Acknowledge
<1>6. ASSUME NEW s \in Store, Activate(s) \/ Deactivate(s)
      PROVE  All
    BY <1>4, <1>6 DEF Activate, Deactivate
<1>7. CASE Tick
    BY <1>4, <1>7 DEF Tick
<1>8. CASE UNCHANGED vars
    BY <1>4, <1>8 DEF vars
<1> HIDE DEF All
<1>9. All
    BY <1>1, <1>2, <1>3, <1>5, <1>6, <1>7, <1>8 DEF Next, All
<1> QED
    BY <1>9 DEF All

\* An operation that lives takes the steps of its abstract life.
LEMMA LivesAsAsked ==
    ASSUME IInv, NEW b \in 0..MaxBatches, NEW s \in Store, Lives(b, s),
           NEW o, o = <<b, s>>
    PROVE  /\ Life!Admit(o) \/ Life!Start(o) \/ Life!Stop(o) \/ Life!Rest(o)
           /\ LifeAttempt'[o] > LifeAttempt[o] => Older(b, s) = {}
                /\ \A c \in Batch : jobs[c][s].status # "RUNNING"
<1> DEFINE j == jobs[b][s]
           k == jobs'[b][s]
           Op(i) == i.status \notin {"NONE", "SKIPPED"}
<1>1. o \in BatchOp /\ JobOf(o) = j /\ JobOf(o)' = k
    BY DEF BatchOp, JobOf
<1>2. /\ LifeStatus[o] = IF Op(j) THEN j.status ELSE "NONE"
      /\ LifeAttempt[o] = IF Op(j) THEN j.attempt ELSE 0
      /\ LifeStatus'[o] = IF Op(k) THEN k.status ELSE "NONE"
      /\ LifeAttempt'[o] = IF Op(k) THEN k.attempt ELSE 0
    BY <1>1 DEF LifeStatus, LifeAttempt, HasOperation
<1>3. j \in Job /\ j.attempt \in Nat
    BY Constants DEF IInv, TypeOK, Job
<1>4. CASE k.status = j.status /\ k.attempt = j.attempt
    <2>1. Life!Rest(o)
        BY <1>2, <1>4 DEF Life!Rest, Life!To
    <2> QED
        BY <1>2, <1>3, <1>4, <2>1
<1>5. CASE j.status = "NONE" /\ k.status \in {"NONE", "SKIPPED"}
    <2>1. Life!Rest(o)
        BY <1>2, <1>5 DEF Life!Rest, Life!To
    <2> QED
        BY <1>2, <1>5, <2>1
<1>6. CASE j.status = "NONE" /\ k.status = "QUEUED" /\ k.attempt = 0
    <2>1. Life!Admit(o)
        BY <1>2, <1>6 DEF Life!Admit, Life!To
    <2> QED
        BY <1>2, <1>6, <2>1
<1>7. CASE /\ j.status = "QUEUED"
           /\ k.status = "RUNNING"
           /\ k.attempt = j.attempt + 1
           /\ AttemptLeft(b, s)
           /\ Older(b, s) = {}
           /\ \A c \in Batch : jobs[c][s].status # "RUNNING"
    <2>1. Life!Start(o)
        BY <1>2, <1>7 DEF Life!Start, Life!To, AttemptLeft
    <2> QED
        BY <1>7, <2>1
<1>8. CASE /\ j.status = "RUNNING"
           /\ k.status \in Terminal \cup {AfterExpiry(b, s)}
           /\ k.attempt = j.attempt
    <2>1. /\ LifeStatus[o] = "RUNNING"
          /\ LifeStatus'[o] = k.status
          /\ LifeAttempt[o] = j.attempt
          /\ LifeAttempt'[o] = j.attempt
        BY <1>2, <1>8 DEF Terminal, AfterExpiry
    <2>2. AfterExpiry(b, s) = Life!After(LifeAttempt[o])
        BY <2>1 DEF AfterExpiry, AttemptLeft, Life!After
    <2>3. Life!Stop(o)
        BY <1>8, <2>1, <2>2 DEF Life!Stop, Life!To, Life!Terminal, Terminal
    <2> QED
        BY <1>3, <2>1, <2>3
<1> QED
    BY <1>4, <1>5, <1>6, <1>7, <1>8 DEF Lives

\* What is assumed of the operations of batches is the life and the turns
\* that OperationLife states and OperationQueue provides.
THEOREM BatchesUseTheQueue == Spec => OperationsLive
<1>1. Init => Life!Init
    <2> SUFFICES ASSUME Init, NEW o \in BatchOp
                 PROVE  /\ LifeStatus[o] \in {"NONE"} \cup Terminal
                        /\ LifeAttempt[o] = 0
        BY DEF Life!Init, Life!Terminal, Terminal
    <2>1. \E x \in {"NONE", "FAILED"} : JobOf(o) = NewJob(x)
        BY DEF Init, BatchOp, JobOf
    <2> QED
        BY <2>1 DEF LifeStatus, LifeAttempt, HasOperation, NewJob, Terminal
<1>2. IInv /\ [Next]_vars => Life!Step
    <2> SUFFICES ASSUME IInv, [Next]_vars, NEW b \in 0..MaxBatches, NEW s \in Store
                 PROVE  \/ Life!Admit(<<b, s>>) \/ Life!Start(<<b, s>>)
                        \/ Life!Stop(<<b, s>>) \/ Life!Rest(<<b, s>>)
        BY DEF Life!Step, BatchOp
    <2> QED
        BY StepLives, LivesAsAsked
<1>3. IInv /\ [Next]_vars =>
        \A o \in BatchOp : LifeAttempt'[o] > LifeAttempt[o] => Life!Turn(o)
    <2> SUFFICES ASSUME IInv, [Next]_vars, NEW b \in 0..MaxBatches, NEW s \in Store,
                        LifeAttempt'[<<b, s>>] > LifeAttempt[<<b, s>>]
                 PROVE  Life!Turn(<<b, s>>)
        BY DEF BatchOp
    <2>1. /\ Older(b, s) = {}
          /\ \A c \in Batch : jobs[c][s].status # "RUNNING"
        BY StepLives, LivesAsAsked
    <2>2. ASSUME NEW p \in SameStore(<<b, s>>)
          PROVE  /\ p[1] < b => LifeStatus[p] # "QUEUED"
                 /\ LifeStatus[p] # "RUNNING"
        <3>1. p \in BatchOp /\ p[1] \in Batch /\ JobOf(p) = jobs[p[1]][s]
            BY Constants DEF SameStore, BatchOp, JobOf
        <3> QED
            BY <2>1, <3>1 DEF LifeStatus, Older
    <2>3. <<b, s>> \in BatchOp
        BY DEF BatchOp
    <2> QED
        BY <2>2, <2>3 DEF Life!Turn
<1> QED
    BY <1>1, <1>2, <1>3, Invariance, PTL
    DEF Spec, OperationsLive, Life!OrderedSpec, Life!Spec, Life!InTurn
=============================================================================
