------------------------- MODULE OrderStreamProofs -------------------------
(***************************************************************************)
(* Theorems about OrderStream, for any orders, windows, overlaps, delays,  *)
(* pages and numbers of runs: no change is missed but in a gap given up,   *)
(* and a run that reads to the end has saved whatever it owed as it began. *)
(***************************************************************************)
EXTENDS OrderStream, FiniteSetTheorems, TLAPS

\* Versions of some of the orders.
Partial == UNION {[S -> Nat] : S \in SUBSET Order}

\* Pages of numbered lists, or cursors, that a run has seen.
Seen == (SUBSET Order) \cup (Nat \X Nat)

RunRecord ==
    [stage : {"idle", "list", "details"}, kind : {"none", "paid", "known", "changed"},
     current : BOOLEAN, cutoff : Nat, day : Nat, last : Nat, page : Nat, start : Nat,
     cursor : Nat \X Nat, next : Nat \X Nat, more : BOOLEAN,
     seen : SUBSET Seen, got : Partial, missing : SUBSET Order,
     tries : Nat, owed : Partial, from : Nat, gap : Nat, known : SUBSET Order]

\* The shape of the state.
ShapeInv ==
    /\ now \in Nat /\ watermark \in Nat /\ readFrom \in Nat /\ changes \in Nat /\ runs \in Nat
    /\ paidAt \in [Order -> Nat] /\ changedAt \in [Order -> Nat]
    /\ listed \in [Order -> Nat] /\ saved \in [Order -> Nat]
    /\ run \in RunRecord
    /\ gaps \in SUBSET [from : Nat, to : Nat, cutoff : Nat]
    /\ unread \in [from : Nat, to : Nat]

\* An order is paid as it changes first, listed after it changed and saved
\* after it was listed.
OrderInv ==
    \A o \in Order :
        /\ changedAt[o] # 0 => paidAt[o] # 0
        /\ saved[o] # 0 => listed[o] # 0

\* A change that is not listed yet is younger than the overlap and the delay.
LateInv ==
    \A o \in Order : listed[o] < changedAt[o] => now < changedAt[o] + Overlap + Settle

\* Runs read up to a cutoff in the past, and changes only after the delay.
PastInv ==
    /\ watermark # 0 => watermark + Settle <= now
    /\ run.stage = "idle" => run = Idle
    /\ run.stage # "idle" => run.kind # "none" /\ run.cutoff \in 1..now
    /\ run.kind = "changed" => run.cutoff + Settle <= now
    /\ run.stage # "details" => run.got = <<>> /\ run.missing = {}
    /\ run.kind = "paid" => run.seen \subseteq SUBSET Order
    /\ run.kind = "paid" /\ {} \in run.seen => run.stage = "details" /\ ~run.more

\* A change that a run up to a time has to read.
Due(o, time) == changedAt[o] # 0 /\ changedAt[o] + Overlap <= time

\* A change that can be relied on to be listed.
Sure(o) ==
    \/ Due(o, watermark)
    \/ run.kind = "changed" /\ Due(o, run.cutoff)
    \/ \E g \in gaps : Due(o, g.cutoff)

\* A run that has not lost touch reads from the watermark, or it is the first;
\* the gap it has otherwise begins at a watermark.
PlanInv ==
    /\ \A o \in run.known : listed[o] # 0
    /\ run.gap <= watermark
    /\ run.gap # 0 => run.current
    /\ run.current /\ run.gap = 0 => FirstRun \/ run.from <= watermark
    /\ run.kind = "changed" /\ run.gap = 0 /\ FirstRun => run.from <= readFrom + Overlap

\* What was to be read behind a gap is saved, so that the gap can be given up.
GapsInv ==
    /\ gaps # {} => ~FirstRun
    /\ \A g \in gaps :
        /\ g.from <= watermark /\ g.cutoff # 0 /\ g.cutoff + Settle <= now
        /\ \A o \in Order :
            Due(o, g.cutoff) /\ changedAt[o] + Overlap >= g.to => saved[o] = changedAt[o]

\* Details are of listed orders, and not older than they were listed.
GotInv ==
    /\ run.missing \cap DOMAIN run.got = {}
    /\ \A o \in run.missing \cup DOMAIN run.got : listed[o] # 0
    /\ \A o \in DOMAIN run.got :
        /\ run.got[o] <= changedAt[o] /\ run.got[o] # 0
        /\ Sure(o) => run.got[o] = changedAt[o]
        /\ o \in DOMAIN run.owed => run.got[o] >= run.owed[o]

\* Where the list goes on after the page that is read.
Place ==
    IF run.stage = "list" THEN run.cursor
    ELSE IF run.more THEN run.next ELSE <<End(run) + 1, 0>>

\* A change that the run has to read is saved, on the page, or ahead.
AheadInv ==
    run.kind = "changed" =>
        /\ run.cursor[1] >= run.start
        /\ \A o \in Order : Due(o, run.cutoff) /\ changedAt[o] + Overlap >= run.from =>
            \/ saved[o] = changedAt[o]
            \/ o \in run.missing \cup DOMAIN run.got
            \/ ~Before(Key(o), Place)

\* The orders paid on the day that is read.
OfDay == PaidIn(run.day * DayLength, To(run))

\* An order that is still to come in the list of a day: on a later day, on a
\* later page, or on the page whose details are asked for.
ToCome(o) ==
    /\ run.kind = "paid"
    /\ listed[o] # 0 /\ paidAt[o] <= run.cutoff
    /\ Day(paidAt[o]) \in run.day..run.last
    /\ Day(paidAt[o]) = run.day =>
        IF run.stage = "list"
        THEN Rank(o, OfDay) >= (run.page - 1) * PageSize
        ELSE \/ o \in run.missing \cup DOMAIN run.got
             \/ run.more /\ Rank(o, OfDay) >= run.page * PageSize

\* What a run owes is saved, or it is still to come.
OwedInv ==
    \A o \in DOMAIN run.owed :
        /\ listed[o] # 0 /\ run.owed[o] <= listed[o]
        /\ \/ saved[o] >= run.owed[o]
           \/ ToCome(o)
           \/ run.kind = "paid" /\ run.current /\ o \in run.known
           \/ run.kind = "known" /\ run.stage = "details" /\ o \in run.missing \cup DOMAIN run.got

IInv == /\ ShapeInv /\ TypeOK /\ OrderInv /\ LateInv /\ PastInv /\ GotInv /\ AheadInv
        /\ PlanInv /\ GapsInv /\ NothingMissed /\ OwedInv

\* What a run decides when it begins.
SamePlan(r, s) == r.from = s.from /\ r.gap = s.gap /\ r.known = s.known

USE DEF coverage, SamePlan

-----------------------------------------------------------------------------
(* What follows from the assumptions on the constants, and arithmetic.     *)

LEMMA Constants ==
    /\ Order \subseteq Nat /\ 0 \notin Order /\ IsFiniteSet(Order)
    /\ Overlap \in Nat /\ Settle \in Nat /\ Lookback \in Nat /\ Recent \in Nat
    /\ MaxTime \in Nat \ {0} /\ MaxChanges \in Nat /\ MaxRuns \in Nat
    /\ DayLength \in Nat \ {0} /\ Window \in Nat \ {0} /\ PageSize \in Nat \ {0}
    /\ MaxPages \in Nat \ {0}
    /\ Overlap + Settle > 0
BY OrderAssumption, TimeAssumption

LEMMA Quotient ==
    ASSUME NEW n \in Nat, NEW b \in Nat \ {0}
    PROVE  n \div b \in Nat /\ (n \div b) * b <= n /\ n < ((n \div b) + 1) * b
OBVIOUS

LEMMA Multiples ==
    ASSUME NEW j \in Nat, NEW k \in Nat, NEW b \in Nat, j <= k
    PROVE  j * b \in Nat /\ k * b \in Nat /\ j * b <= k * b
OBVIOUS

\* A number lies in one interval of a length only.
LEMMA QuotientOf ==
    ASSUME NEW n \in Nat, NEW k \in Nat, NEW b \in Nat \ {0}, k * b <= n, n < (k + 1) * b
    PROVE  n \div b = k
<1>1. n \div b \in Nat /\ (n \div b) * b <= n /\ n < ((n \div b) + 1) * b
  BY Quotient
<1>2. ~(n \div b < k)
  <2> SUFFICES ASSUME n \div b < k PROVE FALSE
    OBVIOUS
  <2>1. ((n \div b) + 1) * b <= k * b /\ ((n \div b) + 1) * b \in Nat /\ k * b \in Nat
    BY <1>1, Multiples
  <2> QED
    BY <1>1, <2>1
<1>3. ~(n \div b > k)
  <2> SUFFICES ASSUME n \div b > k PROVE FALSE
    OBVIOUS
  <2>1. (k + 1) * b <= (n \div b) * b /\ (k + 1) * b \in Nat /\ (n \div b) * b \in Nat
    BY <1>1, Multiples
  <2> QED
    BY <1>1, <2>1
<1> QED
  BY <1>1, <1>2, <1>3

-----------------------------------------------------------------------------
(* What each step makes of the run.                                        *)

LEMMA IdleRun ==
    /\ Idle \in RunRecord
    /\ Idle.stage = "idle" /\ Idle.kind = "none" /\ Idle.page = 1 /\ Idle.missing = {}
    /\ Idle.tries = 0 /\ Idle.got = <<>> /\ Idle.owed = <<>> /\ DOMAIN Idle.got = {}
    /\ DOMAIN Idle.owed = {}
    /\ Idle.from = 0 /\ Idle.gap = 0 /\ Idle.known = {} /\ ~Idle.current
<1>1. <<>> \in Partial /\ DOMAIN <<>> = {}
  <2>1. <<>> \in [{} -> Nat]
    OBVIOUS
  <2> QED
    BY <2>1 DEF Partial
<1>2. <<0, 0>> \in Nat \X Nat /\ {} \subseteq Seen
  OBVIOUS
<1>3. FALSE \in BOOLEAN
  OBVIOUS
<1> QED
  BY <1>1, <1>2, <1>3 DEF Idle, RunRecord

\* The details of a page are asked for, and nothing else changes.
LEMMA Asking ==
    ASSUME run \in RunRecord, NEW ids \in SUBSET Order
    PROVE  /\ Ask(ids) \in RunRecord
           /\ Ask(ids).stage = "details" /\ Ask(ids).missing = ids /\ Ask(ids).got = <<>>
           /\ Ask(ids).tries = 0
           /\ Ask(ids).kind = run.kind /\ Ask(ids).current = run.current
           /\ Ask(ids).cutoff = run.cutoff /\ Ask(ids).day = run.day /\ Ask(ids).last = run.last
           /\ Ask(ids).page = run.page /\ Ask(ids).start = run.start
           /\ Ask(ids).cursor = run.cursor /\ Ask(ids).next = run.next
           /\ Ask(ids).more = run.more /\ Ask(ids).seen = run.seen /\ Ask(ids).owed = run.owed
           /\ SamePlan(Ask(ids), run)
<1>1. <<>> \in Partial
  BY IdleRun DEF RunRecord
<1> QED
  BY <1>1 DEF Ask, RunRecord

\* A run begins with the days it is about and all it owes.
LEMMA Begun ==
    ASSUME ShapeInv, NEW cutoff \in Nat, NEW from \in Nat, NEW last \in Nat, NEW current \in BOOLEAN,
           Begin(cutoff, from, last, current)
    PROVE  /\ run' \in RunRecord
           /\ run'.stage = "list" /\ run'.kind = "paid" /\ run'.current = current
           /\ run'.cutoff = cutoff /\ run'.day = from /\ run'.last = last
           /\ run'.page = 1 /\ run'.seen = {} /\ run'.missing = {} /\ run'.tries = 0
           /\ run'.got = <<>> /\ DOMAIN run'.got = {}
           /\ run'.from = (IF current THEN ChangedFrom(cutoff) ELSE 0)
           /\ run'.gap = (IF current /\ LostTouch(cutoff) THEN watermark ELSE 0)
           /\ run'.known = (IF current THEN Existing(cutoff) ELSE {})
           /\ run'.owed = Owed(from..last, cutoff, run'.known)
<1> DEFINE known == IF current THEN Existing(cutoff) ELSE {}
           changed == IF current THEN ChangedFrom(cutoff) ELSE 0
           gap == IF current /\ LostTouch(cutoff) THEN watermark ELSE 0
           owed == Owed(from..last, cutoff, known)
<1>1. known \in SUBSET Order /\ changed \in Nat /\ gap \in Nat
  <2>1. Existing(cutoff) \in SUBSET Order
    BY DEF Existing
  <2>2. ChangedFrom(cutoff) \in Nat
    BY Constants DEF ChangedFrom, Minus, ShapeInv
  <2> QED
    BY <2>1, <2>2 DEF ShapeInv
<1>2. owed \in Partial
  <2> HIDE DEF known
  <2> DEFINE paid == {o \in Order : listed[o] # 0 /\ paidAt[o] # 0 /\ Day(paidAt[o]) \in from..last
                                    /\ paidAt[o] <= cutoff}
  <2>1. paid \cup known \in SUBSET Order
    BY <1>1
  <2>2. owed = [o \in paid \cup known |-> listed[o]]
    BY DEF Owed
  <2> HIDE DEF paid, owed
  <2>3. [o \in paid \cup known |-> listed[o]] \in [paid \cup known -> Nat]
    BY <2>1 DEF ShapeInv
  <2> QED
    BY <2>1, <2>2, <2>3 DEF Partial
<1>3. run' = [Idle EXCEPT !.stage = "list", !.kind = "paid", !.current = current,
                          !.cutoff = cutoff, !.day = from, !.last = last,
                          !.from = changed, !.gap = gap, !.known = known, !.owed = owed]
  BY DEF Begin
<1> HIDE DEF known, changed, gap, owed
<1>4. /\ run' \in RunRecord
      /\ run'.stage = "list" /\ run'.kind = "paid" /\ run'.current = current
      /\ run'.cutoff = cutoff /\ run'.day = from /\ run'.last = last
      /\ run'.page = Idle.page /\ run'.seen = Idle.seen /\ run'.missing = Idle.missing
      /\ run'.tries = Idle.tries /\ run'.got = Idle.got
      /\ run'.from = changed /\ run'.gap = gap /\ run'.known = known /\ run'.owed = owed
  <2>1. Idle \in RunRecord
    BY IdleRun
  <2> QED
    BY <1>1, <1>2, <1>3, <2>1 DEF RunRecord
<1>5. Idle.seen = {}
  BY DEF Idle
<1> QED
  BY <1>4, <1>5, IdleRun DEF known, changed, gap, owed

\* A page of payments is the one that was asked for.
LEMMA ListedPaid ==
    ASSUME IInv, ListPaid
    PROVE  /\ UNCHANGED <<now, api, saved, coverage, runs>>
           /\ \/ run' = Idle
              \/ /\ run' \in RunRecord
                 /\ run'.stage = "details" /\ run'.missing = PaidPage(OfDay, run.page)
                 /\ run'.got = <<>> /\ run'.tries = 0
                 /\ run'.more = HasNext(OfDay, run.page)
                 /\ run'.seen = run.seen \cup {PaidPage(OfDay, run.page)}
                 /\ run'.missing = {} => ~run'.more
                 /\ run'.kind = "paid" /\ run'.current = run.current /\ run'.cutoff = run.cutoff
                 /\ run'.day = run.day /\ run'.last = run.last /\ run'.page = run.page
                 /\ run'.owed = run.owed /\ SamePlan(run', run)
<1>1. /\ run.stage = "list" /\ run.kind = "paid" /\ run \in RunRecord
      /\ OfDay = PaidIn(run.day * DayLength, To(run))
      /\ PaidPage(OfDay, run.page) \in SUBSET Order
      /\ run.seen \subseteq SUBSET Order /\ {} \notin run.seen
  BY DEF ListPaid, IInv, ShapeInv, PastInv, OfDay, PaidPage, PaidIn
<1>2. UNCHANGED <<now, api, saved, coverage, runs>>
  BY DEF ListPaid, Fail
<1>3. PICK ids \in {PaidPage(OfDay, run.page)} \cup run.seen :
        IF IF ids = {} THEN HasNext(OfDay, run.page) ELSE ids \in run.seen
        THEN Fail
        ELSE /\ run' = [Ask(ids) EXCEPT !.seen = @ \cup {ids},
                                        !.more = HasNext(OfDay, run.page)]
             /\ UNCHANGED <<saved, watermark>>
  BY <1>1 DEF ListPaid
<1>4. CASE IF ids = {} THEN HasNext(OfDay, run.page) ELSE ids \in run.seen
  BY <1>2, <1>3, <1>4 DEF Fail
<1>5. CASE ~(IF ids = {} THEN HasNext(OfDay, run.page) ELSE ids \in run.seen)
  <2>1. ids = PaidPage(OfDay, run.page) /\ ids \in SUBSET Order
    BY <1>1, <1>3, <1>5
  <2>2. run' = [Ask(ids) EXCEPT !.seen = Ask(ids).seen \cup {ids}, !.more = HasNext(OfDay, run.page)]
    BY <1>3, <1>5
  <2>4. HasNext(OfDay, run.page) \in BOOLEAN
    BY DEF HasNext
  <2>5. Ask(ids) \in RunRecord /\ Ask(ids).seen \cup {ids} \in SUBSET Seen
    BY <1>1, <2>1, Asking DEF RunRecord, Seen
  <2>6. /\ run' \in RunRecord
        /\ run'.seen = Ask(ids).seen \cup {ids} /\ run'.more = HasNext(OfDay, run.page)
        /\ run'.stage = Ask(ids).stage /\ run'.missing = Ask(ids).missing /\ run'.got = Ask(ids).got
        /\ run'.tries = Ask(ids).tries /\ run'.kind = Ask(ids).kind
        /\ run'.current = Ask(ids).current /\ run'.cutoff = Ask(ids).cutoff
        /\ run'.day = Ask(ids).day /\ run'.last = Ask(ids).last /\ run'.page = Ask(ids).page
        /\ run'.owed = Ask(ids).owed /\ SamePlan(run', Ask(ids))
    <3> DEFINE r == Ask(ids)
               t == Ask(ids).seen \cup {ids}
               m == HasNext(OfDay, run.page)
    <3>1. r \in RunRecord /\ m \in BOOLEAN /\ t \in SUBSET Seen
      BY <2>4, <2>5
    <3>2. run' = [r EXCEPT !.seen = t, !.more = m]
      BY <2>2
    <3> HIDE DEF r, t, m
    <3>3. /\ run' \in RunRecord
          /\ run'.seen = t /\ run'.more = m
          /\ run'.stage = r.stage /\ run'.missing = r.missing /\ run'.got = r.got
          /\ run'.tries = r.tries /\ run'.kind = r.kind /\ run'.current = r.current
          /\ run'.cutoff = r.cutoff /\ run'.day = r.day /\ run'.last = r.last
          /\ run'.page = r.page /\ run'.owed = r.owed /\ SamePlan(run', r)
      BY <3>1, <3>2 DEF RunRecord
    <3> QED
      BY <3>3 DEF r, t, m
  <2>7. ids = {} => ~HasNext(OfDay, run.page)
    BY <1>5
  <2> QED
    BY <1>1, <1>2, <2>1, <2>6, <2>7, Asking
<1> QED
  BY <1>4, <1>5

\* The orders that are known are asked for when the days are over.
LEMMA ListedKnown ==
    ASSUME IInv, ListKnown
    PROVE  /\ UNCHANGED <<now, api, saved, coverage, runs>>
           /\ run' \in RunRecord
           /\ run'.stage = "details" /\ run'.kind = "known"
           /\ run'.missing = run.known
           /\ run'.got = <<>> /\ run'.tries = 0 /\ ~run'.more /\ run'.seen = {}
           /\ run'.cutoff = run.cutoff /\ run'.page = run.page /\ run'.owed = run.owed
           /\ run'.current = run.current /\ SamePlan(run', run)
<1> DEFINE ids == run.known
<1>1. run \in RunRecord /\ ids \in SUBSET Order
  BY DEF IInv, ShapeInv, RunRecord
<1>2. run' = [Ask(ids) EXCEPT !.kind = "known", !.seen = {}, !.more = FALSE]
  BY DEF ListKnown
<1>3. \A r \in RunRecord :
        LET s == [r EXCEPT !.kind = "known", !.seen = {}, !.more = FALSE]
        IN  /\ s \in RunRecord
            /\ s.kind = "known" /\ s.seen = {} /\ ~s.more
            /\ s.stage = r.stage /\ s.missing = r.missing /\ s.got = r.got
            /\ s.tries = r.tries /\ s.cutoff = r.cutoff /\ s.page = r.page /\ s.owed = r.owed
            /\ s.current = r.current /\ SamePlan(s, r)
  BY ZenonT(30) DEF RunRecord
<1>4. Ask(ids) \in RunRecord
  BY <1>1, Asking
<1>5. /\ run' \in RunRecord /\ run'.kind = "known" /\ run'.seen = {} /\ ~run'.more
      /\ run'.stage = Ask(ids).stage /\ run'.missing = Ask(ids).missing /\ run'.got = Ask(ids).got
      /\ run'.tries = Ask(ids).tries /\ run'.cutoff = Ask(ids).cutoff
      /\ run'.page = Ask(ids).page /\ run'.owed = Ask(ids).owed /\ SamePlan(run', Ask(ids))
      /\ run'.current = Ask(ids).current
  BY <1>2, <1>3, <1>4
<1> HIDE DEF ids
<1>6. UNCHANGED <<now, api, saved, coverage, runs>>
  BY DEF ListKnown
<1>7. /\ Ask(ids).stage = "details" /\ Ask(ids).missing = ids /\ Ask(ids).got = <<>>
      /\ Ask(ids).tries = 0 /\ Ask(ids).cutoff = run.cutoff /\ Ask(ids).page = run.page
      /\ Ask(ids).owed = run.owed /\ SamePlan(Ask(ids), run) /\ Ask(ids).current = run.current
  BY <1>1, Asking
<1> QED
  BY <1>5, <1>6, <1>7 DEF ids

\* The changes are read from where it was planned, and before that the overlap.
LEMMA BegunChanges ==
    ASSUME IInv, BeginChanges
    PROVE  /\ UNCHANGED <<now, api, saved, watermark, gaps, unread, runs>>
           /\ run.kind = "known" /\ run.stage = "list" /\ Settled(run.cutoff)
           /\ run.from \in Nat /\ WithOverlap(run.from) \in Nat /\ WithOverlap(run.from) <= run.from
           /\ \/ run' = Idle /\ UNCHANGED readFrom
              \/ /\ run.from <= run.cutoff
                 /\ readFrom' = IF FirstRun THEN WithOverlap(run.from) ELSE readFrom
                 /\ run' \in RunRecord
                 /\ run'.stage = "list" /\ run'.kind = "changed"
                 /\ run'.start = WithOverlap(run.from) /\ run'.cursor = <<WithOverlap(run.from), 0>>
                 /\ run'.page = 1 /\ run'.seen = {}
                 /\ run'.cutoff = run.cutoff /\ run'.owed = run.owed /\ SamePlan(run', run)
                 /\ run'.current = run.current
                 /\ run'.missing = run.missing /\ run'.got = run.got /\ run'.tries = run.tries
<1>1. run \in RunRecord /\ run.cutoff \in Nat /\ run.from \in Nat
  BY DEF IInv, ShapeInv, RunRecord
<1>2. run.from \in Nat /\ WithOverlap(run.from) \in Nat /\ WithOverlap(run.from) <= run.from
  BY <1>1, Constants DEF Minus, WithOverlap
<1>3. UNCHANGED <<now, api, saved, watermark, gaps, unread, runs>>
  BY DEF BeginChanges, Fail
<1>4. IF run.from > run.cutoff
      THEN Fail /\ UNCHANGED readFrom
      ELSE /\ readFrom' = IF FirstRun THEN WithOverlap(run.from) ELSE readFrom
           /\ run' = [run EXCEPT !.kind = "changed", !.start = WithOverlap(run.from),
                                 !.cursor = <<WithOverlap(run.from), 0>>, !.page = 1, !.seen = {}]
           /\ UNCHANGED <<saved, watermark>>
  BY DEF BeginChanges
<1>5. CASE run.from > run.cutoff
  BY <1>2, <1>3, <1>4, <1>5 DEF Fail, BeginChanges
<1>6. CASE ~(run.from > run.cutoff)
  <2> DEFINE w == WithOverlap(run.from)
             c == <<WithOverlap(run.from), 0>>
  <2>1. w \in Nat /\ c \in Nat \X Nat
    BY <1>2
  <2>2. run' = [run EXCEPT !.kind = "changed", !.start = w, !.cursor = c, !.page = 1, !.seen = {}]
    BY <1>4, <1>6
  <2> HIDE DEF w, c
  <2>3. /\ run' \in RunRecord
        /\ run'.stage = run.stage /\ run'.kind = "changed" /\ run'.start = w /\ run'.cursor = c
        /\ run'.page = 1 /\ run'.seen = {}
        /\ run'.cutoff = run.cutoff /\ run'.owed = run.owed /\ SamePlan(run', run)
        /\ run'.current = run.current
        /\ run'.missing = run.missing /\ run'.got = run.got /\ run'.tries = run.tries
    BY <1>1, <2>1, <2>2 DEF RunRecord
  <2>4. run.stage = "list" /\ run.kind = "known" /\ Settled(run.cutoff)
    BY DEF BeginChanges
  <2>5. readFrom' = IF FirstRun THEN WithOverlap(run.from) ELSE readFrom
    BY <1>4, <1>6
  <2> QED
    BY <1>1, <1>2, <1>3, <1>6, <2>3, <2>4, <2>5 DEF w, c
<1> QED
  BY <1>5, <1>6

\* What is still to be listed in the window.
Rest == Ahead(run.cursor, End(run))

\* The keys ahead are those of the orders listed there.
LEMMA Keys ==
    ASSUME NEW cursor, NEW end
    PROVE  /\ \A k \in Ahead(cursor, end) :
                /\ k[2] \in Order /\ k[1] = listed[k[2]] /\ k = Key(k[2])
                /\ listed[k[2]] # 0 /\ listed[k[2]] <= end /\ ~Before(k, cursor)
           /\ \A o \in Order : listed[o] # 0 /\ listed[o] <= end /\ ~Before(Key(o), cursor)
                                => Key(o) \in Ahead(cursor, end)
<1>1. ASSUME NEW k \in Ahead(cursor, end)
      PROVE  /\ k[2] \in Order /\ k[1] = listed[k[2]] /\ k = Key(k[2])
             /\ listed[k[2]] # 0 /\ listed[k[2]] <= end /\ ~Before(k, cursor)
  <2>1. PICK o \in Order : /\ k = Key(o) /\ listed[o] # 0 /\ listed[o] <= end
                          /\ ~Before(Key(o), cursor)
    BY DEF Ahead
  <2>2. k[2] = o /\ k[1] = listed[o]
    BY <2>1 DEF Key
  <2> QED
    BY <2>1, <2>2
<1>2. ASSUME NEW o \in Order, listed[o] # 0, listed[o] <= end, ~Before(Key(o), cursor)
      PROVE  Key(o) \in Ahead(cursor, end)
  BY <1>2 DEF Ahead
<1> QED
  BY <1>1, <1>2

\* A page of changes is read, with the place of the next.
LEMMA ListedChanged ==
    ASSUME IInv, ListChanged
    PROVE  /\ UNCHANGED <<now, api, saved, coverage, runs>>
           /\ run.stage = "list" /\ run.kind = "changed" /\ run.start <= run.cutoff
           /\ run' \in RunRecord
           /\ run'.stage = "details" /\ run'.missing = {k[2] : k \in PageOf(Rest)}
           /\ run'.got = <<>> /\ run'.tries = 0
           /\ run'.kind = run.kind /\ run'.current = run.current /\ run'.cutoff = run.cutoff
           /\ run'.start = run.start /\ run'.cursor = run.cursor /\ run'.page = run.page
           /\ run'.owed = run.owed /\ SamePlan(run', run)
           /\ \/ PageOf(Rest) = Rest /\ ~run'.more
              \/ run'.more /\ run'.next \in Cursors(Rest)
<1>1. /\ run \in RunRecord /\ run.stage = "list" /\ run.kind = "changed" /\ run.start <= run.cutoff
      /\ UNCHANGED <<now, api, saved, coverage, runs>>
  BY DEF IInv, ShapeInv, ListChanged
<1> DEFINE ids == {k[2] : k \in PageOf(Rest)}
<1>2. ids \in SUBSET Order
  <2>1. \A k \in Rest : k[2] \in Order
    BY Keys DEF Rest
  <2>2. PageOf(Rest) \subseteq Rest
    BY DEF PageOf
  <2> QED
    BY <2>1, <2>2
<1>3. IF PageOf(Rest) = Rest
      THEN run' = [Ask(ids) EXCEPT !.more = FALSE]
      ELSE \E c \in Cursors(Rest) : run' = [Ask(ids) EXCEPT !.more = TRUE, !.next = c]
  BY DEF ListChanged, Rest
<1> HIDE DEF ids
<1> DEFINE r == Ask(ids)
<1>4. /\ r \in RunRecord
      /\ r.stage = "details" /\ r.missing = ids /\ r.got = <<>> /\ r.tries = 0
      /\ r.kind = run.kind /\ r.current = run.current /\ r.cutoff = run.cutoff
      /\ r.start = run.start /\ r.cursor = run.cursor /\ r.page = run.page /\ r.owed = run.owed
      /\ SamePlan(r, run)
  BY <1>1, <1>2, Asking
<1>5. CASE PageOf(Rest) = Rest
  <2>1. run' = [r EXCEPT !.more = FALSE]
    BY <1>3, <1>5
  <2> HIDE DEF r
  <2>2. /\ run' \in RunRecord /\ run'.more = FALSE
        /\ run'.stage = r.stage /\ run'.missing = r.missing /\ run'.got = r.got
        /\ run'.tries = r.tries /\ run'.kind = r.kind /\ run'.current = r.current
        /\ run'.cutoff = r.cutoff /\ run'.start = r.start /\ run'.cursor = r.cursor
        /\ run'.page = r.page /\ run'.owed = r.owed /\ SamePlan(run', r)
    BY <1>4, <2>1 DEF RunRecord
  <2> QED
    BY <1>1, <1>4, <1>5, <2>2 DEF ids
<1>6. CASE PageOf(Rest) # Rest
  <2>1. PICK c \in Cursors(Rest) : run' = [r EXCEPT !.more = TRUE, !.next = c]
    BY <1>3, <1>6
  <2>2. c \in Nat \X Nat
    <3>1. c \in Time \X Order
      BY DEF Cursors
    <3>2. Time \subseteq Nat /\ Order \subseteq Nat
      BY Constants DEF Time
    <3> QED
      BY <3>1, <3>2
  <2> HIDE DEF r
  <2>3. /\ run' \in RunRecord /\ run'.more = TRUE /\ run'.next = c
        /\ run'.stage = r.stage /\ run'.missing = r.missing /\ run'.got = r.got
        /\ run'.tries = r.tries /\ run'.kind = r.kind /\ run'.current = r.current
        /\ run'.cutoff = r.cutoff /\ run'.start = r.start /\ run'.cursor = r.cursor
        /\ run'.page = r.page /\ run'.owed = r.owed /\ SamePlan(run', r)
    BY <1>4, <2>1, <2>2 DEF RunRecord
  <2>4. run'.more /\ run'.next \in Cursors(Rest)
    BY <2>3
  <2> QED
    BY <1>1, <1>4, <2>3, <2>4 DEF ids
<1> QED
  BY <1>5, <1>6

\* Some of the details of a page arrive, or the run fails.
LEMMA Fetched ==
    ASSUME IInv, FetchDetails
    PROVE  /\ UNCHANGED <<now, api, saved, coverage, runs>>
           /\ run.stage = "details"
           /\ \/ run' = Idle
              \/ \E found \in SUBSET run.missing :
                    /\ run' \in RunRecord
                    /\ run'.stage = "details" /\ run'.missing = run.missing \ found
                    /\ run'.tries = run.tries + 1 /\ run.tries < DetailAttempts
                    /\ DOMAIN run'.got = found \cup DOMAIN run.got
                    /\ \A o \in found : run'.got[o] \in Versions(o)
                    /\ \A o \in DOMAIN run.got \ found : run'.got[o] = run.got[o]
                    /\ run'.kind = run.kind /\ run'.current = run.current
                    /\ run'.cutoff = run.cutoff /\ run'.day = run.day /\ run'.last = run.last
                    /\ run'.start = run.start /\ run'.cursor = run.cursor /\ run'.next = run.next
                    /\ run'.page = run.page /\ run'.owed = run.owed /\ run'.more = run.more
                    /\ SamePlan(run', run)
                    /\ run'.seen = run.seen
<1>1. /\ run \in RunRecord /\ run.stage = "details" /\ run.tries < DetailAttempts
      /\ run.missing \in SUBSET Order /\ run.got \in Partial /\ run.tries \in Nat
  BY DEF IInv, ShapeInv, FetchDetails, RunRecord
<1>2. UNCHANGED <<now, api, saved, coverage, runs>>
  BY DEF FetchDetails, Fail
<1>3. PICK found \in SUBSET run.missing :
        \E got \in [found -> Time] :
            /\ \A o \in found : got[o] \in Versions(o)
            /\ IF GivenUp(run.missing \ found)
               THEN Fail
               ELSE /\ run' = [run EXCEPT
                        !.missing = run.missing \ found,
                        !.tries = run.tries + 1,
                        !.got = [o \in found \cup DOMAIN run.got |->
                                    IF o \in found THEN got[o] ELSE run.got[o]]]
                    /\ UNCHANGED <<saved, watermark>>
  BY DEF FetchDetails
<1>4. PICK got \in [found -> Time] :
            /\ \A o \in found : got[o] \in Versions(o)
            /\ IF GivenUp(run.missing \ found)
               THEN Fail
               ELSE /\ run' = [run EXCEPT
                        !.missing = run.missing \ found,
                        !.tries = run.tries + 1,
                        !.got = [o \in found \cup DOMAIN run.got |->
                                    IF o \in found THEN got[o] ELSE run.got[o]]]
                    /\ UNCHANGED <<saved, watermark>>
  BY <1>3
<1>5. CASE GivenUp(run.missing \ found)
  BY <1>1, <1>2, <1>4, <1>5 DEF Fail
<1>6. CASE ~GivenUp(run.missing \ found)
  <2> DEFINE g == [o \in found \cup DOMAIN run.got |-> IF o \in found THEN got[o] ELSE run.got[o]]
             m == run.missing \ found
             t == run.tries + 1
  <2>1. run' = [run EXCEPT !.missing = m, !.tries = t, !.got = g]
    BY <1>4, <1>6
  <2>2. g \in Partial
    <3>1. PICK S \in SUBSET Order : run.got \in [S -> Nat]
      BY <1>1 DEF Partial
    <3>2. DOMAIN run.got = S
      BY <3>1
    <3>3. \A o \in found : got[o] \in Nat
      BY Constants DEF Time
    <3>4. found \cup S \in SUBSET Order
      BY <1>1
    <3>5. g \in [found \cup S -> Nat]
      BY <3>1, <3>2, <3>3
    <3> QED
      BY <3>4, <3>5 DEF Partial
  <2>3. /\ DOMAIN g = found \cup DOMAIN run.got
        /\ \A o \in found : g[o] \in Versions(o)
        /\ \A o \in DOMAIN run.got \ found : g[o] = run.got[o]
    BY <1>4
  <2>4. m \in SUBSET Order /\ t \in Nat
    BY <1>1
  <2> HIDE DEF g, m, t
  <2>5. /\ run' \in RunRecord
        /\ run'.missing = m /\ run'.tries = t /\ run'.got = g
        /\ run'.stage = run.stage /\ run'.kind = run.kind /\ run'.current = run.current
        /\ run'.cutoff = run.cutoff /\ run'.day = run.day /\ run'.last = run.last
        /\ run'.start = run.start /\ run'.cursor = run.cursor /\ run'.next = run.next
        /\ run'.page = run.page /\ run'.owed = run.owed /\ run'.more = run.more
        /\ SamePlan(run', run)
        /\ run'.seen = run.seen
    BY <1>1, <2>1, <2>2, <2>4 DEF RunRecord
  <2> QED
    BY <1>1, <1>2, <2>3, <2>5 DEF m, t
<1> QED
  BY <1>5, <1>6

\* A chunk is saved, and the run goes on behind it or is lost.
LEMMA Delivered ==
    ASSUME IInv, Deliver
    PROVE  /\ UNCHANGED <<now, api, coverage, runs>>
           /\ run.stage = "details" /\ run.missing = {}
           /\ saved' = [o \in Order |-> IF o \in DOMAIN run.got THEN run.got[o] ELSE saved[o]]
           /\ \/ run' = Idle
              \/ /\ run' \in RunRecord
                 /\ run'.stage = "list" /\ run'.got = <<>> /\ run'.missing = {} /\ run'.tries = 0
                 /\ run'.kind = run.kind /\ run'.current = run.current
                 /\ run'.cutoff = run.cutoff /\ run'.last = run.last /\ run'.owed = run.owed
                 /\ SamePlan(run', run)
                 /\ \/ /\ run.kind = "paid" /\ run.more
                       /\ run'.day = run.day /\ run'.page = run.page + 1 /\ run'.page <= MaxPages
                       /\ run'.seen = run.seen
                    \/ /\ run.kind = "paid" /\ ~run.more
                       /\ run'.day = run.day + 1 /\ run'.page = 1 /\ run'.seen = {}
                    \/ /\ run.kind = "known" /\ run'.page = run.page
                    \/ /\ run.kind = "changed" /\ run.more
                       /\ run'.start = run.start /\ run'.cursor = run.next
                       /\ run'.page = run.page + 1 /\ Follows(run.next)
                    \/ /\ run.kind = "changed" /\ ~run.more
                       /\ run'.start = End(run) + 1 /\ run'.cursor = <<End(run) + 1, 0>>
                       /\ run'.page = 1
<1> DEFINE next == CASE run.kind = "paid" -> AfterPaid
                     [] run.kind = "known" -> run
                     [] OTHER -> AfterChanged
           lost == CASE run.kind = "paid" -> run.more /\ run.page = MaxPages
                     [] run.kind = "known" -> FALSE
                     [] OTHER -> run.more /\ ~Follows(run.next)
           after(r) == [r EXCEPT !.stage = "list", !.got = <<>>, !.missing = {}, !.tries = 0,
                                 !.more = FALSE, !.next = <<0, 0>>]
<1>1. /\ run \in RunRecord /\ run.stage = "details" /\ run.missing = {}
      /\ run.kind \in {"paid", "known", "changed"}
      /\ run.day \in Nat /\ run.page \in 1..MaxPages /\ run.cutoff \in Nat /\ run.start \in Nat
      /\ run.more \in BOOLEAN /\ run.next \in Nat \X Nat
      /\ run.seen \in SUBSET Seen
  BY DEF IInv, ShapeInv, PastInv, TypeOK, Deliver, RunRecord
<1>2. UNCHANGED <<now, api, coverage, runs>>
  BY DEF Deliver
<1>3. saved' = [o \in Order |-> IF o \in DOMAIN run.got THEN run.got[o] ELSE saved[o]]
  BY DEF Deliver
<1>4. run' = IF lost THEN Idle ELSE after(next)
  BY DEF Deliver
<1>5. ASSUME NEW r \in RunRecord
      PROVE  /\ after(r) \in RunRecord
             /\ after(r).stage = "list" /\ after(r).got = <<>> /\ after(r).missing = {}
             /\ after(r).tries = 0 /\ after(r).kind = r.kind /\ after(r).current = r.current
             /\ after(r).cutoff = r.cutoff /\ after(r).last = r.last /\ after(r).owed = r.owed
             /\ SamePlan(after(r), r)
             /\ after(r).day = r.day /\ after(r).page = r.page /\ after(r).seen = r.seen
             /\ after(r).start = r.start /\ after(r).cursor = r.cursor
  <2>1. <<>> \in Partial /\ <<0, 0>> \in Nat \X Nat
    BY IdleRun DEF RunRecord
  <2> QED
    BY <2>1 DEF RunRecord
<1>6. End(run) \in Nat
  BY <1>1, Constants DEF End, Smaller
<1>7. CASE lost
  BY <1>1, <1>2, <1>3, <1>4, <1>7
<1>8. CASE ~lost /\ run.kind = "paid"
  <2>1. run' = after(AfterPaid) /\ (run.more => run.page # MaxPages)
    BY <1>4, <1>8
  <2> HIDE DEF next, lost, after
  <2>5. AfterPaid \in RunRecord
    <3>1. run.page + 1 \in Nat /\ run.day + 1 \in Nat /\ {} \in SUBSET Seen
      BY <1>1, Constants
    <3>2. CASE run.more
      BY <1>1, <3>1, <3>2 DEF AfterPaid, RunRecord
    <3>3. CASE ~run.more
      BY <1>1, <3>1, <3>3 DEF AfterPaid, RunRecord
    <3> QED
      BY <3>2, <3>3
  <2>2. /\ AfterPaid.kind = run.kind /\ AfterPaid.current = run.current
        /\ AfterPaid.cutoff = run.cutoff /\ AfterPaid.last = run.last
        /\ AfterPaid.owed = run.owed /\ SamePlan(AfterPaid, run)
    BY <1>1 DEF AfterPaid, RunRecord
  <2>3. IF run.more
        THEN AfterPaid.day = run.day /\ AfterPaid.page = run.page + 1 /\ AfterPaid.seen = run.seen
        ELSE AfterPaid.day = run.day + 1 /\ AfterPaid.page = 1 /\ AfterPaid.seen = {}
    BY <1>1 DEF AfterPaid, RunRecord
  <2>4. run.more => run.page + 1 <= MaxPages
    BY <1>1, <2>1, Constants
  <2> QED
    BY <1>1, <1>2, <1>3, <1>5, <1>8, <2>1, <2>2, <2>3, <2>4, <2>5
<1>9. CASE ~lost /\ run.kind = "known"
  <2>1. run' = after(run)
    BY <1>4, <1>9
  <2> HIDE DEF next, lost, after
  <2> QED
    BY <1>1, <1>2, <1>3, <1>5, <1>9, <2>1
<1>10. CASE ~lost /\ run.kind = "changed"
  <2>1. run' = after(AfterChanged) /\ (run.more => Follows(run.next))
    BY <1>4, <1>10
  <2> HIDE DEF next, lost, after
  <2>2. AfterChanged \in RunRecord
    <3>1. run.seen \cup {run.next} \in SUBSET Seen
      BY <1>1 DEF Seen
    <3>2. End(run) + 1 \in Nat /\ <<End(run) + 1, 0>> \in Nat \X Nat /\ {} \in SUBSET Seen
      BY <1>6
    <3>3. CASE run.more
      <4> DEFINE t == run.seen \cup {run.next}
                 n == run.page + 1
      <4>1. t \in SUBSET Seen /\ n \in Nat
        BY <1>1, <3>1, Constants
      <4>2. AfterChanged = [run EXCEPT !.page = n, !.cursor = run.next, !.seen = t]
        BY <3>3 DEF AfterChanged
      <4> HIDE DEF t, n
      <4> QED
        BY <1>1, <4>1, <4>2 DEF RunRecord
    <3>4. CASE ~run.more
      BY <1>1, <3>2, <3>4 DEF AfterChanged, RunRecord
    <3> QED
      BY <3>3, <3>4
  <2>3. /\ AfterChanged.kind = run.kind /\ AfterChanged.current = run.current
        /\ AfterChanged.cutoff = run.cutoff /\ AfterChanged.last = run.last
        /\ AfterChanged.owed = run.owed /\ SamePlan(AfterChanged, run)
    BY <1>1 DEF AfterChanged, RunRecord
  <2>4. IF run.more
        THEN /\ AfterChanged.start = run.start /\ AfterChanged.cursor = run.next
             /\ AfterChanged.page = run.page + 1
        ELSE /\ AfterChanged.start = End(run) + 1 /\ AfterChanged.cursor = <<End(run) + 1, 0>>
             /\ AfterChanged.page = 1
    BY <1>1 DEF AfterChanged, RunRecord
  <2> QED
    BY <1>1, <1>2, <1>3, <1>5, <1>10, <2>1, <2>2, <2>3, <2>4
<1> QED
  BY <1>1, <1>7, <1>8, <1>9, <1>10

\* A run begins at a cutoff in the past.
LEMMA Beginning ==
    ASSUME IInv, BeginCurrent \/ BeginManual
    PROVE  \E cutoff \in 1..now, from \in Nat, last \in Nat, current \in BOOLEAN :
                Begin(cutoff, from, last, current)
<1>1. now \in Nat /\ now >= 1 /\ DayLength \in Nat \ {0}
  BY Constants DEF IInv, ShapeInv, TypeOK
<1>2. CASE BeginCurrent
  <2>1. PICK cutoff \in {now - 1, now} \ {0} :
            Begin(cutoff, Day(Minus(cutoff, Recent)), Day(cutoff), TRUE)
    BY <1>2 DEF BeginCurrent
  <2>2. cutoff \in 1..now /\ Minus(cutoff, Recent) \in Nat
    BY <1>1, Constants DEF Minus
  <2>3. TRUE \in BOOLEAN /\ Day(cutoff) \in Nat /\ Day(Minus(cutoff, Recent)) \in Nat
    BY <1>1, <2>2, Quotient DEF Day
  <2> QED
    BY <2>1, <2>2, <2>3
<1>3. CASE BeginManual
  <2>1. PICK day \in 0..Day(now) : Begin(now, day, day, FALSE)
    BY <1>3 DEF BeginManual
  <2>2. now \in 1..now /\ day \in Nat
    BY <1>1, Quotient DEF Day
  <2>3. FALSE \in BOOLEAN
    OBVIOUS
  <2> QED
    BY <2>1, <2>2, <2>3
<1> QED
  BY <1>2, <1>3

-----------------------------------------------------------------------------
(* Each part of the invariant is kept by every step.                       *)

LEMMA ShapeStep ==
    ASSUME IInv, [Next]_vars
    PROVE  ShapeInv'
<1> USE DEF IInv
<1>1. ASSUME NEW o \in Order, Change(o)
      PROVE  ShapeInv'
  BY <1>1 DEF ShapeInv, Change
<1>2. ASSUME NEW o \in Order, Publish(o)
      PROVE  ShapeInv'
  BY <1>2 DEF ShapeInv, Publish
<1>3. CASE Tick
  BY <1>3 DEF ShapeInv, Tick, api
<1>4. CASE BeginCurrent \/ BeginManual
  <2>1. PICK cutoff \in 1..now, from \in Nat, last \in Nat, current \in BOOLEAN :
            Begin(cutoff, from, last, current)
    BY <1>4, Beginning
  <2>2. run' \in RunRecord
    <3>1. ShapeInv /\ cutoff \in Nat
      BY DEF ShapeInv
    <3> QED
      BY <2>1, <3>1, Begun
  <2>3. UNCHANGED <<now, api, saved, coverage>> /\ runs' = runs + 1
    BY <2>1 DEF Begin
  <2> QED
    BY <2>2, <2>3 DEF ShapeInv, api
<1>5. CASE ListPaid
  BY <1>5, ListedPaid, IdleRun DEF ShapeInv, api
<1>6. CASE ListKnown
  BY <1>6, ListedKnown DEF ShapeInv, api
<1>7. CASE BeginChanges
  BY <1>7, BegunChanges, IdleRun DEF ShapeInv, api
<1>8. CASE ListChanged
  BY <1>8, ListedChanged DEF ShapeInv, api
<1>9. CASE FetchDetails
  BY <1>9, Fetched, IdleRun DEF ShapeInv, api
<1>10. CASE Deliver
  <2>1. run.got \in Partial /\ saved \in [Order -> Nat]
    BY DEF ShapeInv, RunRecord
  <2>2. \A o \in DOMAIN run.got : run.got[o] \in Nat
    BY <2>1 DEF Partial
  <2>3. saved' = [o \in Order |-> IF o \in DOMAIN run.got THEN run.got[o] ELSE saved[o]]
    BY <1>10, Delivered
  <2>4. saved' \in [Order -> Nat]
    BY <2>1, <2>2, <2>3
  <2>5. UNCHANGED <<now, api, coverage, runs>> /\ run' \in RunRecord
    BY <1>10, Delivered, IdleRun
  <2> QED
    BY <2>4, <2>5 DEF ShapeInv, api
<1>11. CASE Complete
  <2>1. run.cutoff \in Nat /\ run.from \in Nat /\ run.gap \in Nat
    BY DEF ShapeInv, RunRecord
  <2>2. watermark' \in Nat
    BY <1>11, <2>1 DEF ShapeInv, Complete, Larger
  <2>3. gaps' \in SUBSET [from : Nat, to : Nat, cutoff : Nat]
    BY <1>11, <2>1 DEF ShapeInv, Complete
  <2> QED
    BY <1>11, <2>2, <2>3, IdleRun DEF ShapeInv, Complete, api
<1>12. CASE Break
  BY <1>12, IdleRun DEF ShapeInv, Break, Fail, api
<1>13. CASE UNCHANGED vars
  BY <1>13 DEF ShapeInv, vars, api
<1>14. CASE Acknowledge
  <2>1. PICK g \in gaps :
            /\ watermark' = Larger(watermark, g.cutoff) /\ unread' = Widened(g)
            /\ gaps' = gaps \ {g} /\ UNCHANGED <<now, api, saved, readFrom, run, runs>>
    BY <1>14 DEF Acknowledge
  <2>2. g.cutoff \in Nat /\ g.from \in Nat /\ g.to \in Nat
        /\ unread.from \in Nat /\ unread.to \in Nat
    BY DEF ShapeInv
  <2>3. watermark' \in Nat /\ unread' \in [from : Nat, to : Nat]
    BY <2>1, <2>2 DEF ShapeInv, Larger, Smaller, Widened
  <2> QED
    BY <2>1, <2>3 DEF ShapeInv, api
<1> QED
  BY <1>1, <1>2, <1>3, <1>4, <1>5, <1>6, <1>7, <1>8, <1>9, <1>10, <1>11, <1>12, <1>13,
     <1>14 DEF Next

\* The record of a run tells its stage, kind and what is missing.
LEMMA InRecord ==
    ASSUME NEW r \in RunRecord, r.page \in 1..MaxPages, r.tries \in 0..DetailAttempts
    PROVE  /\ r.stage \in {"idle", "list", "details"}
           /\ r.kind \in {"none", "paid", "known", "changed"}
           /\ r.page \in 1..MaxPages /\ r.missing \subseteq Order /\ r.tries \in 0..DetailAttempts
BY DEF RunRecord

LEMMA PageStep ==
    ASSUME IInv, [Next]_vars
    PROVE  run'.page \in 1..MaxPages /\ run'.tries \in 0..DetailAttempts
<1>1. /\ run.page \in 1..MaxPages /\ run.tries \in 0..DetailAttempts
      /\ MaxPages \in Nat \ {0} /\ DetailAttempts = 2
      /\ 1 \in 1..MaxPages /\ 0 \in 0..DetailAttempts
  BY Constants DEF IInv, TypeOK, DetailAttempts
<1>2. CASE UNCHANGED run
  BY <1>1, <1>2
<1>3. CASE run' = Idle
  BY <1>1, <1>3, IdleRun
<1>4. CASE BeginCurrent \/ BeginManual
  <2>1. PICK cutoff \in 1..now, from \in Nat, last \in Nat, current \in BOOLEAN :
            Begin(cutoff, from, last, current)
    BY <1>4, Beginning
  <2>2. run'.page = 1 /\ run'.tries = 0
    BY <2>1, Begun DEF IInv
  <2> QED
    BY <1>1, <2>2
<1>5. CASE ListPaid
  BY <1>1, <1>3, <1>5, ListedPaid
<1>6. CASE ListKnown
  BY <1>1, <1>6, ListedKnown
<1>7. CASE BeginChanges
  BY <1>1, <1>3, <1>7, BegunChanges
<1>8. CASE ListChanged
  BY <1>1, <1>8, ListedChanged
<1>9. CASE FetchDetails
  BY <1>1, <1>3, <1>9, Fetched
<1>10. CASE Deliver
  <2>1. run'.tries = 0 \/ run' = Idle
    BY <1>10, Delivered
  <2>2. run' = Idle \/ run'.page = run.page \/ run'.page = 1 \/ run'.page = run.page + 1
    BY <1>10, Delivered
  <2>3. run'.page = run.page + 1 => run' = Idle \/ run'.page \in 1..MaxPages
    <3> SUFFICES ASSUME run'.page = run.page + 1, run' # Idle
                 PROVE  run'.page <= MaxPages
      BY <1>1
    <3>1. run'.page # run.page /\ run'.page # 1
      BY <1>1
    <3>2. run'.page <= MaxPages \/ Follows(run.next)
      BY <1>10, <3>1, Delivered
    <3> QED
      BY <1>1, <3>2 DEF Follows
  <2> QED
    BY <1>1, <1>3, <2>1, <2>2, <2>3
<1>11. CASE Complete \/ Break
  BY <1>3, <1>11 DEF Complete, Break, Fail
<1>12. (\E o \in Order : Change(o) \/ Publish(o)) \/ Tick \/ Acknowledge \/ UNCHANGED vars
        => UNCHANGED run
  BY DEF Change, Publish, Tick, Acknowledge, vars
<1> QED
  BY <1>2, <1>4, <1>5, <1>6, <1>7, <1>8, <1>9, <1>10, <1>11, <1>12 DEF Next

LEMMA TypeStep ==
    ASSUME IInv, [Next]_vars
    PROVE  TypeOK'
<1> DEFINE Times ==
        /\ now \in 1..MaxTime
        /\ \A o \in Order :
            /\ paidAt[o] <= changedAt[o] /\ changedAt[o] <= now
            /\ listed[o] <= changedAt[o]
            /\ saved[o] <= changedAt[o]
        /\ watermark \in 0..now
        /\ readFrom \in 0..now
        /\ changes \in 0..MaxChanges
        /\ runs \in 0..MaxRuns
<1>1. /\ Times /\ ShapeInv /\ ShapeInv'
  BY ShapeStep DEF IInv, TypeOK
<1>2. Times'
  <2>1. ASSUME NEW o \in Order, Change(o)
        PROVE  Times'
    BY <1>1, <2>1, Constants DEF ShapeInv, Change
  <2>2. ASSUME NEW o \in Order, Publish(o)
        PROVE  Times'
    BY <1>1, <2>2 DEF ShapeInv, Publish
  <2>3. CASE Tick
    BY <1>1, <2>3, Constants DEF ShapeInv, Tick, api
  <2>4. CASE BeginCurrent \/ BeginManual
    <3>1. PICK cutoff \in 1..now, from \in Nat, last \in Nat, current \in BOOLEAN :
            Begin(cutoff, from, last, current)
      BY <2>4, Beginning
    <3> QED
      BY <1>1, <3>1, Constants DEF Begin, api
  <2>5. CASE ListPaid
    BY <1>1, <2>5, ListedPaid DEF api
  <2>6. CASE ListKnown
    BY <1>1, <2>6, ListedKnown DEF api
  <2>7. CASE BeginChanges
    <3>1. run.kind = "known" => run.stage # "idle"
      BY IdleRun DEF IInv, PastInv
    <3>2. run.cutoff \in 1..now
      BY <2>7, <3>1, BegunChanges DEF IInv, PastInv
    <3>3. readFrom' \in 0..now
      BY <1>1, <2>7, <3>2, BegunChanges DEF ShapeInv
    <3>4. UNCHANGED <<now, api, saved, watermark, runs>>
      BY <2>7, BegunChanges
    <3> QED
      BY <1>1, <3>3, <3>4 DEF api
  <2>8. CASE ListChanged
    BY <1>1, <2>8, ListedChanged DEF api
  <2>9. CASE FetchDetails
    BY <1>1, <2>9, Fetched DEF api
  <2>10. CASE Deliver
    <3>1. UNCHANGED <<now, api, coverage, runs>>
          /\ saved' = [o \in Order |-> IF o \in DOMAIN run.got THEN run.got[o] ELSE saved[o]]
      BY <2>10, Delivered
    <3>2. \A o \in Order : saved'[o] <= changedAt[o]
      BY <1>1, <3>1 DEF IInv, GotInv
    <3> QED
      BY <1>1, <3>1, <3>2 DEF api
  <2>11. CASE Complete
    <3>1. run.stage # "idle"
      BY <2>11 DEF Complete
    <3>2. run.cutoff \in 1..now
      BY <3>1 DEF IInv, PastInv
    <3>3. watermark' \in 0..now
      BY <1>1, <2>11, <3>2 DEF ShapeInv, Complete, Larger
    <3> QED
      BY <1>1, <2>11, <3>3 DEF Complete, api
  <2>12. CASE Break
    BY <1>1, <2>12 DEF Break, Fail, api
  <2>13. CASE UNCHANGED vars
    BY <1>1, <2>13 DEF vars, api
  <2>14. CASE Acknowledge
    <3>1. PICK g \in gaps : watermark' = Larger(watermark, g.cutoff)
                             /\ UNCHANGED <<now, api, saved, readFrom, run, runs>>
      BY <2>14 DEF Acknowledge
    <3>2. g.cutoff \in Nat /\ g.cutoff + Settle <= now /\ Settle \in Nat /\ now \in Nat
      BY <1>1, Constants DEF IInv, GapsInv, ShapeInv
    <3>3. watermark' \in 0..now
      BY <1>1, <3>1, <3>2 DEF Larger
    <3> QED
      BY <1>1, <3>1, <3>3 DEF api
  <2> QED
    BY <2>1, <2>2, <2>3, <2>4, <2>5, <2>6, <2>7, <2>8, <2>9, <2>10, <2>11, <2>12, <2>13,
       <2>14 DEF Next
<1>3. run' \in RunRecord
  BY <1>1 DEF ShapeInv
<1>4. /\ run'.stage \in {"idle", "list", "details"}
      /\ run'.kind \in {"none", "paid", "known", "changed"}
      /\ run'.page \in 1..MaxPages /\ run'.missing \subseteq Order
      /\ run'.tries \in 0..DetailAttempts
  BY <1>3, PageStep, InRecord
<1> QED
  BY <1>2, <1>4 DEF TypeOK

LEMMA OrderStep ==
    ASSUME IInv, [Next]_vars
    PROVE  OrderInv'
<1>1. /\ OrderInv /\ ShapeInv
      /\ now >= 1 /\ \A o \in Order : listed[o] <= changedAt[o]
  BY DEF IInv, TypeOK
<1>2. ASSUME NEW o \in Order, Change(o)
      PROVE  OrderInv'
  BY <1>1, <1>2 DEF OrderInv, ShapeInv, Change
<1>3. ASSUME NEW o \in Order, Publish(o)
      PROVE  OrderInv'
  BY <1>1, <1>3 DEF OrderInv, ShapeInv, Publish
<1>4. CASE Deliver
  <2>1. UNCHANGED <<now, api, coverage, runs>>
        /\ saved' = [o \in Order |-> IF o \in DOMAIN run.got THEN run.got[o] ELSE saved[o]]
    BY <1>4, Delivered
  <2>2. \A o \in DOMAIN run.got : listed[o] # 0
    BY DEF IInv, GotInv
  <2> QED
    BY <1>1, <2>1, <2>2 DEF OrderInv, api
<1>5. UNCHANGED <<api, saved>> => OrderInv'
  BY <1>1 DEF OrderInv, api
<1>6. Tick \/ ListKnown \/ Complete \/ Acknowledge \/ Break \/ UNCHANGED vars
        => UNCHANGED <<api, saved>>
  BY DEF Tick, ListKnown, Complete, Acknowledge, Break, Fail, vars
<1>7. BeginCurrent \/ BeginManual => UNCHANGED <<api, saved>>
  BY Beginning DEF Begin
<1>8. ListPaid \/ BeginChanges \/ ListChanged \/ FetchDetails => UNCHANGED <<api, saved>>
  BY DEF ListPaid, BeginChanges, ListChanged, FetchDetails, Fail
<1> QED
  BY <1>2, <1>3, <1>4, <1>5, <1>6, <1>7, <1>8 DEF Next

LEMMA LateStep ==
    ASSUME IInv, [Next]_vars
    PROVE  LateInv'
<1>1. LateInv /\ ShapeInv /\ now \in Nat
  BY DEF IInv, ShapeInv
<1>2. ASSUME NEW o \in Order, Change(o)
      PROVE  LateInv'
  BY <1>1, <1>2, Constants DEF LateInv, ShapeInv, Change
<1>3. ASSUME NEW o \in Order, Publish(o)
      PROVE  LateInv'
  BY <1>1, <1>3 DEF LateInv, ShapeInv, Publish
<1>4. CASE Tick
  BY <1>1, <1>4 DEF LateInv, Tick, api
<1>5. UNCHANGED <<now, api>> => LateInv'
  BY <1>1 DEF LateInv, api
<1>6. ListKnown \/ Complete \/ Acknowledge \/ Break \/ Deliver \/ UNCHANGED vars
        => UNCHANGED <<now, api>>
  BY DEF ListKnown, Complete, Acknowledge, Break, Deliver, Fail, vars
<1>7. BeginCurrent \/ BeginManual => UNCHANGED <<now, api>>
  BY Beginning DEF Begin
<1>8. ListPaid \/ BeginChanges \/ ListChanged \/ FetchDetails => UNCHANGED <<now, api>>
  BY DEF ListPaid, BeginChanges, ListChanged, FetchDetails, Fail
<1> QED
  BY <1>2, <1>3, <1>4, <1>5, <1>6, <1>7, <1>8 DEF Next

\* The run's part of PastInv, for a record and a time.
RunPast(r, time) ==
    /\ r.stage = "idle" => r = Idle
    /\ r.stage # "idle" => r.kind # "none" /\ r.cutoff \in 1..time
    /\ r.kind = "changed" => r.cutoff + Settle <= time
    /\ r.stage # "details" => r.got = <<>> /\ r.missing = {}
    /\ r.kind = "paid" => r.seen \subseteq SUBSET Order
    /\ r.kind = "paid" /\ {} \in r.seen => r.stage = "details" /\ ~r.more

LEMMA PastStep ==
    ASSUME IInv, [Next]_vars
    PROVE  PastInv'
<1>1. /\ watermark \in Nat /\ now \in Nat /\ now >= 1 /\ run \in RunRecord /\ run.cutoff \in Nat
      /\ watermark # 0 => watermark + Settle <= now
      /\ RunPast(run, now) /\ Settle \in Nat
  BY Constants DEF IInv, ShapeInv, PastInv, RunPast, RunRecord, TypeOK
<1>2. RunPast(run', now') /\ (watermark' # 0 => watermark' + Settle <= now') => PastInv'
  BY DEF PastInv, RunPast
<1>3. RunPast(Idle, now')
  BY IdleRun DEF RunPast
<1>4. run.stage # "idle" => run.cutoff \in 1..now
  BY <1>1 DEF RunPast
<1>6. ASSUME NEW o \in Order, Change(o) \/ Publish(o)
      PROVE  PastInv'
  BY <1>1, <1>2, <1>6 DEF Change, Publish
<1>7. CASE Tick
  <2>1. now' = now + 1 /\ UNCHANGED <<run, watermark>>
    BY <1>7 DEF Tick
  <2>2. RunPast(run, now + 1)
    BY <1>1 DEF RunPast
  <2> QED
    BY <1>1, <1>2, <2>1, <2>2
<1>8. CASE BeginCurrent \/ BeginManual
  <2>1. PICK cutoff \in 1..now, from \in Nat, last \in Nat, current \in BOOLEAN :
            Begin(cutoff, from, last, current)
    BY <1>8, Beginning
  <2>2. RunPast(run', now)
    BY <2>1, Begun DEF RunPast, IInv
  <2>3. UNCHANGED <<now, watermark>>
    BY <2>1 DEF Begin
  <2> QED
    BY <1>1, <1>2, <2>2, <2>3
<1>9. CASE ListPaid
  <2>1. run.stage = "list" /\ run.kind = "paid"
    BY <1>9 DEF ListPaid
  <2>2. CASE run' # Idle
    <3>1. /\ UNCHANGED <<now, watermark>>
          /\ run'.stage = "details" /\ run'.missing = PaidPage(OfDay, run.page)
          /\ run'.seen = run.seen \cup {PaidPage(OfDay, run.page)}
          /\ run'.missing = {} => ~run'.more
          /\ run'.kind = "paid" /\ run'.cutoff = run.cutoff
      BY <1>9, <2>2, ListedPaid
    <3>2. PaidPage(OfDay, run.page) \in SUBSET Order
      BY DEF PaidPage, OfDay, PaidIn
    <3>3. RunPast(run', now)
      BY <1>1, <2>1, <3>1, <3>2 DEF RunPast
    <3> QED
      BY <1>1, <1>2, <3>1, <3>3
  <2> QED
    BY <1>1, <1>2, <1>3, <1>9, <2>2, ListedPaid
<1>10. CASE ListKnown
  <2>1. UNCHANGED <<now, watermark>> /\ run'.stage = "details" /\ run'.kind = "known"
        /\ run'.cutoff = run.cutoff /\ run.stage = "list"
    BY <1>10, ListedKnown DEF ListKnown
  <2>2. RunPast(run', now)
    BY <1>1, <2>1 DEF RunPast
  <2> QED
    BY <1>1, <1>2, <2>1, <2>2
<1>11. CASE BeginChanges
  <2>1. UNCHANGED <<now, watermark>> /\ Settled(run.cutoff) /\ run.stage = "list"
    BY <1>11, BegunChanges
  <2>2. CASE run' # Idle
    <3>1. /\ run'.stage = "list" /\ run'.kind = "changed" /\ run'.cutoff = run.cutoff
          /\ run'.missing = run.missing /\ run'.got = run.got
      BY <1>11, <2>2, BegunChanges
    <3>2. RunPast(run', now)
      BY <1>1, <2>1, <3>1 DEF RunPast, Settled
    <3> QED
      BY <1>1, <1>2, <2>1, <3>2
  <2> QED
    BY <1>1, <1>2, <1>3, <2>1, <2>2
<1>12. CASE ListChanged
  <2>1. /\ UNCHANGED <<now, watermark>> /\ run'.stage = "details" /\ run'.kind = "changed"
        /\ run'.cutoff = run.cutoff /\ run.stage = "list" /\ run.kind = "changed"
    BY <1>12, ListedChanged
  <2>2. RunPast(run', now)
    BY <1>1, <2>1 DEF RunPast
  <2> QED
    BY <1>1, <1>2, <2>1, <2>2
<1>13. CASE FetchDetails
  <2>1. UNCHANGED <<now, watermark>> /\ run.stage = "details"
    BY <1>13, Fetched
  <2>2. CASE run' # Idle
    <3>1. /\ run'.stage = "details" /\ run'.kind = run.kind /\ run'.cutoff = run.cutoff
          /\ run'.seen = run.seen /\ run'.more = run.more
      BY <1>13, <2>2, Fetched
    <3>2. RunPast(run', now)
      BY <1>1, <2>1, <3>1 DEF RunPast
    <3> QED
      BY <1>1, <1>2, <2>1, <3>2
  <2> QED
    BY <1>1, <1>2, <1>3, <2>1, <2>2
<1>14. CASE Deliver
  <2>1. UNCHANGED <<now, watermark>> /\ run.stage = "details"
    BY <1>14, Delivered
  <2>2. CASE run' # Idle
    <3>1. /\ run'.stage = "list" /\ run'.got = <<>> /\ run'.missing = {}
          /\ run'.kind = run.kind /\ run'.cutoff = run.cutoff
      BY <1>14, <2>2, Delivered
    <3>2. run.kind = "paid" => run'.seen = {} \/ (run.more /\ run'.seen = run.seen)
      BY <1>14, <2>2, Delivered
    <3>3. RunPast(run', now)
      BY <1>1, <2>1, <3>1, <3>2 DEF RunPast
    <3> QED
      BY <1>1, <1>2, <2>1, <3>3
  <2> QED
    BY <1>1, <1>2, <1>3, <2>1, <2>2
<1>15. CASE Complete
  <2>1. /\ UNCHANGED now /\ run' = Idle
        /\ watermark' = watermark \/ (run.current /\ watermark' = run.cutoff)
    BY <1>15 DEF Complete, Larger
  <2>2. run.current => run.kind = "changed"
    BY <1>15 DEF Complete
  <2>3. run.current => run.cutoff + Settle <= now
    BY <1>1, <2>2 DEF RunPast
  <2>4. watermark' # 0 => watermark' + Settle <= now
    <3>1. CASE watermark' = watermark
      BY <1>1, <3>1
    <3>2. CASE run.current /\ watermark' = run.cutoff
      BY <2>3, <3>2
    <3> QED
      BY <2>1, <3>1, <3>2
  <2> QED
    BY <1>1, <1>2, <1>3, <2>1, <2>4
<1>16. CASE Break \/ UNCHANGED vars
  BY <1>1, <1>2, <1>3, <1>16 DEF Break, Fail, vars
<1>17. CASE Acknowledge
  <2>1. PICK g \in gaps : watermark' = Larger(watermark, g.cutoff) /\ UNCHANGED <<now, run>>
    BY <1>17 DEF Acknowledge
  <2>2. g.cutoff + Settle <= now
    BY DEF IInv, GapsInv
  <2> QED
    BY <1>1, <1>2, <2>1, <2>2 DEF Larger
<1> QED
  BY <1>6, <1>7, <1>8, <1>9, <1>10, <1>11, <1>12, <1>13, <1>14, <1>15, <1>16, <1>17 DEF Next

-----------------------------------------------------------------------------
(* Changes that can be relied on.                                          *)

\* A change due by a time that is over, with the delay, is listed.
LEMMA DueIsListed ==
    ASSUME IInv, NEW o \in Order, NEW t \in Nat, t # 0 => t + Settle <= now, Due(o, t)
    PROVE  listed[o] = changedAt[o]
<1>1. /\ changedAt[o] \in Nat /\ listed[o] \in Nat /\ listed[o] <= changedAt[o] /\ now \in Nat
      /\ Overlap \in Nat /\ Settle \in Nat
      /\ listed[o] < changedAt[o] => now < changedAt[o] + Overlap + Settle
  BY Constants DEF IInv, ShapeInv, TypeOK, LateInv
<1>2. changedAt[o] # 0 /\ changedAt[o] + Overlap <= t
  BY DEF Due
<1> QED
  BY <1>1, <1>2

\* What changes now is not due by a time that is over.
LEMMA NowIsNotDue ==
    ASSUME IInv, NEW t \in Nat, t # 0 => t + Settle <= now
    PROVE  ~(now + Overlap <= t)
<1>1. now \in Nat /\ now >= 1 /\ Overlap \in Nat /\ Settle \in Nat /\ Overlap + Settle > 0
  BY Constants DEF IInv, ShapeInv, TypeOK
<1> QED
  BY <1>1

\* The times that changes are due by.
LEMMA Limits ==
    ASSUME IInv
    PROVE  /\ watermark \in Nat /\ (watermark # 0 => watermark + Settle <= now)
           /\ run.cutoff \in Nat
           /\ run.kind = "changed" => (run.cutoff # 0 => run.cutoff + Settle <= now)
           /\ \A g \in gaps : g.cutoff \in Nat /\ g.cutoff + Settle <= now
BY DEF IInv, ShapeInv, PastInv, RunRecord, GapsInv

LEMMA SureIsListed ==
    ASSUME IInv, NEW o \in Order, Sure(o)
    PROVE  listed[o] = changedAt[o]
BY Limits, DueIsListed DEF Sure

\* What changes now is not due, neither for the watermark nor for the run.
LEMMA Changed ==
    ASSUME IInv, NEW p \in Order, Change(p)
    PROVE  /\ UNCHANGED <<now, listed, saved, coverage, run, runs>>
           /\ changedAt' = [changedAt EXCEPT ![p] = now]
           /\ ~Due(p, watermark)' /\ (run.kind = "changed" => ~Due(p, run.cutoff)')
           /\ \A g \in gaps : ~Due(p, g.cutoff)'
           /\ \A o \in Order : o # p => changedAt'[o] = changedAt[o]
<1>1. /\ UNCHANGED <<now, listed, saved, coverage, run, runs>>
      /\ changedAt' = [changedAt EXCEPT ![p] = now]
  BY DEF Change
<1>2. changedAt'[p] = now /\ \A o \in Order : o # p => changedAt'[o] = changedAt[o]
  BY <1>1 DEF IInv, ShapeInv
<1>3. /\ ~(now + Overlap <= watermark) /\ (run.kind = "changed" => ~(now + Overlap <= run.cutoff))
      /\ \A g \in gaps : ~(now + Overlap <= g.cutoff)
  BY Limits, NowIsNotDue
<1> QED
  BY <1>1, <1>2, <1>3 DEF Due

LEMMA GotStep ==
    ASSUME IInv, [Next]_vars
    PROVE  GotInv'
<1>1. GotInv /\ ShapeInv /\ ShapeInv' /\ OrderInv /\ OwedInv
  BY ShapeStep DEF IInv
<1>2. run'.missing = {} /\ run'.got = <<>> => GotInv'
  BY IdleRun DEF GotInv
<1>3. run.stage # "details" => run.missing = {} /\ run.got = <<>>
  BY DEF IInv, PastInv
<1>4. (\A o \in run'.missing : listed'[o] # 0) /\ run'.got = <<>> => GotInv'
  BY IdleRun DEF GotInv
<1>5. ASSUME NEW p \in Order, Change(p)
      PROVE  GotInv'
  <2>1. /\ UNCHANGED <<listed, watermark, gaps, run>>
        /\ ~Sure(p)'
        /\ \A o \in Order : o # p => changedAt'[o] = changedAt[o]
        /\ changedAt'[p] = now /\ changedAt[p] <= now
    BY <1>5, Changed DEF Sure, IInv, ShapeInv, TypeOK
  <2>2. \A o \in Order : o # p /\ Sure(o)' => Sure(o)
    BY <2>1 DEF Sure, Due
  <2>3. DOMAIN run.got \subseteq Order /\ \A o \in DOMAIN run.got : run.got[o] \in Nat
    BY <1>1 DEF ShapeInv, RunRecord, Partial
  <2>4. \A o \in DOMAIN run.got : run.got[o] <= changedAt'[o]
    BY <1>1, <2>1, <2>3 DEF GotInv, ShapeInv
  <2> QED
    BY <1>1, <2>1, <2>2, <2>3, <2>4 DEF GotInv
<1>6. ASSUME NEW p \in Order, Publish(p)
      PROVE  GotInv'
  <2>1. UNCHANGED <<changedAt, watermark, gaps, run>> /\ listed' = [listed EXCEPT ![p] = changedAt[p]]
        /\ listed[p] < changedAt[p]
    BY <1>6 DEF Publish
  <2>2. \A o \in Order : listed[o] # 0 => listed'[o] # 0
    BY <1>1, <2>1 DEF ShapeInv
  <2>3. DOMAIN run.got \subseteq Order /\ run.missing \subseteq Order
    BY <1>1 DEF ShapeInv, RunRecord, Partial
  <2>4. \A o : Sure(o)' <=> Sure(o)
    BY <2>1 DEF Sure, Due
  <2> QED
    BY <1>1, <2>1, <2>2, <2>3, <2>4 DEF GotInv
<1>7. CASE UNCHANGED <<api, watermark, gaps, run>>
  BY <1>1, <1>7 DEF GotInv, Sure, Due, api
<1>8. CASE BeginCurrent \/ BeginManual
  BY <1>1, <1>2, <1>8, Beginning, Begun
<1>9. CASE ListPaid
  <2>1. \A o \in PaidPage(OfDay, run.page) : listed[o] # 0
    BY DEF PaidPage, OfDay, PaidIn
  <2> QED
    BY <1>2, <1>4, <1>9, <2>1, ListedPaid, IdleRun DEF api
<1>10. CASE ListKnown
  BY <1>4, <1>10, ListedKnown DEF IInv, PlanInv, api
<1>11. CASE BeginChanges
  BY <1>2, <1>3, <1>11, BegunChanges, IdleRun
<1>12. CASE ListChanged
  <2>1. \A k \in PageOf(Rest) : listed[k[2]] # 0
    BY Keys DEF PageOf, Rest
  <2> QED
    BY <1>4, <1>12, <2>1, ListedChanged DEF api
<1>13. CASE FetchDetails
  <2>1. CASE run' # Idle
    <3>1. UNCHANGED <<api, watermark, gaps>>
      BY <1>13, Fetched
    <3>2. PICK found \in SUBSET run.missing :
            /\ run'.missing = run.missing \ found
            /\ DOMAIN run'.got = found \cup DOMAIN run.got
            /\ \A o \in found : run'.got[o] \in Versions(o)
            /\ \A o \in DOMAIN run.got \ found : run'.got[o] = run.got[o]
            /\ run'.kind = run.kind /\ run'.cutoff = run.cutoff /\ run'.owed = run.owed
      BY <1>13, <2>1, Fetched
    <3>3. \A o : Sure(o)' <=> Sure(o)
      BY <3>1, <3>2 DEF Sure, Due, api
    <3>4. found \subseteq Order /\ run.missing \subseteq Order /\ run.got \in Partial
      BY <1>1 DEF ShapeInv, RunRecord
    <3>5. ASSUME NEW o \in found
          PROVE  /\ run'.got[o] <= changedAt[o] /\ run'.got[o] # 0 /\ run'.got[o] >= listed[o]
                 /\ Sure(o) => run'.got[o] = changedAt[o]
                 /\ o \in DOMAIN run.owed => run'.got[o] >= run.owed[o]
      <4>1. /\ o \in Order /\ listed[o] # 0 /\ listed[o] <= changedAt[o]
            /\ listed[o] \in Nat /\ changedAt[o] \in Nat
        BY <1>1, <3>4 DEF GotInv, IInv, TypeOK, ShapeInv
      <4>2. run'.got[o] \in {listed[o], changedAt[o]}
        BY <3>2 DEF Versions
      <4>3. Sure(o) => listed[o] = changedAt[o]
        BY <4>1, SureIsListed
      <4>4. o \in DOMAIN run.owed => run.owed[o] <= listed[o] /\ run.owed[o] \in Nat
        BY <1>1 DEF OwedInv, ShapeInv, RunRecord, Partial
      <4> QED
        BY <4>1, <4>2, <4>3, <4>4
    <3>6. run'.missing \cap DOMAIN run'.got = {}
      BY <1>1, <3>2 DEF GotInv
    <3>7. \A o \in run'.missing \cup DOMAIN run'.got : listed'[o] # 0
      BY <1>1, <3>1, <3>2 DEF GotInv, api
    <3>8. \A o \in DOMAIN run'.got :
            /\ run'.got[o] <= changedAt'[o] /\ run'.got[o] # 0
            /\ Sure(o)' => run'.got[o] = changedAt'[o]
            /\ o \in DOMAIN run'.owed => run'.got[o] >= run'.owed[o]
      BY <1>1, <3>1, <3>2, <3>3, <3>5 DEF GotInv, api
    <3> QED
      BY <3>6, <3>7, <3>8 DEF GotInv
  <2> QED
    BY <1>2, <2>1, IdleRun
<1>14. CASE Deliver
  BY <1>2, <1>14, Delivered, IdleRun
<1>15. CASE Complete \/ Break
  BY <1>2, <1>15, IdleRun DEF Complete, Break, Fail
<1>16. Tick \/ UNCHANGED vars => UNCHANGED <<api, watermark, gaps, run>>
  BY DEF Tick, vars
<1>17. CASE Acknowledge
  <2>1. PICK g \in gaps : /\ watermark' = Larger(watermark, g.cutoff) /\ gaps' = gaps \ {g}
                         /\ UNCHANGED <<api, run>>
    BY <1>17 DEF Acknowledge
  <2>2. \A o : Sure(o)' => Sure(o)
    <3>1. watermark' = watermark \/ watermark' = g.cutoff
      BY <2>1 DEF Larger
    <3> QED
      BY <2>1, <3>1 DEF Sure, Due, api
  <2> QED
    BY <1>1, <2>1, <2>2 DEF GotInv, api
<1> QED
  BY <1>5, <1>6, <1>7, <1>8, <1>9, <1>10, <1>11, <1>12, <1>13, <1>14, <1>15, <1>16, <1>17 DEF Next

-----------------------------------------------------------------------------
(* No change is missed.                                                    *)

\* The order of the list of changes is transitive.
LEMMA BeforeAll ==
    ASSUME NEW k \in Nat \X Nat, NEW l \in Nat \X Nat, NEW c \in Nat \X Nat,
           k = l \/ Before(k, l), ~Before(k, c)
    PROVE  ~Before(l, c)
BY DEF Before

\* What the run has to read when it begins with the changes is ahead of it.
LEMMA AheadOfTheFirst ==
    ASSUME IInv, BeginChanges, run' # Idle,
           NEW o \in Order, Due(o, run.cutoff), changedAt[o] + Overlap >= run.from
    PROVE  ~Before(Key(o), run'.cursor)
<1> DEFINE w == WithOverlap(run.from)
<1>1. run.from \in Nat /\ w \in Nat /\ run'.cursor = <<w, 0>> /\ Settled(run.cutoff)
  BY BegunChanges
<1>2. changedAt[o] \in Nat /\ run.cutoff \in Nat /\ o \in Nat /\ Overlap \in Nat
  BY Limits, Constants DEF IInv, ShapeInv
<1>3. listed[o] = changedAt[o]
  BY <1>1, <1>2, DueIsListed DEF Settled
<1>4. changedAt[o] >= w
  BY <1>1, <1>2 DEF WithOverlap, Minus
<1> HIDE DEF w
<1> QED
  BY <1>1, <1>2, <1>3, <1>4 DEF Key, Before

\* What is ahead of a page is on it, or ahead of the next.
LEMMA AheadOfTheNext ==
    ASSUME IInv, ListChanged, NEW o \in Order, listed[o] # 0, ~Before(Key(o), run.cursor)
    PROVE  \/ o \in run'.missing
           \/ ~Before(Key(o), IF run'.more THEN run'.next ELSE <<End(run) + 1, 0>>)
<1>1. /\ listed[o] \in Nat /\ o \in Nat /\ run.cutoff \in Nat /\ run.start \in Nat
      /\ listed \in [Order -> Nat] /\ Order \subseteq Nat
  BY Constants DEF IInv, ShapeInv, RunRecord
<1>2. End(run) \in Nat
  BY <1>1, Constants DEF End, Smaller
<1>3. Key(o) \in Nat \X Nat /\ Key(o)[1] = listed[o] /\ Key(o)[2] = o
  BY <1>1 DEF Key
<1>4. /\ run'.missing = {k[2] : k \in PageOf(Rest)}
      /\ \/ PageOf(Rest) = Rest /\ ~run'.more
         \/ run'.more /\ run'.next \in Cursors(Rest)
  BY ListedChanged
<1>5. CASE Key(o) \in PageOf(Rest)
  BY <1>3, <1>4, <1>5
<1>6. CASE Key(o) \in Rest \ PageOf(Rest)
  <2>1. run'.more /\ run'.next \in Cursors(Rest)
    BY <1>4, <1>6
  <2>2. PICK k \in Rest \ PageOf(Rest) :
            IsFirst(k, Rest \ PageOf(Rest)) /\ ~Before(k, run'.next)
    BY <2>1 DEF Cursors
  <2>3. k = Key(o) \/ Before(k, Key(o))
    BY <1>6, <2>2 DEF IsFirst
  <2>4. k[2] \in Order /\ k = Key(k[2])
    BY <2>2, Keys DEF Rest
  <2>5. k \in Nat \X Nat
    <3>1. k[2] \in Nat /\ listed[k[2]] \in Nat
      BY <1>1, <2>4
    <3>2. k = <<listed[k[2]], k[2]>>
      BY <2>4 DEF Key
    <3> QED
      BY <3>1, <3>2
  <2>6. run'.next \in Nat \X Nat
    BY ListedChanged DEF RunRecord
  <2>7. ~Before(Key(o), run'.next)
    BY <1>3, <2>2, <2>3, <2>5, <2>6, BeforeAll
  <2> QED
    BY <2>1, <2>7
<1>7. CASE Key(o) \notin Rest
  <2>1. listed[o] > End(run)
    BY <1>1, <1>2, <1>7, Keys DEF Rest
  <2>2. CASE ~run'.more
    <3>1. ~Before(Key(o), <<End(run) + 1, 0>>)
      BY <1>1, <1>2, <1>3, <2>1 DEF Before
    <3> QED
      BY <2>2, <3>1
  <2>3. CASE run'.more
    <3>1. run'.next \in Cursors(Rest)
      BY <1>4, <2>3
    <3>2. PICK k \in Rest \ PageOf(Rest) : run'.next[1] <= k[1]
      BY <3>1 DEF Cursors
    <3>3. k[2] \in Order /\ k[1] = listed[k[2]] /\ listed[k[2]] <= End(run)
      BY <3>2, Keys DEF Rest
    <3>4. k[1] \in Nat /\ k[1] <= End(run)
      BY <1>1, <3>3
    <3>5. run'.next \in Nat \X Nat
      BY ListedChanged DEF RunRecord
    <3>6. run'.next[1] < listed[o] /\ run'.next[1] \in Nat
      BY <1>1, <1>2, <2>1, <3>2, <3>4, <3>5
    <3>7. ~Before(Key(o), run'.next)
      BY <1>1, <1>3, <3>6 DEF Before
    <3> QED
      BY <2>3, <3>7
  <2> QED
    BY <2>2, <2>3
<1> QED
  BY <1>5, <1>6, <1>7

LEMMA AheadStep ==
    ASSUME IInv, [Next]_vars
    PROVE  AheadInv'
<1>1. AheadInv /\ ShapeInv /\ ShapeInv' /\ run.cutoff \in Nat
  BY ShapeStep, Limits DEF IInv
<1>2. run'.kind # "changed" => AheadInv'
  BY DEF AheadInv
<1>3. run' = Idle => AheadInv'
  BY <1>2, IdleRun
<1>4. ASSUME NEW p \in Order, Change(p)
      PROVE  AheadInv'
  <2>1. /\ UNCHANGED <<listed, saved, run>>
        /\ run.kind = "changed" => ~Due(p, run.cutoff)'
        /\ \A o \in Order : o # p => changedAt'[o] = changedAt[o]
    BY <1>4, Changed
  <2>2. \A o \in Order : run.kind = "changed" /\ Due(o, run.cutoff)' => o # p /\ Due(o, run.cutoff)
    BY <2>1 DEF Due
  <2> QED
    BY <1>1, <2>1, <2>2 DEF AheadInv, Key, Place, End
<1>5. ASSUME NEW p \in Order, Publish(p)
      PROVE  AheadInv'
  <2>1. /\ UNCHANGED <<changedAt, saved, run>> /\ listed[p] < changedAt[p]
        /\ listed' = [listed EXCEPT ![p] = changedAt[p]]
    BY <1>5 DEF Publish
  <2>2. run.kind = "changed" => ~Due(p, run.cutoff)
    <3> SUFFICES ASSUME run.kind = "changed", Due(p, run.cutoff)
                 PROVE  FALSE
      OBVIOUS
    <3>1. listed[p] = changedAt[p]
      BY <1>1, Limits, DueIsListed
    <3> QED
      BY <1>1, <2>1, <3>1 DEF ShapeInv
  <2>3. \A o \in Order : o # p => listed'[o] = listed[o]
    BY <1>1, <2>1 DEF ShapeInv
  <2> QED
    BY <1>1, <2>1, <2>2, <2>3 DEF AheadInv, Due, Key, Place, End
<1>6. CASE UNCHANGED <<api, saved, run>>
  BY <1>1, <1>6 DEF AheadInv, Due, Key, Place, End, api
<1>7. CASE BeginCurrent \/ BeginManual
  BY <1>1, <1>2, <1>7, Beginning, Begun
<1>8. CASE ListPaid
  BY <1>2, <1>3, <1>8, ListedPaid
<1>9. CASE ListKnown
  BY <1>2, <1>9, ListedKnown
<1>10. CASE BeginChanges
  <2>1. CASE run' # Idle
    <3>1. /\ UNCHANGED <<api, saved>> /\ run'.stage = "list" /\ run'.cutoff = run.cutoff
          /\ run'.start = WithOverlap(run.from) /\ run'.cursor = <<WithOverlap(run.from), 0>>
          /\ WithOverlap(run.from) \in Nat /\ SamePlan(run', run)
      BY <1>10, <2>1, BegunChanges
    <3>2. run'.cursor[1] >= run'.start
      BY <3>1
    <3>3. ASSUME NEW o \in Order, Due(o, run.cutoff)', changedAt'[o] + Overlap >= run'.from
          PROVE  saved'[o] = changedAt'[o] \/ ~Before(Key(o)', Place')
      <4>1. Due(o, run.cutoff) /\ changedAt[o] + Overlap >= run.from
        BY <3>1, <3>3 DEF Due, api
      <4>2. saved[o] = changedAt[o] \/ ~Before(Key(o), run'.cursor)
        BY <1>10, <2>1, <4>1, AheadOfTheFirst
      <4> QED
        BY <3>1, <4>2 DEF Key, Place, api
    <3> QED
      BY <3>2, <3>3 DEF AheadInv
  <2> QED
    BY <1>3, <2>1
<1>11. CASE ListChanged
  <2>1. /\ UNCHANGED <<now, api, saved, coverage, runs>>
        /\ run.stage = "list" /\ run.kind = "changed"
        /\ run'.stage = "details" /\ run'.kind = "changed" /\ run'.cutoff = run.cutoff
        /\ run'.start = run.start /\ run'.cursor = run.cursor /\ SamePlan(run', run)
    BY <1>11, ListedChanged
  <2>2. run'.cursor[1] >= run'.start
    BY <1>1, <2>1 DEF AheadInv
  <2>3. End(run') = End(run)
    BY <2>1 DEF End
  <2>4. ASSUME NEW o \in Order, Due(o, run.cutoff)', changedAt'[o] + Overlap >= run'.from
        PROVE  \/ saved'[o] = changedAt'[o]
               \/ o \in run'.missing \cup DOMAIN run'.got
               \/ ~Before(Key(o)', Place')
    <3>1. Due(o, run.cutoff) /\ changedAt[o] + Overlap >= run.from
      BY <2>1, <2>4 DEF Due, api
    <3>2. saved[o] = changedAt[o] \/ ~Before(Key(o), run.cursor)
      <4>1. run.missing = {} /\ DOMAIN run.got = {}
        BY <2>1, IdleRun DEF IInv, PastInv
      <4> QED
        BY <1>1, <2>1, <3>1, <4>1 DEF AheadInv, Place
    <3>3. listed[o] # 0
      BY <1>1, <2>1, <3>1, Limits, DueIsListed DEF Due
    <3>4. CASE saved[o] # changedAt[o]
      <4>1. \/ o \in run'.missing
            \/ ~Before(Key(o), IF run'.more THEN run'.next ELSE <<End(run) + 1, 0>>)
        BY <1>11, <3>2, <3>3, <3>4, AheadOfTheNext
      <4>2. Key(o)' = Key(o) /\ Place' = IF run'.more THEN run'.next ELSE <<End(run) + 1, 0>>
        BY <2>1, <2>3 DEF Key, Place, api
      <4> QED
        BY <4>1, <4>2
    <3> QED
      BY <2>1, <3>4 DEF api
  <2> QED
    BY <2>2, <2>4 DEF AheadInv
<1>12. CASE FetchDetails
  <2>1. CASE run' # Idle
    <3>1. /\ UNCHANGED <<api, saved>> /\ SamePlan(run', run) /\ run.stage = "details"
          /\ run'.stage = "details"
          /\ run'.missing \cup DOMAIN run'.got = run.missing \cup DOMAIN run.got
          /\ run'.kind = run.kind /\ run'.cutoff = run.cutoff /\ run'.start = run.start
          /\ run'.cursor = run.cursor /\ run'.next = run.next /\ run'.more = run.more
      BY <1>12, <2>1, Fetched
    <3>2. Place' = Place /\ \A o : Key(o)' = Key(o) /\ (Due(o, run.cutoff)' <=> Due(o, run.cutoff))
      BY <3>1 DEF Place, End, Key, Due, api
    <3> QED
      BY <1>1, <3>1, <3>2 DEF AheadInv, api
  <2> QED
    BY <1>3, <2>1
<1>13. CASE Deliver
  <2>1. CASE run' # Idle /\ run.kind = "changed"
    <3>1. /\ UNCHANGED <<now, api, coverage, runs>>
          /\ run.stage = "details" /\ run.missing = {}
          /\ saved' = [o \in Order |-> IF o \in DOMAIN run.got THEN run.got[o] ELSE saved[o]]
          /\ run'.stage = "list" /\ run'.kind = "changed" /\ run'.cutoff = run.cutoff
          /\ SamePlan(run', run)
      BY <1>13, <2>1, Delivered
    <3>2. \/ /\ run.more /\ run'.start = run.start /\ run'.cursor = run.next
             /\ Follows(run.next)
          \/ /\ ~run.more /\ run'.start = End(run) + 1 /\ run'.cursor = <<End(run) + 1, 0>>
      BY <1>13, <2>1, Delivered
    <3>3. /\ run.start \in Nat /\ run.next \in Nat \X Nat /\ run.cursor \in Nat \X Nat
          /\ run.cursor[1] >= run.start
      BY <1>1, <2>1 DEF ShapeInv, RunRecord, AheadInv
    <3>4. End(run) \in Nat
      BY <1>1, <3>3, Constants DEF End, Smaller
    <3>5. run'.cursor[1] >= run'.start
      <4>1. CASE run.more
        <5>1. run.next[1] >= run.cursor[1] /\ run'.cursor = run.next /\ run'.start = run.start
          BY <3>2, <4>1 DEF Follows
        <5>2. run.next[1] \in Nat /\ run.cursor[1] \in Nat
          BY <3>3
        <5> QED
          BY <3>3, <5>1, <5>2
      <4>2. CASE ~run.more
        BY <3>2, <3>4, <4>2
      <4> QED
        BY <4>1, <4>2
    <3>6. run'.cursor = Place
      BY <3>1, <3>2 DEF Place
    <3>7. ASSUME NEW o \in Order, Due(o, run.cutoff)', changedAt'[o] + Overlap >= run'.from
          PROVE  saved'[o] = changedAt'[o] \/ ~Before(Key(o)', Place')
      <4>1. Due(o, run.cutoff) /\ changedAt[o] + Overlap >= run.from
        BY <3>1, <3>7 DEF Due, api
      <4>2. saved[o] = changedAt[o] \/ o \in DOMAIN run.got \/ ~Before(Key(o), Place)
        BY <1>1, <2>1, <3>1, <4>1 DEF AheadInv
      <4>3. o \in DOMAIN run.got => run.got[o] = changedAt[o]
        BY <2>1, <4>1 DEF IInv, GotInv, Sure
      <4>4. Key(o)' = Key(o) /\ Place' = run'.cursor
        BY <3>1 DEF Key, Place, api
      <4> QED
        BY <3>1, <3>6, <4>2, <4>3, <4>4 DEF api
    <3> QED
      BY <3>5, <3>7 DEF AheadInv
  <2>2. run' # Idle => run'.kind = run.kind
    BY <1>13, Delivered
  <2> QED
    BY <1>2, <1>3, <2>1, <2>2
<1>14. CASE Complete \/ Break
  BY <1>3, <1>14 DEF Complete, Break, Fail
<1>15. Tick \/ Acknowledge \/ UNCHANGED vars => UNCHANGED <<api, saved, run>>
  BY DEF Tick, Acknowledge, vars
<1> QED
  BY <1>4, <1>5, <1>6, <1>7, <1>8, <1>9, <1>10, <1>11, <1>12, <1>13, <1>14, <1>15 DEF Next

\* A run that has read all changes up to its cutoff has saved those due.
LEMMA AllAreRead ==
    ASSUME IInv, run.stage = "list", run.kind = "changed", run.start > run.cutoff,
           NEW o \in Order, Due(o, run.cutoff), changedAt[o] + Overlap >= run.from
    PROVE  saved[o] = changedAt[o]
<1>1. /\ run.cutoff \in Nat /\ run.start \in Nat /\ run.cursor \in Nat \X Nat
      /\ run.missing = {} /\ DOMAIN run.got = {}
      /\ changedAt[o] \in Nat /\ Overlap \in Nat
  <2>1. run \in RunRecord /\ changedAt[o] \in Nat /\ Overlap \in Nat
    BY Constants DEF IInv, ShapeInv
  <2>2. run.cutoff \in Nat /\ run.start \in Nat /\ run.cursor \in Nat \X Nat
    BY <2>1 DEF RunRecord
  <2>3. run.got = <<>> /\ run.missing = {}
    BY DEF IInv, PastInv
  <2>4. DOMAIN run.got = {}
    BY <2>3, IdleRun
  <2> QED
    BY <2>1, <2>2, <2>3, <2>4
<1>2. run.cursor[1] >= run.start /\ run.cursor[1] \in Nat
  BY <1>1 DEF IInv, AheadInv
<1>3. saved[o] = changedAt[o] \/ ~Before(Key(o), run.cursor)
  BY <1>1 DEF IInv, AheadInv, Place
<1>4. listed[o] = changedAt[o]
  BY Limits, DueIsListed
<1>5. changedAt[o] <= run.cutoff
  BY <1>1 DEF Due
<1>6. Before(Key(o), run.cursor)
  BY <1>1, <1>2, <1>4, <1>5 DEF Before, Key
<1> QED
  BY <1>3, <1>6

LEMMA MissedStep ==
    ASSUME IInv, [Next]_vars
    PROVE  NothingMissed'
<1>1. NothingMissed /\ ShapeInv /\ watermark \in Nat /\ run.cutoff \in Nat
  BY Limits DEF IInv
<1>2. ASSUME NEW p \in Order, Change(p)
      PROVE  NothingMissed'
  <2>1. /\ UNCHANGED <<saved, readFrom, watermark, unread>> /\ ~Due(p, watermark)'
        /\ \A o \in Order : o # p => changedAt'[o] = changedAt[o]
    BY <1>2, Changed
  <2> QED
    BY <1>1, <2>1 DEF NothingMissed, Due, GivenAway
<1>3. CASE UNCHANGED <<changedAt, saved, readFrom, watermark, unread>>
  BY <1>1, <1>3 DEF NothingMissed, GivenAway
<1>4. CASE BeginChanges
  <2>1. UNCHANGED <<changedAt, saved, watermark, unread>> /\ (watermark # 0 => readFrom' = readFrom)
    BY <1>4, BegunChanges DEF api, FirstRun
  <2>2. watermark = 0 => NothingMissed'
    BY <1>1, <2>1, Constants DEF NothingMissed, ShapeInv
  <2> QED
    BY <1>3, <2>1, <2>2
<1>5. CASE Deliver
  <2>1. /\ UNCHANGED <<changedAt, readFrom, watermark, unread>>
        /\ saved' = [o \in Order |-> IF o \in DOMAIN run.got THEN run.got[o] ELSE saved[o]]
    BY <1>5, Delivered DEF api
  <2>2. \A o \in DOMAIN run.got : Due(o, watermark) => run.got[o] = changedAt[o]
    BY DEF IInv, GotInv, Sure
  <2> QED
    BY <1>1, <2>1, <2>2 DEF NothingMissed, Due, GivenAway
<1>6. CASE Complete
  <2>1. /\ UNCHANGED <<changedAt, saved, readFrom, unread>>
        /\ watermark' # watermark => /\ run.gap = 0 /\ run.current
                                     /\ watermark' = run.cutoff
    BY <1>6 DEF Complete, Larger, api
  <2>2. CASE watermark' # watermark
    <3>1. run.stage = "list" /\ run.kind = "changed" /\ run.start > run.cutoff
      BY <1>6, <2>1, <2>2 DEF Complete
    <3>2. (FirstRun \/ run.from <= watermark) /\ (FirstRun => run.from <= readFrom + Overlap)
      BY <2>1, <2>2, <3>1 DEF IInv, PlanInv
    <3>3. ASSUME NEW o \in Order, Due(o, run.cutoff), changedAt[o] >= readFrom, ~GivenAway(o)
          PROVE  saved[o] = changedAt[o]
      <4>1. /\ changedAt[o] \in Nat /\ readFrom \in Nat /\ Overlap \in Nat /\ watermark \in Nat
            /\ run.from \in Nat
        BY Constants DEF IInv, ShapeInv, RunRecord
      <4>2. CASE Due(o, watermark)
        BY <1>1, <3>3, <4>2 DEF NothingMissed, Due
      <4>3. CASE ~Due(o, watermark)
        <5>1. changedAt[o] + Overlap >= run.from
          BY <3>2, <3>3, <4>1, <4>3 DEF Due
        <5> QED
          BY <3>1, <3>3, <5>1, AllAreRead
      <4> QED
        BY <4>2, <4>3
    <3> QED
      BY <2>1, <2>2, <3>3 DEF NothingMissed, Due, GivenAway
  <2> QED
    BY <1>3, <2>1, <2>2
<1>11. CASE Acknowledge
  <2>1. PICK g \in gaps : /\ watermark' = Larger(watermark, g.cutoff) /\ unread' = Widened(g)
                         /\ UNCHANGED <<changedAt, saved, readFrom>>
    BY <1>11 DEF Acknowledge, api
  <2>2. /\ g.from \in Nat /\ g.to \in Nat /\ g.cutoff \in Nat /\ g.from <= watermark
        /\ unread.from \in Nat /\ unread.to \in Nat
    BY DEF IInv, ShapeInv, GapsInv
  <2>3. ASSUME NEW o \in Order, Due(o, watermark'), changedAt[o] >= readFrom,
               ~(unread'.from < changedAt[o] + Overlap /\ changedAt[o] + Overlap < unread'.to)
        PROVE  saved[o] = changedAt[o]
    <3>1. changedAt[o] \in Nat /\ Overlap \in Nat
      BY <1>1, Constants DEF ShapeInv
    <3>2. /\ unread'.from = IF unread.to # 0 THEN Smaller(unread.from, g.from) ELSE g.from
          /\ unread'.to = Larger(unread.to, g.to)
      BY <2>1 DEF Widened
    <3>3. CASE Due(o, watermark)
      <4>1. ~GivenAway(o)
        BY <2>2, <2>3, <3>1, <3>2 DEF GivenAway, Smaller, Larger
      <4> QED
        BY <1>1, <2>3, <3>3, <4>1 DEF NothingMissed, Due
    <3>4. CASE ~Due(o, watermark)
      <4>1. Due(o, g.cutoff) /\ changedAt[o] + Overlap > watermark
        BY <1>1, <2>1, <2>2, <2>3, <3>1, <3>4 DEF Due, Larger
      <4>2. changedAt[o] + Overlap >= g.to
        BY <1>1, <2>2, <2>3, <3>1, <3>2, <4>1 DEF Smaller, Larger
      <4> QED
        BY <4>1, <4>2 DEF IInv, GapsInv
    <3> QED
      BY <3>3, <3>4
  <2> QED
    BY <2>1, <2>3 DEF NothingMissed, Due, GivenAway
<1>7. ASSUME NEW p \in Order, Publish(p)
      PROVE  UNCHANGED <<changedAt, saved, readFrom, watermark, unread>>
  BY <1>7 DEF Publish
<1>8. Tick \/ ListKnown \/ Break \/ UNCHANGED vars
        => UNCHANGED <<changedAt, saved, readFrom, watermark, unread>>
  BY DEF Tick, ListKnown, Break, Fail, vars, api
<1>9. BeginCurrent \/ BeginManual => UNCHANGED <<changedAt, saved, readFrom, watermark, unread>>
  BY Beginning DEF Begin, api
<1>10. ListPaid \/ ListChanged \/ FetchDetails
        => UNCHANGED <<changedAt, saved, readFrom, watermark, unread>>
  BY DEF ListPaid, ListChanged, FetchDetails, Fail, api
<1> QED
  BY <1>2, <1>3, <1>4, <1>5, <1>6, <1>7, <1>8, <1>9, <1>10, <1>11 DEF Next

\* The plan of a run holds on: orders stay listed, and the watermark and the
\* place of the first run stay where they are, or move on.
LEMMA PlanStep ==
    ASSUME IInv, [Next]_vars
    PROVE  PlanInv'
<1>1. /\ PlanInv /\ ShapeInv /\ ShapeInv' /\ watermark \in Nat /\ readFrom \in Nat
      /\ run.from \in Nat /\ run.gap \in Nat /\ run.known \subseteq Order
  BY ShapeStep DEF IInv, ShapeInv, RunRecord
<1>2. run' = Idle => PlanInv'
  BY <1>1, IdleRun DEF PlanInv, ShapeInv
<1>3. ASSUME NEW p \in Order, Change(p) \/ Publish(p)
      PROVE  PlanInv'
  <2>1. UNCHANGED <<coverage, run>>
    BY <1>3 DEF Change, Publish
  <2>2. \A o \in Order : listed[o] # 0 => listed'[o] # 0
    <3>1. CASE Change(p)
      BY <3>1 DEF Change
    <3>2. CASE Publish(p)
      BY <1>1, <3>2 DEF Publish, ShapeInv
    <3> QED
      BY <1>3, <3>1, <3>2
  <2> QED
    BY <1>1, <2>1, <2>2 DEF PlanInv, FirstRun
<1>4. CASE UNCHANGED <<api, watermark, readFrom, run>>
  BY <1>1, <1>4 DEF PlanInv, FirstRun, api
<1>5. CASE BeginCurrent \/ BeginManual
  <2>1. PICK cutoff \in 1..now, from \in Nat, last \in Nat, current \in BOOLEAN :
            Begin(cutoff, from, last, current)
    BY <1>5, Beginning
  <2>2. /\ run'.kind = "paid" /\ run'.current = current
        /\ run'.from = (IF current THEN ChangedFrom(cutoff) ELSE 0)
        /\ run'.gap = (IF current /\ LostTouch(cutoff) THEN watermark ELSE 0)
        /\ run'.known = (IF current THEN Existing(cutoff) ELSE {})
    BY <1>1, <2>1, Begun
  <2>3. UNCHANGED <<listed, watermark>>
    BY <2>1 DEF Begin, api
  <2>4. \A o \in run'.known : listed'[o] # 0
    BY <2>2, <2>3 DEF Existing, IInv, OrderInv
  <2>5. run'.gap <= watermark' /\ (run'.gap # 0 => run'.current)
    BY <1>1, <2>2, <2>3
  <2>6. run'.current /\ run'.gap = 0 => FirstRun' \/ run'.from <= watermark'
    BY <1>1, <2>2, <2>3 DEF FirstRun, LostTouch, ChangedFrom
  <2> QED
    BY <2>2, <2>4, <2>5, <2>6 DEF PlanInv
<1>6. CASE ListPaid \/ ListKnown \/ ListChanged \/ FetchDetails \/ Deliver
  <2>1. CASE run' # Idle
    <3>1. UNCHANGED <<api, watermark, readFrom>> /\ SamePlan(run', run) /\ run'.current = run.current
      BY <1>6, <2>1, ListedPaid, ListedKnown, ListedChanged, Fetched, Delivered
    <3>2. run'.kind = "changed" => run.kind = "changed"
      BY <1>6, <2>1, ListedPaid, ListedKnown, ListedChanged, Fetched, Delivered
    <3> QED
      BY <1>1, <3>1, <3>2 DEF PlanInv, FirstRun, api
  <2> QED
    BY <1>2, <2>1
<1>7. CASE BeginChanges
  <2>1. CASE run' # Idle
    <3>1. /\ UNCHANGED <<api, watermark>> /\ SamePlan(run', run) /\ run'.current = run.current
          /\ readFrom' = IF FirstRun THEN WithOverlap(run.from) ELSE readFrom
      BY <1>7, <2>1, BegunChanges
    <3>2. FirstRun => run.from <= readFrom' + Overlap
      BY <1>1, <3>1, Constants DEF WithOverlap, Minus
    <3> QED
      BY <1>1, <3>1, <3>2 DEF PlanInv, FirstRun, api
  <2> QED
    BY <1>2, <2>1
<1>8. CASE Acknowledge
  <2>1. /\ UNCHANGED <<api, readFrom, run>> /\ watermark' >= watermark /\ watermark # 0
        /\ watermark' \in Nat
    BY <1>1, <1>8 DEF Acknowledge, Larger, ShapeInv, IInv, GapsInv, FirstRun
  <2>2. ~FirstRun /\ ~FirstRun'
    BY <1>1, <2>1 DEF FirstRun
  <2> QED
    BY <1>1, <2>1, <2>2 DEF PlanInv, api
<1>9. CASE Complete \/ Break
  BY <1>2, <1>9 DEF Complete, Break, Fail
<1>10. Tick \/ UNCHANGED vars => UNCHANGED <<api, watermark, readFrom, run>>
  BY DEF Tick, vars
<1> QED
  BY <1>2, <1>3, <1>4, <1>5, <1>6, <1>7, <1>8, <1>9, <1>10 DEF Next

\* What was to be read behind a gap stays saved: its changes are over, and
\* details that arrive late are not older.
LEMMA GapsStep ==
    ASSUME IInv, [Next]_vars
    PROVE  GapsInv'
<1>1. GapsInv /\ ShapeInv /\ ShapeInv' /\ watermark \in Nat /\ now \in Nat
  BY ShapeStep DEF IInv, ShapeInv
<1>2. CASE UNCHANGED <<now, changedAt, saved, watermark, gaps>>
  BY <1>1, <1>2 DEF GapsInv, FirstRun, Due
<1>3. ASSUME NEW p \in Order, Change(p)
      PROVE  GapsInv'
  <2>1. /\ UNCHANGED <<now, saved, watermark, gaps>> /\ \A g \in gaps : ~Due(p, g.cutoff)'
        /\ \A o \in Order : o # p => changedAt'[o] = changedAt[o]
    BY <1>3, Changed
  <2> QED
    BY <1>1, <2>1 DEF GapsInv, FirstRun, Due
<1>4. CASE Tick
  <2>1. UNCHANGED <<changedAt, saved, watermark, gaps>> /\ now' = now + 1
    BY <1>4 DEF Tick, api
  <2>2. \A g \in gaps : g.cutoff + Settle <= now'
    BY <1>1, <2>1, Limits, Constants
  <2> QED
    BY <1>1, <2>1, <2>2 DEF GapsInv, FirstRun, Due
<1>5. CASE Deliver
  <2>1. /\ UNCHANGED <<now, changedAt, watermark, gaps>>
        /\ saved' = [o \in Order |-> IF o \in DOMAIN run.got THEN run.got[o] ELSE saved[o]]
    BY <1>5, Delivered DEF api
  <2>2. \A g \in gaps : \A o \in DOMAIN run.got : Due(o, g.cutoff) => run.got[o] = changedAt[o]
    BY DEF IInv, GotInv, Sure
  <2> QED
    BY <1>1, <2>1, <2>2 DEF GapsInv, FirstRun, Due
<1>6. CASE Complete
  <2>1. UNCHANGED <<now, changedAt, saved>>
    BY <1>6 DEF Complete, api
  <2>2. CASE run.gap # 0
    <3>1. /\ UNCHANGED watermark
          /\ gaps' = gaps \cup {[from |-> run.gap, to |-> run.from, cutoff |-> run.cutoff]}
      BY <1>6, <2>2 DEF Complete
    <3>2. run.stage = "list" /\ run.kind = "changed" /\ run.start > run.cutoff
      BY <1>6, <2>2 DEF Complete, IInv, PlanInv
    <3>3. run.gap <= watermark /\ run.gap \in Nat
      BY DEF IInv, PlanInv, ShapeInv, RunRecord
    <3>4. run.cutoff # 0 /\ run.cutoff + Settle <= now
      BY <1>1, <3>2 DEF IInv, PastInv
    <3>5. \A o \in Order : Due(o, run.cutoff) /\ changedAt[o] + Overlap >= run.from
                            => saved[o] = changedAt[o]
      BY <3>2, AllAreRead
    <3>6. ~FirstRun
      BY <1>1, <2>2, <3>3 DEF FirstRun
    <3> DEFINE new == [from |-> run.gap, to |-> run.from, cutoff |-> run.cutoff]
    <3>7. new.from = run.gap /\ new.to = run.from /\ new.cutoff = run.cutoff
      OBVIOUS
    <3> HIDE DEF new
    <3>8. gaps' = gaps \cup {new}
      BY <3>1 DEF new
    <3>9. ASSUME NEW g \in gaps'
          PROVE  /\ g.from <= watermark' /\ g.cutoff # 0 /\ g.cutoff + Settle <= now'
                 /\ \A o \in Order :
                        Due(o, g.cutoff)' /\ changedAt'[o] + Overlap >= g.to
                            => saved'[o] = changedAt'[o]
      <4>1. CASE g = new
        BY <2>1, <3>1, <3>3, <3>4, <3>5, <3>7, <4>1 DEF Due
      <4>2. CASE g \in gaps
        BY <1>1, <2>1, <3>1, <4>2 DEF GapsInv, Due
      <4> QED
        BY <3>8, <4>1, <4>2
    <3> QED
      BY <3>1, <3>6, <3>9 DEF GapsInv, FirstRun
  <2>3. CASE run.gap = 0
    <3>1. gaps' = gaps /\ watermark' >= watermark /\ watermark' \in Nat
      BY <1>1, <1>6, <2>3 DEF Complete, Larger, ShapeInv, RunRecord
    <3> QED
      BY <1>1, <2>1, <3>1 DEF GapsInv, FirstRun, Due, ShapeInv
  <2> QED
    BY <2>2, <2>3
<1>7. CASE Acknowledge
  <2>1. PICK g \in gaps : /\ watermark' = Larger(watermark, g.cutoff) /\ gaps' = gaps \ {g}
                         /\ UNCHANGED <<now, changedAt, saved>>
    BY <1>7 DEF Acknowledge, api
  <2>2. g.cutoff \in Nat /\ watermark' \in Nat /\ watermark' >= watermark
    BY <1>1, <2>1 DEF Larger, ShapeInv
  <2> QED
    BY <1>1, <2>1, <2>2 DEF GapsInv, FirstRun, Due, ShapeInv
<1>8. ASSUME NEW p \in Order, Publish(p)
      PROVE  UNCHANGED <<now, changedAt, saved, watermark, gaps>>
  BY <1>8 DEF Publish
<1>9. BeginChanges \/ ListKnown \/ Break \/ UNCHANGED vars
        => UNCHANGED <<now, changedAt, saved, watermark, gaps>>
  BY DEF BeginChanges, ListKnown, Break, Fail, vars, api
<1>10. BeginCurrent \/ BeginManual => UNCHANGED <<now, changedAt, saved, watermark, gaps>>
  BY Beginning DEF Begin, api
<1>11. ListPaid \/ ListChanged \/ FetchDetails => UNCHANGED <<now, changedAt, saved, watermark, gaps>>
  BY DEF ListPaid, ListChanged, FetchDetails, Fail, api
<1> QED
  BY <1>2, <1>3, <1>4, <1>5, <1>6, <1>7, <1>8, <1>9, <1>10, <1>11 DEF Next

-----------------------------------------------------------------------------
(* What a run owes is saved.                                               *)

\* The rank of an order in a list is a number below the length of the list.
LEMMA Ranks ==
    ASSUME NEW S \in SUBSET Order, NEW o \in S
    PROVE  /\ Rank(o, S) \in Nat /\ Cardinality(S) \in Nat
           /\ paidAt[o] \in Nat => Rank(o, S) < Cardinality(S)
<1> DEFINE R == {p \in S : Before(<<paidAt[p], p>>, <<paidAt[o], o>>)}
<1>1. IsFiniteSet(S)
  BY Constants, FS_Subset
<1>2. R \subseteq S
  OBVIOUS
<1>3. IsFiniteSet(R) /\ Cardinality(R) \in Nat /\ Cardinality(S) \in Nat
  BY <1>1, <1>2, FS_Subset, FS_CardinalityType
<1>4. ASSUME paidAt[o] \in Nat
      PROVE  Cardinality(R) < Cardinality(S)
  <2>1. o \in Nat
    BY Constants
  <2>2. o \notin R
    BY <1>4, <2>1 DEF Before
  <2>3. R # S
    BY <2>2
  <2> HIDE DEF R
  <2> QED
    BY <1>1, <1>2, <1>3, <2>3, FS_Subset
<1> QED
  BY <1>3, <1>4 DEF Rank

LEMMA RunFields ==
    ASSUME IInv
    PROVE  /\ run \in RunRecord /\ run.day \in Nat /\ run.last \in Nat /\ run.cutoff \in Nat
           /\ run.page \in Nat \ {0} /\ run.more \in BOOLEAN
           /\ (run.page - 1) * PageSize \in Nat /\ run.page * PageSize \in Nat
           /\ run.owed \in Partial
           /\ OfDay \in SUBSET Order
<1>1. run \in RunRecord /\ run.page \in Nat \ {0}
  BY Constants DEF IInv, ShapeInv, TypeOK
<1>2. (run.page - 1) * PageSize \in Nat /\ run.page * PageSize \in Nat
  BY <1>1, Constants
<1> QED
  BY <1>1, <1>2 DEF RunRecord, OfDay, PaidIn

\* An order paid on the day that is read, by the cutoff, is in its list.
LEMMA OnTheDay ==
    ASSUME IInv, NEW o \in Order, listed[o] # 0, paidAt[o] <= run.cutoff, Day(paidAt[o]) = run.day
    PROVE  o \in OfDay
<1>1. paidAt[o] \in Nat /\ run.cutoff \in Nat /\ run.day \in Nat /\ DayLength \in Nat \ {0}
  BY RunFields, Constants DEF IInv, ShapeInv
<1>2. run.day * DayLength <= paidAt[o] /\ paidAt[o] < (run.day + 1) * DayLength
  BY <1>1, Quotient DEF Day
<1> DEFINE m == run.day * DayLength
           n == (run.day + 1) * DayLength
<1>3. m \in Nat /\ n \in Nat
  BY <1>1
<1> HIDE DEF m, n
<1>4. To(run) = (IF n - 1 < run.cutoff THEN n - 1 ELSE run.cutoff)
  BY DEF To, Smaller, n
<1>5. m <= paidAt[o] /\ paidAt[o] < n
  BY <1>2 DEF m, n
<1>6. paidAt[o] \in m..To(run)
  BY <1>1, <1>3, <1>4, <1>5
<1> QED
  BY <1>6 DEF OfDay, PaidIn, m

\* An order that has not been read yet is on the page that is read, or behind it.
LEMMA OnThePage ==
    ASSUME IInv, NEW o \in OfDay, Rank(o, OfDay) >= (run.page - 1) * PageSize,
           ~(Rank(o, OfDay) >= run.page * PageSize)
    PROVE  o \in PaidPage(OfDay, run.page)
<1> DEFINE k == run.page - 1
<1>1. k \in Nat /\ k + 1 = run.page /\ PageSize \in Nat \ {0}
  BY RunFields, Constants
<1>2. Rank(o, OfDay) \in Nat
  BY RunFields, Ranks
<1>3. k * PageSize <= Rank(o, OfDay) /\ Rank(o, OfDay) < (k + 1) * PageSize
  BY <1>1, <1>2, RunFields
<1> HIDE DEF k
<1>4. Rank(o, OfDay) \div PageSize = k
  BY <1>1, <1>2, <1>3, QuotientOf
<1> QED
  BY <1>4 DEF PaidPage, k

\* What is still to come stays so as orders are added to the list: ranks only
\* grow.
LEMMA StaysToCome ==
    ASSUME IInv, UNCHANGED run,
           \A p \in Order : listed[p] # 0 => listed'[p] # 0 /\ paidAt'[p] = paidAt[p],
           NEW o \in Order, ToCome(o)
    PROVE  ToCome(o)'
<1>1. /\ listed'[o] # 0 /\ paidAt'[o] = paidAt[o] /\ run' = run
      /\ run.kind = "paid" /\ paidAt[o] <= run.cutoff /\ Day(paidAt[o]) \in run.day..run.last
  BY DEF ToCome
<1>2. OfDay \in SUBSET Order /\ OfDay' \in SUBSET Order /\ OfDay \subseteq OfDay'
      /\ \A p \in OfDay : paidAt'[p] = paidAt[p]
  BY <1>1 DEF OfDay, PaidIn, To
<1>3. Rank(o, OfDay) <= Rank(o, OfDay)' /\ Rank(o, OfDay) \in Nat /\ Rank(o, OfDay)' \in Nat
  <2> DEFINE A == {p \in OfDay : Before(<<paidAt[p], p>>, <<paidAt[o], o>>)}
             B == {p \in OfDay' : Before(<<paidAt'[p], p>>, <<paidAt'[o], o>>)}
  <2>1. A \subseteq B /\ B \subseteq Order
    BY <1>1, <1>2
  <2>2. IsFiniteSet(B)
    BY <2>1, Constants, FS_Subset
  <2>3. Rank(o, OfDay) = Cardinality(A) /\ Rank(o, OfDay)' = Cardinality(B)
    BY DEF Rank, Before
  <2> HIDE DEF A, B
  <2>4. Cardinality(A) <= Cardinality(B) /\ Cardinality(A) \in Nat /\ Cardinality(B) \in Nat
    BY <2>1, <2>2, FS_Subset, FS_CardinalityType
  <2> QED
    BY <2>3, <2>4
<1>4. \A n \in Nat : Rank(o, OfDay) >= n => Rank(o, OfDay)' >= n
  BY <1>3
<1>5. /\ Rank(o, OfDay) >= (run.page - 1) * PageSize => Rank(o, OfDay)' >= (run.page - 1) * PageSize
      /\ Rank(o, OfDay) >= run.page * PageSize => Rank(o, OfDay)' >= run.page * PageSize
  BY <1>4, RunFields
<1>6. Day(paidAt[o]) = run.day =>
        IF run.stage = "list"
        THEN Rank(o, OfDay)' >= (run.page - 1) * PageSize
        ELSE \/ o \in run.missing \cup DOMAIN run.got
             \/ run.more /\ Rank(o, OfDay)' >= run.page * PageSize
  BY <1>5 DEF ToCome
<1> QED
  BY <1>1, <1>6 DEF ToCome, Day

\* The ways in which what a run owes is not saved yet.
Pending(o) ==
    \/ ToCome(o)
    \/ run.kind = "paid" /\ run.current /\ o \in run.known
    \/ run.kind = "known" /\ run.stage = "details" /\ o \in run.missing \cup DOMAIN run.got

LEMMA OwedAgain ==
    ASSUME IInv, UNCHANGED <<api, saved>>, run'.owed = run.owed,
           \A o \in DOMAIN run.owed : Pending(o) => Pending(o)'
    PROVE  OwedInv'
BY DEF OwedInv, Pending, IInv, api

LEMMA OwedFromTheStart ==
    ASSUME IInv, BeginCurrent \/ BeginManual
    PROVE  OwedInv'
<1>1. PICK cutoff \in 1..now, from \in Nat, last \in Nat, current \in BOOLEAN :
            Begin(cutoff, from, last, current)
  BY Beginning
<1>2. /\ run' \in RunRecord
      /\ run'.stage = "list" /\ run'.kind = "paid" /\ run'.current = current
      /\ run'.cutoff = cutoff /\ run'.day = from /\ run'.last = last /\ run'.page = 1
      /\ run'.known = (IF current THEN Existing(cutoff) ELSE {})
      /\ run'.owed = Owed(from..last, cutoff, run'.known)
  BY <1>1, Begun DEF IInv
<1>3. UNCHANGED <<now, api, saved>>
  BY <1>1 DEF Begin
<1> DEFINE paid == {o \in Order : listed[o] # 0 /\ paidAt[o] # 0 /\ Day(paidAt[o]) \in from..last
                                  /\ paidAt[o] <= cutoff}
           known == run'.known
<1>4. run'.owed = [o \in paid \cup known |-> listed[o]]
  BY <1>2 DEF Owed
<1>5. ASSUME NEW o \in DOMAIN run'.owed
      PROVE  /\ listed'[o] # 0 /\ run'.owed[o] <= listed'[o]
             /\ Pending(o)'
  <2>1. /\ o \in Order /\ listed[o] \in Nat /\ run'.owed[o] = listed[o] /\ listed[o] # 0
        /\ o \in paid \/ o \in known
    BY <1>2, <1>4 DEF IInv, OrderInv, ShapeInv, Existing
  <2>2. CASE o \in paid
    <3>1. OfDay' \in SUBSET Order
      BY DEF OfDay, PaidIn
    <3>2. Day(paidAt[o]) = from => o \in OfDay'
      <4> SUFFICES ASSUME Day(paidAt[o]) = from
                   PROVE  o \in OfDay'
        OBVIOUS
      <4>1. paidAt[o] \in Nat /\ DayLength \in Nat \ {0}
        BY <2>1, Constants DEF IInv, ShapeInv
      <4> DEFINE m == from * DayLength
                 n == (from + 1) * DayLength
      <4>2. m \in Nat /\ n \in Nat /\ m <= paidAt[o] /\ paidAt[o] < n /\ paidAt[o] <= cutoff
        <5>1. paidAt[o] <= cutoff
          BY <2>2
        <5>2. /\ (paidAt[o] \div DayLength) * DayLength <= paidAt[o]
              /\ paidAt[o] < ((paidAt[o] \div DayLength) + 1) * DayLength
          BY <4>1, Quotient
        <5> QED
          BY <4>1, <5>1, <5>2 DEF Day
      <4>3. run'.day * DayLength = m /\ (run'.day + 1) * DayLength = n
        BY <1>2
      <4> HIDE DEF m, n
      <4>4. To(run') = (IF n - 1 < cutoff THEN n - 1 ELSE cutoff)
        BY <1>2, <4>3 DEF To, Smaller
      <4>5. paidAt[o] \in m..To(run')
        BY <4>1, <4>2, <4>4
      <4>6. o \in {p \in Order : listed'[p] # 0 /\ paidAt'[p] \in m..To(run')}
        BY <1>3, <2>1, <4>5 DEF api
      <4> QED
        BY <4>3, <4>6 DEF OfDay, PaidIn
    <3>3. Day(paidAt[o]) = from => Rank(o, OfDay)' >= (run'.page - 1) * PageSize
      <4>1. ASSUME o \in OfDay'
            PROVE  Rank(o, OfDay)' \in Nat
        <5> DEFINE R == {p \in OfDay' : Before(<<paidAt'[p], p>>, <<paidAt'[o], o>>)}
        <5>1. R \subseteq Order
          BY <3>1
        <5>2. Cardinality(R) \in Nat
          BY <5>1, Constants, FS_Subset, FS_CardinalityType
        <5> QED
          BY <5>2 DEF Rank, Before
      <4>2. (run'.page - 1) * PageSize = 0
        BY <1>2, Constants
      <4> QED
        BY <3>2, <4>1, <4>2
    <3>4. ToCome(o)'
      BY <1>2, <1>3, <2>1, <2>2, <3>3 DEF ToCome, Day, api
    <3> QED
      BY <1>3, <2>1, <3>4 DEF Pending, api
  <2>3. CASE o \in known
    <3>1. run'.current /\ run'.kind = "paid" /\ o \in run'.known
      BY <1>2, <2>3
    <3> QED
      BY <1>3, <2>1, <3>1 DEF Pending, api
  <2> QED
    BY <2>1, <2>2, <2>3
<1> QED
  BY <1>5 DEF OwedInv, Pending

\* An order to come is on the page that is asked for, or still to come.
LEMMA OwedOnAPage ==
    ASSUME IInv, ListPaid, run' # Idle, NEW o \in Order, ToCome(o)
    PROVE  ToCome(o)'
<1>1. /\ run.stage = "list" /\ run.kind = "paid" /\ UNCHANGED api
      /\ run'.stage = "details" /\ run'.missing = PaidPage(OfDay, run.page)
      /\ run'.more = HasNext(OfDay, run.page)
      /\ run'.kind = "paid" /\ run'.cutoff = run.cutoff
      /\ run'.day = run.day /\ run'.last = run.last /\ run'.page = run.page
  BY ListedPaid DEF ListPaid
<1>2. /\ listed[o] # 0 /\ paidAt[o] <= run.cutoff /\ Day(paidAt[o]) \in run.day..run.last
      /\ Day(paidAt[o]) = run.day => Rank(o, OfDay) >= (run.page - 1) * PageSize
  BY <1>1 DEF ToCome
<1>3. OfDay' = OfDay
  BY <1>1 DEF OfDay, PaidIn, To, api
<1>4. Rank(o, OfDay)' = Rank(o, OfDay)
  BY <1>1, <1>3 DEF Rank, api
<1>5. ASSUME Day(paidAt[o]) = run.day
      PROVE  o \in run'.missing \/ (run'.more /\ Rank(o, OfDay) >= run.page * PageSize)
  <2>1. o \in OfDay
    BY <1>2, <1>5, OnTheDay
  <2>2. CASE Rank(o, OfDay) >= run.page * PageSize
    <3>1. Rank(o, OfDay) \in Nat /\ Cardinality(OfDay) \in Nat /\ Rank(o, OfDay) < Cardinality(OfDay)
      BY <2>1, RunFields, Ranks DEF IInv, ShapeInv
    <3>2. run.page * PageSize \in Nat
      BY RunFields
    <3>3. Cardinality(OfDay) > run.page * PageSize
      BY <2>2, <3>1, <3>2
    <3> QED
      BY <1>1, <2>2, <3>3 DEF HasNext
  <2>3. CASE ~(Rank(o, OfDay) >= run.page * PageSize)
    BY <1>1, <1>2, <1>5, <2>1, <2>3, OnThePage
  <2> QED
    BY <2>2, <2>3
<1>6. Day(paidAt[o]) = run.day =>
        \/ o \in run'.missing \cup DOMAIN run'.got
        \/ run'.more /\ Rank(o, OfDay)' >= run'.page * PageSize
  BY <1>1, <1>4, <1>5
<1> QED
  BY <1>1, <1>2, <1>6 DEF ToCome, api

\* What is to come behind a page is still to come when the page is saved.
LEMMA OwedBehindAPage ==
    ASSUME IInv, Deliver, run' # Idle, NEW o \in Order, o \notin DOMAIN run.got, ToCome(o)
    PROVE  ToCome(o)'
<1>1. /\ run.kind = "paid" /\ run.stage = "details" /\ run.missing = {} /\ UNCHANGED api
      /\ run'.stage = "list" /\ run'.kind = "paid" /\ run'.cutoff = run.cutoff
      /\ run'.last = run.last
  BY Delivered DEF ToCome, Deliver
<1>2. \/ run.more /\ run'.day = run.day /\ run'.page = run.page + 1
      \/ ~run.more /\ run'.day = run.day + 1 /\ run'.page = 1
  BY <1>1, Delivered
<1>3. /\ listed[o] # 0 /\ paidAt[o] <= run.cutoff /\ Day(paidAt[o]) \in run.day..run.last
      /\ Day(paidAt[o]) = run.day => run.more /\ Rank(o, OfDay) >= run.page * PageSize
  BY <1>1 DEF ToCome
<1>4. run.day \in Nat /\ run.last \in Nat /\ run.page \in Nat /\ Day(paidAt[o]) \in Nat
  BY <1>3, RunFields
<1>5. CASE run.more
  <2>1. OfDay' = OfDay
    BY <1>1, <1>2, <1>5 DEF OfDay, PaidIn, To, api
  <2>2. Rank(o, OfDay)' = Rank(o, OfDay)
    BY <1>1, <2>1 DEF Rank, api
  <2>3. run'.page - 1 = run.page /\ run'.day = run.day
    BY <1>2, <1>4, <1>5
  <2>4. Day(paidAt[o]) = run.day => Rank(o, OfDay)' >= (run'.page - 1) * PageSize
    BY <1>3, <2>2, <2>3
  <2> QED
    BY <1>1, <1>3, <2>3, <2>4 DEF ToCome, api
<1>6. CASE ~run.more
  <2>1. run'.day = run.day + 1 /\ run'.page = 1
    BY <1>2, <1>6
  <2>2. Day(paidAt[o]) \in run'.day..run'.last
    BY <1>1, <1>3, <1>4, <1>6, <2>1
  <2>3. Rank(o, OfDay)' \in Nat
    <3> DEFINE R == {p \in OfDay' : Before(<<paidAt'[p], p>>, <<paidAt'[o], o>>)}
    <3>1. R \subseteq Order
      BY DEF OfDay, PaidIn
    <3>2. Cardinality(R) \in Nat
      BY <3>1, Constants, FS_Subset, FS_CardinalityType
    <3> QED
      BY <3>2 DEF Rank, Before
  <2>4. (run'.page - 1) * PageSize = 0
    BY <2>1, Constants
  <2>5. Rank(o, OfDay)' >= (run'.page - 1) * PageSize
    BY <2>3, <2>4
  <2> QED
    BY <1>1, <1>3, <2>2, <2>5 DEF ToCome, api
<1> QED
  BY <1>5, <1>6

LEMMA OwedStep ==
    ASSUME IInv, [Next]_vars
    PROVE  OwedInv'
<1>1. OwedInv /\ ShapeInv /\ run.owed \in Partial
  BY RunFields DEF IInv
<1>2. DOMAIN run.owed \subseteq Order /\ \A o \in DOMAIN run.owed : run.owed[o] \in Nat
  BY <1>1 DEF Partial
<1>3. run' = Idle => OwedInv'
  BY IdleRun DEF OwedInv
<1>4. ASSUME NEW p \in Order, Change(p) \/ Publish(p)
      PROVE  OwedInv'
  <2>1. UNCHANGED <<saved, run>>
    BY <1>4 DEF Change, Publish
  <2>2. \A o \in Order : listed[o] # 0 => /\ listed'[o] # 0 /\ paidAt'[o] = paidAt[o]
                                          /\ listed[o] <= listed'[o]
    <3>1. CASE Change(p)
      <4>1. /\ listed' = listed
            /\ paidAt' = [paidAt EXCEPT ![p] = IF paidAt[p] = 0 THEN now ELSE paidAt[p]]
        BY <3>1 DEF Change
      <4>2. listed[p] # 0 => paidAt[p] # 0
        BY DEF IInv, ShapeInv, TypeOK, OrderInv
      <4> QED
        BY <1>1, <4>1, <4>2 DEF ShapeInv
    <3>2. CASE Publish(p)
      <4>1. /\ listed' = [listed EXCEPT ![p] = changedAt[p]] /\ paidAt' = paidAt
            /\ listed[p] < changedAt[p]
        BY <3>2 DEF Publish
      <4> QED
        BY <1>1, <4>1 DEF ShapeInv
    <3> QED
      BY <1>4, <3>1, <3>2
  <2>3. \A o \in Order : ToCome(o) => ToCome(o)'
    BY <2>1, <2>2, StaysToCome
  <2>4. ASSUME NEW o \in DOMAIN run.owed
        PROVE  /\ listed'[o] # 0 /\ run.owed[o] <= listed'[o]
               /\ saved'[o] >= run'.owed[o] \/ Pending(o)'
    <3>1. /\ o \in Order /\ listed[o] # 0 /\ run.owed[o] <= listed[o] /\ run.owed[o] \in Nat
          /\ saved[o] >= run.owed[o] \/ Pending(o)
      BY <1>1, <1>2 DEF OwedInv, Pending
    <3>2. listed[o] \in Nat
      BY <1>1, <3>1 DEF ShapeInv
    <3>3. listed'[o] # 0 /\ run.owed[o] <= listed'[o]
      <4>1. ShapeInv'
        BY <1>4, ShapeStep DEF Next
      <4>2. listed'[o] \in Nat
        BY <3>1, <4>1 DEF ShapeInv
      <4> QED
        BY <2>2, <3>1, <3>2, <4>2
    <3> QED
      BY <2>1, <2>3, <3>1, <3>3 DEF Pending
  <2> QED
    BY <2>1, <2>4 DEF OwedInv, Pending
<1>5. CASE UNCHANGED <<api, saved, run>>
  BY <1>1, <1>5 DEF OwedInv, ToCome, OfDay, PaidIn, To, Rank, api
<1>6. CASE ListPaid
  <2>1. CASE run' # Idle
    <3>1. /\ UNCHANGED <<api, saved>> /\ run'.owed = run.owed
          /\ run'.kind = "paid" /\ run'.current = run.current /\ SamePlan(run', run)
          /\ run.kind = "paid"
      BY <1>6, <2>1, ListedPaid DEF ListPaid
    <3>2. \A o \in DOMAIN run.owed : Pending(o) => Pending(o)'
      BY <1>2, <1>6, <2>1, <3>1, OwedOnAPage DEF Pending
    <3> QED
      BY <3>1, <3>2, OwedAgain
  <2> QED
    BY <1>3, <2>1
<1>7. CASE ListKnown
  <2>1. /\ UNCHANGED <<api, saved>> /\ run'.owed = run.owed
        /\ run'.stage = "details" /\ run'.kind = "known"
        /\ run'.missing = run.known
        /\ run.kind = "paid" /\ run.day > run.last
    BY <1>7, ListedKnown DEF ListKnown
  <2>2. \A o \in Order : ~ToCome(o)
    BY <2>1, RunFields DEF ToCome
  <2>3. \A o \in DOMAIN run.owed : Pending(o) => Pending(o)'
    BY <1>2, <2>1, <2>2 DEF Pending
  <2> QED
    BY <2>1, <2>3, OwedAgain
<1>8. CASE BeginChanges \/ ListChanged
  <2>1. CASE run' # Idle
    <3>1. /\ UNCHANGED <<api, saved>> /\ run'.owed = run.owed
          /\ run.stage = "list" /\ run.kind \in {"known", "changed"}
      BY <1>8, <2>1, BegunChanges, ListedChanged
    <3>2. \A o \in DOMAIN run.owed : ~Pending(o)
      BY <3>1 DEF Pending, ToCome
    <3> QED
      BY <3>1, <3>2, OwedAgain
  <2> QED
    BY <1>3, <2>1
<1>9. CASE FetchDetails
  <2>1. CASE run' # Idle
    <3>1. /\ UNCHANGED <<api, saved>> /\ run'.owed = run.owed
          /\ run.stage = "details" /\ run'.stage = "details"
          /\ run'.missing \cup DOMAIN run'.got = run.missing \cup DOMAIN run.got
          /\ run'.kind = run.kind /\ run'.current = run.current /\ run'.cutoff = run.cutoff
          /\ run'.day = run.day /\ run'.last = run.last /\ run'.page = run.page
          /\ run'.more = run.more /\ SamePlan(run', run)
      BY <1>9, <2>1, Fetched
    <3>2. OfDay' = OfDay /\ \A o : Rank(o, OfDay)' = Rank(o, OfDay)
      BY <3>1 DEF OfDay, PaidIn, To, Rank, api
    <3>3. \A o : ToCome(o) => ToCome(o)'
      BY <3>1, <3>2 DEF ToCome, api
    <3>4. \A o \in DOMAIN run.owed : Pending(o) => Pending(o)'
      BY <3>1, <3>3 DEF Pending
    <3> QED
      BY <3>1, <3>4, OwedAgain
  <2> QED
    BY <1>3, <2>1
<1>10. CASE Deliver
  <2>1. CASE run' # Idle
    <3>1. /\ UNCHANGED api /\ run'.owed = run.owed
          /\ run.stage = "details" /\ run.missing = {}
          /\ saved' = [o \in Order |-> IF o \in DOMAIN run.got THEN run.got[o] ELSE saved[o]]
          /\ run'.kind = run.kind /\ run'.current = run.current /\ SamePlan(run', run)
      BY <1>10, <2>1, Delivered
    <3>2. ASSUME NEW o \in DOMAIN run.owed
          PROVE  saved'[o] >= run'.owed[o] \/ Pending(o)'
      <4>1. o \in Order
        BY <1>2
      <4>2. CASE o \in DOMAIN run.got
        BY <3>1, <4>1, <4>2 DEF IInv, GotInv
      <4>3. CASE o \notin DOMAIN run.got
        <5>1. saved'[o] = saved[o]
          BY <3>1, <4>1, <4>3
        <5>2. saved[o] >= run.owed[o] \/ Pending(o)
          BY <1>1 DEF OwedInv, Pending
        <5>3. Pending(o) => Pending(o)'
          BY <1>10, <2>1, <3>1, <4>1, <4>3, <5>1, OwedBehindAPage DEF Pending
        <5> QED
          BY <3>1, <5>1, <5>2, <5>3
      <4> QED
        BY <4>2, <4>3
    <3> QED
      BY <1>1, <3>1, <3>2 DEF OwedInv, Pending, api
  <2> QED
    BY <1>3, <2>1
<1>11. CASE Complete \/ Break
  BY <1>3, <1>11 DEF Complete, Break, Fail
<1>12. Tick \/ Acknowledge \/ UNCHANGED vars => UNCHANGED <<api, saved, run>>
  BY DEF Tick, Acknowledge, vars
<1> QED
  BY <1>4, <1>5, <1>6, <1>7, <1>8, <1>9, <1>10, <1>11, <1>12, OwedFromTheStart DEF Next

-----------------------------------------------------------------------------
(* The theorems.                                                           *)

\* The inductive invariant is established and kept.
THEOREM Invariance == Spec => []IInv
<1>1. Init => IInv
  <2> SUFFICES ASSUME Init
               PROVE  IInv
    OBVIOUS
  <2>1. /\ ShapeInv /\ OrderInv /\ LateInv
    BY IdleRun, Constants DEF Init, ShapeInv, OrderInv, LateInv
  <2>2. TypeOK
    BY IdleRun, Constants DEF Init, TypeOK, DetailAttempts
  <2>3. PastInv /\ GotInv /\ OwedInv /\ AheadInv /\ NothingMissed
    BY IdleRun DEF Init, PastInv, GotInv, OwedInv, AheadInv, NothingMissed
  <2>4. PlanInv /\ GapsInv
    BY IdleRun DEF Init, PlanInv, GapsInv
  <2> QED
    BY <2>1, <2>2, <2>3, <2>4 DEF IInv
<1>2. IInv /\ [Next]_vars => IInv'
  <2> SUFFICES ASSUME IInv, [Next]_vars
               PROVE  IInv'
    OBVIOUS
  <2>1. ShapeInv' /\ TypeOK' /\ OrderInv' /\ LateInv' /\ PastInv'
    BY ShapeStep, TypeStep, OrderStep, LateStep, PastStep
  <2>2. GotInv' /\ AheadInv' /\ NothingMissed' /\ OwedInv'
    BY GotStep, AheadStep, MissedStep, OwedStep
  <2>3. PlanInv' /\ GapsInv'
    BY PlanStep, GapsStep
  <2> QED
    BY <2>1, <2>2, <2>3 DEF IInv
<1> QED
  BY <1>1, <1>2, PTL DEF Spec

\* Nothing is listed or saved before it happened, and pages and tries stay
\* within the limits of streamOrderItems.
THEOREM TypeCorrect == Spec => []TypeOK
<1>1. IInv => TypeOK
  BY DEF IInv
<1> QED
  BY <1>1, Invariance, PTL

\* No change before the watermark, less the overlap, is missed by the runs of
\* streamOrderItems that moved it, but in a gap that the operator gave up.
THEOREM NoChangeIsMissed == Spec => []NothingMissed
<1>1. IInv => NothingMissed
  BY DEF IInv
<1> QED
  BY <1>1, Invariance, PTL

\* A run of streamOrderItems that reads to the end has saved what was listed
\* on its days when it began and, if it is the first or has lost touch, the
\* orders known before.
THEOREM OwedOrdersAreSaved == Spec => OwedIsSaved
<1>1. IInv => \A o \in DOMAIN run.owed : Complete => saved[o] >= run.owed[o]
  <2> SUFFICES ASSUME IInv, NEW o \in DOMAIN run.owed, Complete
               PROVE  saved[o] >= run.owed[o]
    OBVIOUS
  <2>1. saved[o] >= run.owed[o] \/ Pending(o)
    BY DEF IInv, OwedInv, Pending
  <2>2. /\ run.stage = "list"
        /\ (run.kind = "paid" /\ run.day > run.last /\ ~run.current) \/ run.kind = "changed"
    BY DEF Complete
  <2>3. ~Pending(o)
    BY <2>2, RunFields DEF Pending, ToCome
  <2> QED
    BY <2>1, <2>3
<1>2. IInv /\ [Next]_vars => [\A o \in DOMAIN run.owed : Complete => saved[o] >= run.owed[o]]_vars
  BY <1>1
<1> QED
  BY <1>2, Invariance, PTL DEF Spec, OwedIsSaved
=============================================================================
