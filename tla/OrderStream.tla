---------------------------- MODULE OrderStream ----------------------------
(***************************************************************************)
(* How a run reads the orders of a store: streamOrderItems of              *)
(* naver-commerce.service.ts, from the watermark to the cutoff.            *)
(*                                                                         *)
(* An order is paid once and changes later; the API lists a change after a *)
(* while and lists each order at its latest change only. A run reads the   *)
(* payments of its days by page number, the orders it already knows if it  *)
(* is the first or has lost touch, and the changes since the watermark by  *)
(* cursor, in windows. A run that has lost touch, for the watermark is too *)
(* old, ends with a gap; the operator may acknowledge it. Times are ticks, *)
(* versions of an order the times of its changes, and orders stand for     *)
(* their sequence numbers.                                                 *)
(***************************************************************************)
EXTENDS Naturals, FiniteSets

CONSTANTS
    Order,      \* the orders: numbers from 1
    DayLength,
    Window,     \* 24 hours of changes
    Overlap,    \* five minutes read again before the watermark
    Settle,     \* five seconds that the API is given to publish
    Lookback,   \* 30 days: how far a run looks back for changes
    Recent,     \* 29 days: how far before the cutoff its days begin
    PageSize,
    MaxPages,   \* pages of one list
    MaxTime,    \* bound on the clock
    MaxChanges, \* bound on changes
    MaxRuns     \* bound on runs

ASSUME OrderAssumption == Order \subseteq Nat \ {0} /\ IsFiniteSet(Order)
ASSUME TimeAssumption ==
    /\ {Overlap, Settle, Lookback, Recent, MaxChanges, MaxRuns} \subseteq Nat
    /\ {DayLength, Window, PageSize, MaxPages, MaxTime} \subseteq Nat \ {0}
    /\ Overlap + Settle > 0

VARIABLES
    now,
    paidAt,     \* when each order was paid, 0 for never
    changedAt,  \* its latest change
    listed,     \* the change at which the API lists it
    saved,      \* the version that was saved last
    watermark,  \* lastSuccessfulChangedTo, or the acknowledged baseline if later
    readFrom,   \* where the first run began to read changes
    gaps,       \* gaps that runs ended with, not acknowledged yet
    unread,     \* historicalCoverageGap: the range of those acknowledged
    run,        \* the run under way
    changes,    \* changes so far
    runs        \* runs so far

api == <<paidAt, changedAt, listed, changes>>
coverage == <<watermark, readFrom, gaps, unread>>
vars == <<now, api, saved, coverage, run, runs>>

Time == 0..MaxTime
Day(t) == t \div DayLength
DetailAttempts == 2

\* Positions in the list of changes, by time and then by sequence number.
Key(o) == <<listed[o], o>>
Before(a, b) == a[1] < b[1] \/ (a[1] = b[1] /\ a[2] < b[2])
IsFirst(k, S) == \A l \in S : k = l \/ Before(k, l)

Idle == [stage |-> "idle", kind |-> "none", current |-> FALSE, cutoff |-> 0,
         day |-> 0, last |-> 0, page |-> 1, start |-> 0, cursor |-> <<0, 0>>,
         next |-> <<0, 0>>, more |-> FALSE, seen |-> {}, got |-> <<>>,
         missing |-> {}, tries |-> 0, owed |-> <<>>,
         from |-> 0, gap |-> 0, known |-> {}]

-----------------------------------------------------------------------------
Init ==
    /\ now = 1
    /\ paidAt = [o \in Order |-> 0]
    /\ changedAt = [o \in Order |-> 0]
    /\ listed = [o \in Order |-> 0]
    /\ saved = [o \in Order |-> 0]
    /\ watermark = 0
    /\ readFrom = 0
    /\ gaps = {}
    /\ unread = [from |-> 0, to |-> 0]
    /\ run = Idle
    /\ changes = 0
    /\ runs = 0

\* An order is paid, or changes again.
Change(o) ==
    /\ changes < MaxChanges
    /\ changedAt[o] < now
    /\ changes' = changes + 1
    /\ changedAt' = [changedAt EXCEPT ![o] = now]
    /\ paidAt' = [paidAt EXCEPT ![o] = IF @ = 0 THEN now ELSE @]
    /\ UNCHANGED <<now, listed, saved, coverage, run, runs>>

Publish(o) ==
    /\ listed[o] < changedAt[o]
    /\ listed' = [listed EXCEPT ![o] = changedAt[o]]
    /\ UNCHANGED <<now, paidAt, changedAt, changes, saved, coverage, run, runs>>

\* A change is listed before the overlap and the delay allowed for are over.
Tick ==
    /\ now < MaxTime
    /\ \A o \in Order : listed[o] < changedAt[o] => now + 1 < changedAt[o] + Overlap + Settle
    /\ now' = now + 1
    /\ UNCHANGED <<api, saved, coverage, run, runs>>

-----------------------------------------------------------------------------
(* A run begins.                                                           *)

Fail == run' = Idle /\ UNCHANGED <<saved, watermark>>

FirstRun == watermark = 0

\* More has changed since the watermark than a run may look back at.
LostTouch(cutoff) == watermark # 0 /\ watermark + Lookback < cutoff

Minus(a, b) == IF a > b THEN a - b ELSE 0

ChangedFrom(cutoff) ==
    IF FirstRun \/ LostTouch(cutoff) THEN Minus(cutoff, Lookback) ELSE watermark

\* The orders that a run asks for by their ids.
Existing(cutoff) ==
    {o \in Order : saved[o] # 0 /\ (FirstRun \/ LostTouch(cutoff))}

\* The orders a run has to read besides the changes, at their listed version.
Owed(days, cutoff, known) ==
    LET paid == {o \in Order : listed[o] # 0 /\ paidAt[o] # 0 /\ Day(paidAt[o]) \in days
                               /\ paidAt[o] <= cutoff}
    IN  [o \in paid \cup known |-> listed[o]]

\* A gap is known by the watermark before it.
Begin(cutoff, from, last, current) ==
    LET known == IF current THEN Existing(cutoff) ELSE {} IN
    /\ run.stage = "idle"
    /\ runs < MaxRuns
    /\ now + Settle <= MaxTime
    /\ runs' = runs + 1
    /\ run' = [Idle EXCEPT !.stage = "list", !.kind = "paid", !.current = current,
                           !.cutoff = cutoff, !.day = from, !.last = last,
                           !.from = IF current THEN ChangedFrom(cutoff) ELSE 0,
                           !.gap = IF current /\ LostTouch(cutoff) THEN watermark ELSE 0,
                           !.known = known,
                           !.owed = Owed(from..last, cutoff, known)]
    /\ UNCHANGED <<now, api, saved, coverage>>

\* Days of the last weeks and the changes since the watermark.
BeginCurrent ==
    \E cutoff \in {now - 1, now} \ {0} :
        Begin(cutoff, Day(Minus(cutoff, Recent)), Day(cutoff), TRUE)

\* Days that were asked for.
BeginManual == \E day \in 0..Day(now) : Begin(now, day, day, FALSE)

-----------------------------------------------------------------------------
(* Pages of ids.                                                           *)

\* What the API may answer to a page that was numbered: the page, or one
\* that it has sent before.
PaidIn(from, to) == {o \in Order : listed[o] # 0 /\ paidAt[o] \in from..to}
Rank(o, S) == Cardinality({p \in S : Before(<<paidAt[p], p>>, <<paidAt[o], o>>)})
PaidPage(S, page) == {o \in S : Rank(o, S) \div PageSize = page - 1}

Smaller(a, b) == IF a < b THEN a ELSE b

\* The end of the day being read.
To(r) == Smaller((r.day + 1) * DayLength - 1, r.cutoff)

\* Variant: a full page is taken for the last one.
NeverMore(S, page) == FALSE

HasNext(S, page) == Cardinality(S) > page * PageSize

\* The chunk of a page: its details are asked for.
Ask(ids) == [run EXCEPT !.stage = "details", !.missing = ids, !.got = <<>>, !.tries = 0]

ListPaid ==
    /\ run.stage = "list"
    /\ run.kind = "paid"
    /\ run.day <= run.last
    /\ LET S == PaidIn(run.day * DayLength, To(run)) IN
        \E ids \in {PaidPage(S, run.page)} \cup run.seen :
            IF IF ids = {} THEN HasNext(S, run.page) ELSE ids \in run.seen
            THEN Fail
            ELSE /\ run' = [Ask(ids) EXCEPT !.seen = @ \cup {ids},
                                            !.more = HasNext(S, run.page)]
                 /\ UNCHANGED <<saved, watermark>>
    /\ UNCHANGED <<now, api, readFrom, gaps, unread, runs>>

\* The orders known when the run began are read once more; the changes follow.
ListKnown ==
    /\ run.stage = "list"
    /\ run.kind = "paid"
    /\ run.day > run.last
    /\ run.current
    /\ run' = [Ask(run.known) EXCEPT !.kind = "known", !.seen = {}, !.more = FALSE]
    /\ UNCHANGED <<now, api, saved, coverage, runs>>

\* Variant: the changes before the watermark are not read again.
FromTheWatermark(from) == from

\* Some changes before the watermark are read again, for those listed late.
WithOverlap(from) == Minus(from, Overlap)

Settled(cutoff) == now >= cutoff + Settle

\* The API is given time to list the last changes before the cutoff.
BeginChanges ==
    /\ run.stage = "list"
    /\ run.kind = "known"
    /\ Settled(run.cutoff)
    /\ IF run.from > run.cutoff
       THEN Fail /\ UNCHANGED readFrom
       ELSE /\ readFrom' = IF FirstRun THEN WithOverlap(run.from) ELSE readFrom
            /\ run' = [run EXCEPT !.kind = "changed", !.start = WithOverlap(run.from),
                                  !.cursor = <<WithOverlap(run.from), 0>>, !.page = 1, !.seen = {}]
            /\ UNCHANGED <<saved, watermark>>
    /\ UNCHANGED <<now, api, gaps, unread, runs>>

End(r) == Smaller(r.start + Window - 1, r.cutoff)

\* What is still to be listed, from a cursor to the end of the window.
Ahead(cursor, end) ==
    {Key(o) : o \in {p \in Order : listed[p] # 0 /\ listed[p] <= end
                                    /\ ~Before(Key(p), cursor)}}
PageOf(S) == {k \in S : Cardinality({l \in S : Before(l, k)}) < PageSize}

\* The API gives the cursor of the rest, or one that leads back.
Cursors(S) ==
    {c \in (Time \X Order) : \E k \in S \ PageOf(S) :
        IsFirst(k, S \ PageOf(S)) /\ c[1] <= k[1] /\ ~Before(k, c)}

\* A cursor that repeats, leads back before the page or past the window, or
\* follows the last page allowed for, ends the stream.
Follows(c) ==
    /\ c \notin run.seen
    /\ c[1] >= run.cursor[1]
    /\ c[1] <= End(run)
    /\ run.page < MaxPages

ListChanged ==
    /\ run.stage = "list"
    /\ run.kind = "changed"
    /\ run.start <= run.cutoff
    /\ LET S == Ahead(run.cursor, End(run))
           asked == Ask({k[2] : k \in PageOf(S)})
       IN  IF PageOf(S) = S
           THEN run' = [asked EXCEPT !.more = FALSE]
           ELSE \E c \in Cursors(S) : run' = [asked EXCEPT !.more = TRUE, !.next = c]
    /\ UNCHANGED <<now, api, saved, coverage, runs>>

-----------------------------------------------------------------------------
(* Details of a page, and its chunk.                                       *)

\* Variant: details that are missing are done without.
DoWithout(missing) == FALSE

GivenUp(missing) == missing # {} /\ run.tries + 1 = DetailAttempts

\* The version of an order's details is no older than the listed one.
Versions(o) == {listed[o], changedAt[o]}

\* Some of the details arrive.
FetchDetails ==
    /\ run.stage = "details"
    /\ run.missing # {}
    /\ run.tries < DetailAttempts
    /\ \E found \in SUBSET run.missing :
        \E got \in [found -> Time] :
            /\ \A o \in found : got[o] \in Versions(o)
            /\ IF GivenUp(run.missing \ found)
               THEN Fail
               ELSE /\ run' = [run EXCEPT
                        !.missing = @ \ found,
                        !.tries = @ + 1,
                        !.got = [o \in found \cup DOMAIN run.got |->
                                    IF o \in found THEN got[o] ELSE run.got[o]]]
                    /\ UNCHANGED <<saved, watermark>>
    /\ UNCHANGED <<now, api, readFrom, gaps, unread, runs>>

\* The place after a chunk: the next page, day, window or kind.
AfterPaid ==
    IF run.more
    THEN [run EXCEPT !.page = @ + 1]
    ELSE [run EXCEPT !.page = 1, !.seen = {}, !.day = @ + 1]

AfterChanged ==
    IF run.more
    THEN [run EXCEPT !.page = @ + 1, !.cursor = run.next, !.seen = @ \cup {run.next}]
    ELSE [run EXCEPT !.page = 1, !.seen = {}, !.start = End(run) + 1,
                     !.cursor = <<End(run) + 1, 0>>]

\* The chunk is saved, and what follows it may be the end of the stream.
Deliver ==
    /\ run.stage = "details"
    /\ run.missing = {}
    /\ saved' = [o \in Order |-> IF o \in DOMAIN run.got THEN run.got[o] ELSE saved[o]]
    /\ LET next == CASE run.kind = "paid" -> AfterPaid
                     [] run.kind = "known" -> run
                     [] OTHER -> AfterChanged
           lost == CASE run.kind = "paid" -> run.more /\ run.page = MaxPages
                     [] run.kind = "known" -> FALSE
                     [] OTHER -> run.more /\ ~Follows(run.next)
       IN  run' = IF lost THEN Idle
                  ELSE [next EXCEPT !.stage = "list", !.got = <<>>, !.missing = {}, !.tries = 0,
                                    !.more = FALSE, !.next = <<0, 0>>]
    /\ UNCHANGED <<now, api, coverage, runs>>

Larger(a, b) == IF a > b THEN a ELSE b

\* The stream is over. A run with a gap fails with it; any other succeeds, and
\* moves the watermark if it is a current one.
Complete ==
    /\ run.stage = "list"
    /\ \/ run.kind = "paid" /\ run.day > run.last /\ ~run.current
       \/ run.kind = "changed" /\ run.start > run.cutoff
    /\ IF run.gap # 0
       THEN /\ gaps' = gaps \cup {[from |-> run.gap, to |-> run.from, cutoff |-> run.cutoff]}
            /\ UNCHANGED watermark
       ELSE /\ watermark' = IF run.current THEN Larger(watermark, run.cutoff) ELSE watermark
            /\ UNCHANGED gaps
    /\ run' = Idle
    /\ UNCHANGED <<now, api, saved, readFrom, unread, runs>>

\* The range of all that was acknowledged.
Widened(g) ==
    [from |-> IF unread.to # 0 THEN Smaller(unread.from, g.from) ELSE g.from,
     to |-> Larger(unread.to, g.to)]

\* The operator gives up the changes of a gap, even while another run goes on.
Acknowledge ==
    \E g \in gaps :
        /\ watermark' = Larger(watermark, g.cutoff)
        /\ unread' = Widened(g)
        /\ gaps' = gaps \ {g}
        /\ UNCHANGED <<now, api, saved, readFrom, run, runs>>

\* A request fails for good, the run is aborted or loses its lease.
Break ==
    /\ run.stage # "idle"
    /\ Fail
    /\ UNCHANGED <<now, api, readFrom, gaps, unread, runs>>

Next ==
    \/ \E o \in Order : Change(o) \/ Publish(o)
    \/ Tick
    \/ BeginCurrent
    \/ BeginManual
    \/ ListPaid
    \/ ListKnown
    \/ BeginChanges
    \/ ListChanged
    \/ FetchDetails
    \/ Deliver
    \/ Complete
    \/ Acknowledge
    \/ Break

\* Requests are answered, changes are published and time goes on.
Fairness ==
    /\ WF_vars(ListPaid) /\ WF_vars(ListKnown) /\ WF_vars(BeginChanges)
    /\ WF_vars(ListChanged) /\ WF_vars(FetchDetails) /\ WF_vars(Deliver) /\ WF_vars(Complete)
    /\ WF_vars(Tick) /\ \A o \in Order : WF_vars(Publish(o))

Spec == Init /\ [][Next]_vars /\ Fairness

-----------------------------------------------------------------------------
(* Properties.                                                             *)

\* Nothing is listed or saved before it happened, and a page stays within the
\* pages allowed for.
TypeOK ==
    /\ now \in 1..MaxTime
    /\ \A o \in Order :
        /\ paidAt[o] <= changedAt[o] /\ changedAt[o] <= now
        /\ listed[o] <= changedAt[o]
        /\ saved[o] <= changedAt[o]
    /\ watermark \in 0..now
    /\ readFrom \in 0..now
    /\ run.stage \in {"idle", "list", "details"}
    /\ run.kind \in {"none", "paid", "known", "changed"}
    /\ run.page \in 1..MaxPages
    /\ run.missing \subseteq Order
    /\ run.tries \in 0..DetailAttempts
    /\ changes \in 0..MaxChanges
    /\ runs \in 0..MaxRuns

\* A change whose place in the list falls into the range that was given up.
GivenAway(o) == unread.from < changedAt[o] + Overlap /\ changedAt[o] + Overlap < unread.to

\* No change is missed: once a successful run or an acknowledgement has moved
\* the watermark past it by the overlap, every change the runs were to read is
\* saved, or falls into the gap shown to the operator, although changes are
\* listed late, orders move in the list while it is read, pages and windows
\* meet, details are missing, earlier runs broke off and runs lost touch.
NothingMissed ==
    \A o \in Order :
        /\ changedAt[o] # 0
        /\ changedAt[o] >= readFrom
        /\ changedAt[o] + Overlap <= watermark
        /\ ~GivenAway(o)
        => saved[o] = changedAt[o]

\* A run that reads to the end has saved every order that was listed as paid
\* on its days when it began and, if it is the first or has lost touch, every
\* order known before, at least as it was listed then.
OwedIsSaved ==
    [][\A o \in DOMAIN run.owed : Complete => saved[o] >= run.owed[o]]_vars

\* Every run ends, although the API may repeat pages, lead back in the list
\* and withhold details.
EveryRunEnds == run.stage # "idle" ~> run.stage = "idle"
=============================================================================
