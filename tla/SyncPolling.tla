---------------------------- MODULE SyncPolling ----------------------------
(***************************************************************************)
(* The browser's side of order synchronisation: order-sync-provider.tsx in *)
(* every open tab. A tab sends requests whose answers may be lost, polls   *)
(* for the batches that it shows, and tells the other tabs of answers.     *)
(*                                                                         *)
(* A batch is the number of the idempotency key it was asked for with; its *)
(* updatedAt is a stamp that grows with each change the server makes.      *)
(***************************************************************************)
EXTENDS Naturals, FiniteSets

CONSTANTS
    Tab,
    MaxBatches,     \* bound on keys
    MaxStamp,       \* bound on changes of a batch
    MaxFaults,      \* bound on requests that fail and pages that are loaded again
    MaxActions,     \* bound on what users do besides asking for batches
    Recent          \* batches in the recent list, and over ones that are kept

\* Who has made a key that no tab of the model has made.
NoTab == "none"
Other == "other"

ASSUME TabBounds ==
    /\ {MaxBatches, MaxFaults, MaxActions} \subseteq Nat
    /\ {MaxStamp, Recent} \subseteq Nat \ {0}
ASSUME TabAssumption == {NoTab, Other} \cap Tab = {}

VARIABLES
    made,       \* the place of each batch in the order of creation, 0 for none
    stamp,      \* updatedAt of each batch
    overAt,     \* the stamp with which a batch was over, 0 while it is active
    wire,       \* requests under way to the server
    owner,      \* the tab that made each key
    settled,    \* keys whose outcome their tab has learnt
    pendingRequest, \* the request each tab has stored, 0 or a batch
    post,       \* what each tab is sending
    known,      \* the stamp of each batch that each tab shows, 0 for none
    watched,    \* ids each tab follows
    refresh,    \* ids each tab was told to read again
    url,        \* the batch in the address of each tab, or 0
    poll,       \* the polling of each tab
    news,       \* the stamp of each batch that each tab has reason to show
    faults,
    actions

server == <<made, stamp, overAt>>
sending == <<wire, owner, settled, pendingRequest, post>>
shown == <<known, watched, url>>
tabVars == <<server, sending, shown, refresh, poll, news, faults, actions>>

Batch == 1..MaxBatches
Attempts == 2
Nothing == [b \in Batch |-> 0]

-----------------------------------------------------------------------------
(* The server, as the tabs see it.                                         *)

Exists(b) == made[b] > 0
Over(b, s) == overAt[b] > 0 /\ s >= overAt[b]
Active(b) == Exists(b) /\ overAt[b] = 0
Newer(b) == {c \in Batch : made[c] > made[b]}
Created(b) == [made EXCEPT ![b] = IF @ > 0 THEN @ ELSE 1 + Cardinality({c \in Batch : Exists(c)})]

ActiveList == {b \in Batch : Active(b)}
RecentList == {b \in Batch : Exists(b) /\ Cardinality(Newer(b)) < Recent}

Progress(b) ==
    /\ Active(b)
    /\ stamp[b] < MaxStamp
    /\ stamp' = [stamp EXCEPT ![b] = @ + 1]
    /\ \E over \in BOOLEAN :
        /\ over \/ stamp'[b] + 1 < MaxStamp
        /\ overAt' = [overAt EXCEPT ![b] = IF over THEN stamp'[b] ELSE 0]
    /\ UNCHANGED <<made, sending, shown, refresh, poll, news, faults, actions>>

-----------------------------------------------------------------------------
(* What a tab shows.                                                       *)

\* Variant: the last answer to arrive is shown.
LastAnswer(t, answers) ==
    [b \in Batch |-> IF answers[b] > 0 THEN answers[b] ELSE known[t][b]]

\* An answer that is older than what is shown is ignored.
Newest(t, answers) ==
    [b \in Batch |-> IF answers[b] > known[t][b] THEN answers[b] ELSE known[t][b]]

\* Of the batches that are over, the most recent and the selected one stay.
Kept(all, selected) ==
    LET over == {b \in Batch : all[b] > 0 /\ Over(b, all[b]) /\ b # selected} IN
    [b \in Batch |-> IF b \in over /\ Cardinality(Newer(b) \cap over) >= Recent THEN 0 ELSE all[b]]

\* The tab shows the answers. All follow what was told: this tab because it is
\* now in its address, the others because of the event.
Accept(t, answers, selected, told) ==
    LET all == Newest(t, answers)
        kept == Kept(all, selected)
        dropped == {b \in Batch : all[b] > 0 /\ kept[b] = 0}
    IN
    /\ known' = [known EXCEPT ![t] = kept]
    /\ watched' = [u \in Tab |->
        told \cup IF u = t THEN (watched[t] \cup {b \in Batch : answers[b] > 0}) \ dropped
                          ELSE watched[u]]

ShownActive(b, k) == k[b] > 0 /\ ~Over(b, k[b])
HasActive(k) == \E b \in Batch : ShownActive(b, k)

-----------------------------------------------------------------------------
(* Polling.                                                                *)

InFlight == {"list", "active", "ids"}

Asleep == [pc |-> "asleep", wake |-> FALSE, hist |-> FALSE, recent |-> FALSE, initial |-> TRUE,
           failed |-> FALSE, received |-> Nothing, refreshed |-> {}, late |-> {}]

Started(p) == [p EXCEPT !.pc = "list", !.wake = FALSE, !.recent = p.initial \/ p.hist, !.hist = FALSE]

\* A wake starts a poll, or another one after the poll that is under way.
Woken(p, history) ==
    IF p.pc \in InFlight
    THEN [p EXCEPT !.wake = TRUE, !.hist = @ \/ history]
    ELSE Started([p EXCEPT !.hist = @ \/ history])

Loaded == Started(Asleep)

Become(t, p) == poll' = [poll EXCEPT ![t] = p]

KeepsPolling(p, k) == p.wake \/ p.failed \/ HasActive(k)

\* What remains of a poll when it is over.
Rest(p, k) == [p EXCEPT !.pc = IF KeepsPolling(p, k) THEN "timer" ELSE "asleep",
                        !.recent = FALSE, !.received = Nothing, !.refreshed = {}, !.late = {}]

Timer(t) ==
    /\ poll[t].pc = "timer"
    /\ Become(t, Started(poll[t]))
    /\ UNCHANGED <<server, sending, shown, refresh, news, faults, actions>>

\* The window gets the focus, the network is back.
Resume(t) ==
    /\ Become(t, Woken(poll[t], FALSE))
    /\ UNCHANGED <<server, sending, shown, refresh, news, faults, actions>>

Read(p, ids) == [p EXCEPT !.received = [b \in Batch |-> IF b \in ids THEN stamp[b] ELSE @[b]]]

\* The recent batches, when they are asked for.
FetchRecent(t) ==
    /\ poll[t].pc = "list"
    /\ poll[t].recent
    /\ Become(t, [Read(poll[t], RecentList) EXCEPT !.pc = "active"])
    /\ UNCHANGED <<server, sending, shown, refresh, news, faults, actions>>

\* The active batches; their pages are read as one.
FetchActive(t) ==
    /\ poll[t].pc = "active" \/ (poll[t].pc = "list" /\ ~poll[t].recent)
    /\ Become(t, [Read(poll[t], ActiveList) EXCEPT !.pc = "ids"])
    /\ UNCHANGED <<server, sending, shown, refresh, news, faults, actions>>

\* A followed batch that no list held, or that the tab was told of, is read
\* by itself.
Missing(t, b) == poll[t].received[b] = 0 /\ (known[t][b] = 0 \/ ShownActive(b, known[t]))
ToVisit(t) == watched[t] \ poll[t].refreshed

FetchOne(t) ==
    /\ poll[t].pc = "ids"
    /\ \E b \in ToVisit(t) :
        /\ b \in refresh[t] \/ Missing(t, b)
        /\ refresh' = [refresh EXCEPT ![t] = @ \ {b}]
        /\ Become(t, [Read(poll[t], {b}) EXCEPT !.refreshed = @ \cup {b}, !.late = @ \ {b}])
    /\ UNCHANGED <<server, sending, shown, news, faults, actions>>

\* A batch that the tab was told of after its turn waits for the next poll,
\* which the same event has asked for.
EndPoll(t) ==
    /\ poll[t].pc = "ids"
    /\ \A b \in ToVisit(t) : ~Missing(t, b) /\ b \notin refresh[t] \ poll[t].late
    /\ Accept(t, poll[t].received, url[t], {})
    /\ Become(t, Rest([poll[t] EXCEPT !.failed = FALSE, !.initial = FALSE], known'[t]))
    /\ UNCHANGED <<server, sending, url, refresh, news, faults, actions>>

\* Variant: ids that were read in vain are not read again.
ReadOnce(t) == refresh[t]

ReadAgain(t) == refresh[t] \cup poll[t].refreshed

\* One request fails, and with it the poll: nothing of it is shown.
PollFails(t) ==
    LET p == poll[t] IN
    /\ faults < MaxFaults
    /\ faults' = faults + 1
    /\ p.pc \in InFlight
    /\ refresh' = [refresh EXCEPT ![t] = ReadAgain(t)]
    /\ Become(t, Rest([p EXCEPT !.failed = TRUE, !.hist = @ \/ p.recent], known[t]))
    /\ UNCHANGED <<server, sending, shown, news, actions>>

\* A storage event tells tabs of a batch: they read it again.
ToldOf(p, b) == Woken([p EXCEPT !.late = IF p.pc = "ids" THEN @ \cup {b} ELSE @], FALSE)
Tell(tabs, b) == refresh' = [u \in Tab |-> IF u \in tabs THEN refresh[u] \cup {b} ELSE refresh[u]]

-----------------------------------------------------------------------------
(* Requests: a new batch, or something about a batch that is over.         *)

NoPost == [pc |-> "idle", batch |-> 0, attempt |-> 0, stamp |-> 0]
Request(t, b, n) == [tab |-> t, batch |-> b, attempt |-> n]

Send(t, b) ==
    /\ post[t].pc = "idle"
    /\ pendingRequest' = [pendingRequest EXCEPT ![t] = b]
    /\ post' = [post EXCEPT ![t] = [NoPost EXCEPT !.pc = "waiting", !.batch = b, !.attempt = 1]]
    /\ wire' = wire \cup {Request(t, b, 1)}

Unused == {b \in Batch : owner[b] = NoTab}

\* Variant: every submission has a key of its own.
NewKey(t) == Unused

\* A submission while a request is pending sends that request again.
KeyFor(t) == IF pendingRequest[t] # 0 THEN {pendingRequest[t]} ELSE Unused

Submit(t) ==
    /\ \E b \in KeyFor(t) :
        /\ \A c \in Unused : b \in Unused => b <= c
        /\ Send(t, b)
        /\ owner' = [owner EXCEPT ![b] = IF b \in Unused THEN t ELSE @]
    /\ UNCHANGED <<server, settled, shown, refresh, poll, news, faults, actions>>

\* retry-summary and the like, of a batch that is shown as over.
SubmitSummary(t) ==
    /\ actions < MaxActions
    /\ actions' = actions + 1
    /\ pendingRequest[t] = 0
    /\ \E b \in Batch : known[t][b] > 0 /\ Over(b, known[t][b]) /\ Send(t, b)
    /\ UNCHANGED <<server, owner, settled, shown, refresh, poll, news, faults>>

Reply(r, pc, s) ==
    post' = [post EXCEPT ![r.tab] =
        IF @.pc = "waiting" /\ @.batch = r.batch /\ @.attempt = r.attempt
        THEN [@ EXCEPT !.pc = pc, !.stamp = s] ELSE @]

\* A request with a key is the one that asks for the batch of that key.
ForNewBatch(r) == owner[r.batch] = r.tab /\ r.batch \notin settled

\* The server handles a request, perhaps after its tab has given it up. The
\* batch of a key that it has seen before is answered as it is; the summaries
\* of one that is over are made again.
Handle(r) ==
    LET b == r.batch IN
    /\ wire' = wire \ {r}
    /\ made' = Created(b)
    /\ stamp' = [stamp EXCEPT ![b] = IF ~Exists(b)
                                        \/ (~ForNewBatch(r) /\ overAt[b] > 0 /\ @ < MaxStamp)
                                     THEN @ + 1 ELSE @]
    /\ Reply(r, "answered", stamp'[b])
    /\ UNCHANGED <<overAt, owner, settled, pendingRequest, shown, refresh, poll, news, faults,
                   actions>>

\* The server refuses it (a status of 400 to 499). A key that it has seen
\* before it never refuses; a request about a finished batch it may.
RefuseRequest(r) ==
    /\ Exists(r.batch) => ~ForNewBatch(r)
    /\ wire' = wire \ {r}
    /\ Reply(r, "refused", 0)
    /\ UNCHANGED <<server, owner, settled, pendingRequest, shown, refresh, poll, news, faults,
                   actions>>

\* The key of a batch, if this tab asked for it.
Own(t, b) == {c \in {b} : owner[c] = t}

Later(a, b) == IF a > b THEN a ELSE b

\* The answer is shown, polling wakes, and the other tabs are told.
TakeAnswer(t) ==
    LET b == post[t].batch
        s == post[t].stamp
    IN
    /\ post[t].pc = "answered"
    /\ Accept(t, [Nothing EXCEPT ![b] = s], url[t], {b})
    /\ url' = [url EXCEPT ![t] = b]
    /\ poll' = [u \in Tab |-> IF u = t THEN Woken(poll[t], FALSE) ELSE ToldOf(poll[u], b)]
    /\ Tell(Tab \ {t}, b)
    /\ news' = [u \in Tab |-> [news[u] EXCEPT ![b] = Later(@, s)]]
    /\ pendingRequest' = [pendingRequest EXCEPT ![t] = 0]
    /\ settled' = settled \cup Own(t, b)
    /\ post' = [post EXCEPT ![t] = NoPost]
    /\ UNCHANGED <<server, wire, owner, faults, actions>>

\* A tab that is not among those modelled has its request answered.
Elsewhere(b) ==
    /\ actions < MaxActions
    /\ actions' = actions + 1
    /\ \/ ~Exists(b) /\ owner[b] = NoTab /\ (\A c \in Unused : b <= c)
       \/ overAt[b] > 0 /\ stamp[b] < MaxStamp
    /\ owner' = [owner EXCEPT ![b] = IF @ = NoTab THEN Other ELSE @]
    /\ made' = Created(b)
    /\ stamp' = [stamp EXCEPT ![b] = @ + 1]
    /\ Tell(Tab, b)
    /\ poll' = [u \in Tab |-> ToldOf(poll[u], b)]
    /\ watched' = [u \in Tab |-> watched[u] \cup {b}]
    /\ news' = [u \in Tab |-> [news[u] EXCEPT ![b] = stamp'[b]]]
    /\ UNCHANGED <<overAt, wire, settled, pendingRequest, post, known, url, faults>>

TakeRefusal(t) ==
    /\ post[t].pc = "refused"
    /\ pendingRequest' = [pendingRequest EXCEPT ![t] = 0]
    /\ settled' = settled \cup Own(t, post[t].batch)
    /\ post' = [post EXCEPT ![t] = NoPost]
    /\ UNCHANGED <<server, wire, owner, shown, refresh, poll, news, faults, actions>>

\* No answer in time: the same request once more, then a look at the list.
PostFails(t) ==
    LET b == post[t].batch IN
    /\ faults < MaxFaults
    /\ faults' = faults + 1
    /\ post[t].pc # "idle"
    /\ \/ /\ post[t].attempt < Attempts
          /\ post' = [post EXCEPT ![t].pc = "waiting", ![t].attempt = @ + 1, ![t].stamp = 0]
          /\ wire' = wire \cup {Request(t, b, post[t].attempt + 1)}
          /\ UNCHANGED <<poll, news>>
       \/ /\ post[t].attempt = Attempts
          /\ post' = [post EXCEPT ![t] = NoPost]
          /\ Become(t, Woken(poll[t], TRUE))
          /\ news' = [news EXCEPT ![t][b] = Later(@, stamp[b])]
          /\ UNCHANGED wire
    /\ UNCHANGED <<server, owner, settled, pendingRequest, shown, refresh, actions>>

-----------------------------------------------------------------------------
(* Navigation and loading.                                                 *)

Follow(t, b) ==
    watched' = [watched EXCEPT ![t] = @ \cup {b}]

\* The user follows the link of a batch that is shown.
Select(t) ==
    /\ actions < MaxActions
    /\ actions' = actions + 1
    /\ \E b \in {c \in Batch : known[t][c] > 0} \ {url[t]} :
        /\ url' = [url EXCEPT ![t] = b]
        /\ Follow(t, b)
        /\ Become(t, Woken(poll[t], FALSE))
    /\ UNCHANGED <<server, sending, known, refresh, news, faults>>

\* The page is loaded again; the pending request is in the session's storage.
Reload(t) ==
    /\ faults < MaxFaults
    /\ faults' = faults + 1
    /\ known' = [known EXCEPT ![t] = Nothing]
    /\ watched' = [watched EXCEPT ![t] = {url[t]} \ {0}]
    /\ refresh' = [refresh EXCEPT ![t] = {}]
    /\ post' = [post EXCEPT ![t] = NoPost]
    /\ Become(t, Loaded)
    /\ UNCHANGED <<server, wire, owner, settled, pendingRequest, url, news, actions>>

-----------------------------------------------------------------------------
TabsInit ==
    /\ made = Nothing
    /\ stamp = Nothing
    /\ overAt = Nothing
    /\ wire = {}
    /\ owner = [b \in Batch |-> NoTab]
    /\ settled = {}
    /\ pendingRequest = [t \in Tab |-> 0]
    /\ post = [t \in Tab |-> NoPost]
    /\ known = [t \in Tab |-> Nothing]
    /\ watched = [t \in Tab |-> {}]
    /\ refresh = [t \in Tab |-> {}]
    /\ url = [t \in Tab |-> 0]
    /\ poll = [t \in Tab |-> Loaded]
    /\ news = [t \in Tab |-> Nothing]
    /\ faults = 0
    /\ actions = 0

PollStep(t) == Timer(t) \/ FetchRecent(t) \/ FetchActive(t) \/ FetchOne(t) \/ EndPoll(t)

TabsNext ==
    \/ \E b \in Batch : Progress(b) \/ Elsewhere(b)
    \/ \E t \in Tab :
        \/ PollStep(t)
        \/ Resume(t)
        \/ PollFails(t)
        \/ Submit(t)
        \/ SubmitSummary(t)
        \/ TakeAnswer(t)
        \/ TakeRefusal(t)
        \/ PostFails(t)
        \/ Select(t)
        \/ Reload(t)
    \/ \E r \in wire : Handle(r) \/ RefuseRequest(r)

\* Timers fire, and the requests of a poll are answered or given up.
TabsFairness == \A t \in Tab : WF_tabVars(PollStep(t))

TabsSpec == TabsInit /\ [][TabsNext]_tabVars /\ TabsFairness

-----------------------------------------------------------------------------
(* Properties.                                                             *)

PostType == [pc : {"idle", "waiting", "answered", "refused"}, batch : Batch \cup {0},
             attempt : 0..Attempts, stamp : 0..MaxStamp]
PollType == [pc : InFlight \cup {"timer", "asleep"}, wake : BOOLEAN, hist : BOOLEAN,
             recent : BOOLEAN, initial : BOOLEAN, failed : BOOLEAN,
             received : [Batch -> 0..MaxStamp], refreshed : SUBSET Batch, late : SUBSET Batch]

\* Every tab and batch keeps its shape.
TabsTypeOK ==
    /\ made \in [Batch -> 0..MaxBatches]
    /\ stamp \in [Batch -> 0..MaxStamp] /\ overAt \in [Batch -> 0..MaxStamp]
    /\ wire \subseteq [tab : Tab, batch : Batch, attempt : 1..Attempts]
    /\ owner \in [Batch -> Tab \cup {NoTab, Other}]
    /\ settled \subseteq Batch
    /\ pendingRequest \in [Tab -> Batch \cup {0}] /\ url \in [Tab -> Batch \cup {0}]
    /\ post \in [Tab -> PostType] /\ poll \in [Tab -> PollType]
    /\ known \in [Tab -> [Batch -> 0..MaxStamp]] /\ news \in [Tab -> [Batch -> 0..MaxStamp]]
    /\ watched \in [Tab -> SUBSET Batch] /\ refresh \in [Tab -> SUBSET Batch]
    /\ faults \in 0..MaxFaults /\ actions \in 0..MaxActions

\* No tab shows what the server never said.
ShowsWhatWasSaid == \A t \in Tab, b \in Batch : known[t][b] <= stamp[b]

\* A tab that shows an active batch, or was told to read one again that it
\* follows, is polling or about to: no wake is lost between the end of a poll
\* and the event that asked for another.
AwakeWhileNeeded ==
    \A t \in Tab :
        HasActive(known[t]) \/ refresh[t] \cap watched[t] # {} => poll[t].pc # "asleep"

\* Until a tab knows what became of its request, it makes no other one:
\* however answers are lost and pages loaded again, the key stays pending and
\* the user's next click cannot admit the work twice.
NothingAskedTwice ==
    \A t \in Tab, b \in Batch : owner[b] = t /\ b \notin settled => pendingRequest[t] = b

\* An answer that arrives late never replaces a newer one: while a tab shows a
\* batch, its stamp does not go back.
NeverShowsOlder ==
    [][\A t \in Tab, b \in Batch : known'[t][b] > 0 => known'[t][b] >= known[t][b]]_tabVars

\* A tab is behind with a batch that it shows as active and that is over, and
\* with one that another tab told it of, or that it asked for in vain although
\* the server made it, unless that is over and behind the recent batches.
Behind(t, b) ==
    \/ ShownActive(b, known[t]) /\ ~Active(b)
    \/ known[t][b] < news[t][b] /\ (Active(b) \/ Cardinality(Newer(b)) < Recent)

\* However polls fail, answers are lost and events cross, a tab catches up.
TabsCatchUp == \A t \in Tab, b \in Batch : Behind(t, b) ~> ~Behind(t, b)
=============================================================================
