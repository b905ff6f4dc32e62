---------------------------- MODULE DailyProfit ----------------------------
(***************************************************************************)
(* What a daily row of a store's profit is made of, and the rows that are  *)
(* stored so that pages need not calculate them again: helpers.ts,         *)
(* profit-summary.service.ts, profit.service.ts, cost.service.ts.          *)
(*                                                                         *)
(* Each request changes what the rows are calculated from and then stores  *)
(* anew the dates that it believes it changed, or removes them if that     *)
(* fails; here this is one step (ProfitSummary takes it apart). Dates that *)
(* have no stored rows are calculated when a page asks. An amount is the   *)
(* set of what is added up: an item with the cost entry that applies to    *)
(* it, an ad cost.                                                         *)
(***************************************************************************)
EXTENDS Naturals, FiniteSets

CONSTANTS
    Date,           \* days: numbers from 1
    Unit,           \* sales units that are not groups
    Group,          \* sales units that are groups
    Item,           \* order items
    PaidOn,         \* the day on which each item was paid
    Sig,            \* signatures of items; no alias matches them
    SigOf,          \* the signature of each item
    FeeKnown,       \* items whose commissions are known
    Cost,           \* entries of a cost table
    Rated,          \* those with a fee rate
    Price,          \* what a delivery may cost
    None,
    MaxCommands

ASSUME DateAssumption == Date \subseteq Nat \ {0}
ASSUME ItemAssumption == IsFiniteSet(Item) /\ PaidOn \in [Item -> Date] /\ SigOf \in [Item -> Sig]
ASSUME UnitAssumption == Unit \cap Group = {} /\ None \notin Unit \cup Group \cup Cost
ASSUME CostAssumption == FeeKnown \subseteq Item /\ Rated \subseteq Cost

VARIABLES
    parent,     \* the group of each unit
    link,       \* the unit whose list of ids has the item
    item,       \* state and unit of each item
    sig,        \* what each signature is mapped to, and by whom
    campaign,   \* what a campaign is mapped to, and by whom
    ad,         \* the campaign's cost of each day, and what that is mapped to
    table,      \* the cost table that begins on each day
    price,      \* the delivery cost of the store
    stored,     \* the stored rows and summary of each day
    commands    \* requests so far

vars == <<parent, link, item, sig, campaign, ad, table, price, stored, commands>>
orders == <<item, sig>>
ads == <<campaign, ad>>

AnyUnit == Unit \cup Group

-----------------------------------------------------------------------------
(* calculateDailyProfitRows                                                *)

SoldOn(d) == {i \in Item : item[i].state = "SALE" /\ PaidOn[i] = d}
Counted(d) == {i \in SoldOn(d) : item[i].unit # None}

\* Variant: before the first table its entries apply.
TablesForAnyDay(d) ==
    LET begun == {e \in Date : e <= d /\ table[e] # None}
    IN  IF begun = {} THEN {e \in Date : table[e] # None} ELSE begun

\* The tables that have begun; the last of them applies, with or without the unit.
Begun(d) == {e \in Date : e <= d /\ table[e] # None}
Last(d) == {e \in Begun(d) : \A x \in Begun(d) : x <= e}
CostOf(u, d) == IF Last(d) = {} THEN None ELSE table[CHOOSE e \in Last(d) : TRUE][u]

\* An item whose cost, or whose fee, nobody knows.
Lacking(i) == LET c == CostOf(item[i].unit, PaidOn[i]) IN c = None \/ (i \notin FeeKnown /\ c \notin Rated)

\* Variant: an ad of a child stays with the child.
Itself(u) == u

\* Ads are counted on the group of their unit.
Promoted(u) == IF u \in Unit /\ parent[u] # None THEN parent[u] ELSE u

\* Variant: a group stands for its children only.
ChildrenOnly(u, f) == f = None \/ (f \in Unit /\ u = f) \/ (u \in Unit /\ f \in Group /\ parent[u] = f)

\* A filter is a unit, or a group that stands for itself and its children.
Wanted(u, f) == f = None \/ u = f \/ (u \in Unit /\ f \in Group /\ parent[u] = f)

ItemsOn(u, d, f) == {i \in Counted(d) : item[i].unit = u /\ Wanted(u, f)}
AdsOn(u, d, f) ==
    {e \in {d} : ad[e] # None /\ ad[e].unit # None /\ Promoted(ad[e].unit) = u /\ Wanted(u, f)}

Row(u, items, costs, children) ==
    [unit |-> u, items |-> {<<i, CostOf(item[i].unit, PaidOn[i])>> : i \in items}, ads |-> costs,
     incomplete |-> \E i \in items : Lacking(i), children |-> children]

ChildRows(g, d, f) ==
    {Row(u, ItemsOn(u, d, f), {}, {}) : u \in {v \in Unit : parent[v] = g /\ ItemsOn(v, d, f) # {}}}

\* Rows of groups, and of units that have no group.
Rows(d, f) ==
    LET rows == {Row(u, ItemsOn(u, d, f), AdsOn(u, d, f), {}) : u \in {v \in Unit : parent[v] = None}}
                \cup {Row(g, UNION {ItemsOn(u, d, f) : u \in {v \in Unit : parent[v] = g}},
                          AdsOn(g, d, f), ChildRows(g, d, f)) : g \in Group}
    IN  {r \in rows : r.items # {} \/ r.ads # {}}

-----------------------------------------------------------------------------
(* calculateDashboardSummary                                               *)

\* An item has the status of its signature.
Excluded(d) == [status \in {"UNMAPPED", "CONFLICT"} |->
                    {i \in SoldOn(d) : sig[SigOf[i]].status = status}]
NotSold(d) == {i \in Item : item[i].state = "CANCELED" /\ PaidOn[i] = d}
ExcludedAds(d) ==
    {e \in {d} : ad[e] # None /\ ad[e].unit = None}

\* Every item counted is a package of its own.
Summary(d) ==
    [rows |-> Rows(d, None), excluded |-> Excluded(d), notSold |-> NotSold(d),
     ads |-> ExcludedAds(d), packages |-> Cardinality(Counted(d)), price |-> price]

-----------------------------------------------------------------------------
(* Mapping of items: recalculateOrderMappings.                             *)

StatusOf(S) == CASE Cardinality(S) = 0 -> "UNMAPPED" [] Cardinality(S) = 1 -> "MAPPED" [] OTHER -> "CONFLICT"

The(S) == IF Cardinality(S) = 1 THEN CHOOSE x \in S : TRUE ELSE None

\* What a user confirmed counts, or else the ids of the item.
Assigned(i) == IF sig[SigOf[i]].confirmed THEN sig[SigOf[i]].unit ELSE link'[i]

Reassigned(it, I) == [i \in Item |-> IF i \in I /\ it[i].state # "none" THEN [it[i] EXCEPT !.unit = Assigned(i)] ELSE it[i]]

\* Signatures nobody confirmed follow those of their items that have a unit.
Inferred(it, S) ==
    LET UnitsOf(s) == {it[i].unit : i \in {j \in Item : SigOf[j] = s}} \ {None}
    IN  [s \in Sig |-> IF s \in S /\ ~sig[s].confirmed
                       THEN [unit |-> The(UnitsOf(s)), status |-> StatusOf(UnitsOf(s)), confirmed |-> FALSE]
                       ELSE sig[s]]

Remap(it, S, I) ==
    /\ item' = Reassigned(it, I)
    /\ sig' = Inferred(item', S)

-----------------------------------------------------------------------------
(* Mapping of the campaign.                                                *)

Known == campaign.by # "nobody"

\* A user's decision stays; rules and aliases decide on any group, on any unit
\* without one, or leave the campaign unmapped.
Decisions ==
    IF campaign.by = "user" THEN {campaign}
    ELSE [unit : {None} \cup {u \in AnyUnit : u \in Unit => parent'[u] = None}, by : {"rules"}]

\* The campaign is decided anew, the ad costs are not.
Reconsidered == campaign' \in (IF Known THEN Decisions ELSE {campaign}) /\ ad' = ad

-----------------------------------------------------------------------------
Init ==
    /\ parent = [u \in Unit |-> None]
    /\ link = [i \in Item |-> None]
    /\ item = [i \in Item |-> [state |-> "none", unit |-> None]]
    /\ sig = [s \in Sig |-> [unit |-> None, status |-> "UNMAPPED", confirmed |-> FALSE]]
    /\ campaign = [unit |-> None, by |-> "nobody"]
    /\ ad = [d \in Date |-> None]
    /\ table = [d \in Date |-> None]
    /\ price \in Price
    /\ stored = [d \in Date |-> None]
    /\ commands = 0

Command == commands < MaxCommands /\ commands' = commands + 1

\* The dates are calculated from what was just committed and stored, or removed.
Refresh(dates) == \E fails \in BOOLEAN :
    stored' = [d \in Date |-> IF d \notin dates THEN stored[d] ELSE IF fails THEN None ELSE Summary(d)']

\* Days from one on that have rows, items or ads.
KnownDates(from) ==
    {d \in Date : d >= from /\ (stored[d] # None \/ ad[d] # None \/ \E i \in Item : item[i].state # "none" /\ PaidOn[i] = d)}
Always == KnownDates(0)
PaymentDates == {PaidOn[i] : i \in {j \in Item : item[j].state # "none"}}

-----------------------------------------------------------------------------
(* Orders.                                                                 *)

\* A synchronisation saves an item, maps what it touched and refreshes its date.
SaveItem(i, state) ==
    /\ Command
    /\ UNCHANGED <<parent, link, ads, table, price>>
    /\ Remap([item EXCEPT ![i] = [state |-> state, unit |-> None]], {SigOf[i]}, {i})
    /\ Refresh({PaidOn[i]})

\* Variant: dates of items that had a unit are as they were.
UnmappedDates(s) == {PaidOn[i] : i \in {j \in Item : SigOf[j] = s /\ item[j].state # "none" /\ item[j].unit = None}}

DatesOf(s) == {PaidOn[i] : i \in {j \in Item : SigOf[j] = s /\ item[j].state # "none"}}

\* A user maps a signature and with it all its items.
MapItems(s, u) ==
    /\ Command
    /\ DatesOf(s) # {}
    /\ UNCHANGED <<parent, link, ads, table, price>>
    /\ sig' = [sig EXCEPT ![s] = [unit |-> u, status |-> "MAPPED", confirmed |-> TRUE]]
    /\ item' = [i \in Item |-> IF SigOf[i] = s /\ item[i].state # "none" THEN [item[i] EXCEPT !.unit = u] ELSE item[i]]
    /\ Refresh(DatesOf(s))

RecalculateOrders ==
    /\ Command
    /\ UNCHANGED <<parent, link, ads, table, price>>
    /\ Remap(item, Sig, Item)
    /\ Refresh(PaymentDates)

-----------------------------------------------------------------------------
(* Sales units, groups and costs.                                          *)

\* A unit's list of ids takes an item, or gives it up.
Relinked(i, u) == link' = [link EXCEPT ![i] = u]

UpdateUnit(i, u) ==
    /\ Command
    /\ UNCHANGED <<parent, table, price>>
    /\ Relinked(i, u)
    /\ Remap(item, Sig, Item)
    /\ Reconsidered
    /\ Refresh(Always)

Regroup(u, g) ==
    /\ Command
    /\ (g = None) # (parent[u] = None)
    /\ UNCHANGED <<link, orders, table, price>>
    /\ parent' = [parent EXCEPT ![u] = g]
    /\ IF g = None THEN UNCHANGED ads ELSE Reconsidered
    /\ Refresh(Always)

\* The ad costs of the group are unmapped, its campaign is not.
Dissolve(g) ==
    /\ Command
    /\ UNCHANGED <<link, orders, campaign, table, price>>
    /\ parent' = [u \in Unit |-> IF parent[u] = g THEN None ELSE parent[u]]
    /\ ad' = [d \in Date |-> IF ad[d] # None /\ ad[d].unit = g THEN [unit |-> None] ELSE ad[d]]
    /\ Refresh(Always)

\* A table replaces the one of its day and may change the lists of ids too;
\* items are not mapped anew.
ImportCosts(d, entries) ==
    /\ Command
    /\ UNCHANGED <<parent, orders, ads, price>>
    /\ table' = [table EXCEPT ![d] = entries]
    /\ link' = link \/ \E i \in Item, u \in Unit : Relinked(i, u)
    /\ Refresh(KnownDates(d))

DeleteCosts(d) ==
    /\ Command
    /\ table[d] # None
    /\ UNCHANGED <<parent, link, orders, ads, price>>
    /\ table' = [table EXCEPT ![d] = None]
    /\ Refresh(KnownDates(d))

\* Nothing is refreshed.
SetDeliveryCost(p) ==
    /\ Command
    /\ price' = p
    /\ UNCHANGED <<parent, link, orders, ads, table, stored>>

-----------------------------------------------------------------------------
(* Ads.                                                                    *)

AdDates == {d \in Date : ad[d] # None}
MappedLike(m) == ad' = [d \in Date |-> IF d \in AdDates THEN [unit |-> m.unit] ELSE ad[d]]

Upload(d) ==
    /\ Command
    /\ ad[d] = None
    /\ UNCHANGED <<parent, link, orders, table, price>>
    /\ campaign' \in Decisions
    /\ ad' = [ad EXCEPT ![d] = [unit |-> campaign'.unit]]
    /\ Refresh({d})

DeleteUpload(d) ==
    /\ Command
    /\ ad[d] # None
    /\ UNCHANGED <<parent, link, orders, campaign, table, price>>
    /\ ad' = [ad EXCEPT ![d] = None]
    /\ Refresh({d})

\* A user maps the campaign, or leaves it unmapped on purpose.
MapAds(m) ==
    /\ Command
    /\ Known
    /\ UNCHANGED <<parent, link, orders, table, price>>
    /\ campaign' = m
    /\ MappedLike(m)
    /\ Refresh(AdDates)

RecalculateAds ==
    /\ Command
    /\ Known
    /\ UNCHANGED <<parent, link, orders, table, price>>
    /\ campaign' \in Decisions
    /\ MappedLike(campaign')
    /\ Refresh(AdDates)

\* Somebody asks for the dates of a range to be stored anew; if that fails
\* nothing is removed.
Recalculate(from, to) ==
    /\ Command
    /\ from <= to
    /\ stored' = [d \in Date |-> IF d \in from..to THEN Summary(d) ELSE stored[d]]
    /\ UNCHANGED <<parent, link, orders, ads, table, price>>

-----------------------------------------------------------------------------
Next ==
    \/ \E i \in Item, state \in {"SALE", "CANCELED"} : SaveItem(i, state)
    \/ \E s \in Sig, u \in Unit : MapItems(s, u)
    \/ RecalculateOrders
    \/ \E i \in Item, u \in Unit \cup {None} : UpdateUnit(i, u)
    \/ \E u \in Unit, g \in Group \cup {None} : Regroup(u, g)
    \/ \E g \in Group : Dissolve(g)
    \/ \E d \in Date, entries \in [Unit -> Cost \cup {None}] : ImportCosts(d, entries)
    \/ \E d \in Date : DeleteCosts(d)
    \/ \E p \in Price : SetDeliveryCost(p)
    \/ \E d \in Date : Upload(d) \/ DeleteUpload(d)
    \/ \E u \in AnyUnit \cup {None} : MapAds([unit |-> u, by |-> "user"])
    \/ RecalculateAds
    \/ \E from, to \in Date : Recalculate(from, to)

Spec == Init /\ [][Next]_vars

-----------------------------------------------------------------------------
(* listDailySalesUnitRows: stored rows where there are any, others live.   *)

FromStored(r, f) == IF f = None \/ r.unit = f THEN {r} ELSE {c \in r.children : c.unit = f}

Answer(d, f) == IF stored[d] = None THEN Rows(d, f) ELSE UNION {FromStored(r, f) : r \in stored[d].rows}

-----------------------------------------------------------------------------
(* Properties.                                                             *)

\* Types, and what a status says of the unit: a signature that conflicts has none.
TypeOK ==
    /\ parent \in [Unit -> Group \cup {None}]
    /\ link \in [Item -> Unit \cup {None}]
    /\ \A i \in Item : item[i].state \in {"none", "SALE", "CANCELED"} /\ item[i].unit \in Unit \cup {None}
    /\ \A s \in Sig : sig[s].unit \in Unit \cup {None} /\ (sig[s].status = "MAPPED") = (sig[s].unit # None)
    /\ campaign \in [unit : AnyUnit \cup {None}, by : {"nobody", "rules", "user"}]
    /\ ad \in [Date -> {None} \cup [unit : AnyUnit \cup {None}]]
    /\ \A d \in Date : table[d] # None => table[d] \in [Unit -> Cost \cup {None}]
    /\ price \in Price

\* Each request knows which dates it changed: whatever the order of
\* synchronisations, mappings, groups, costs, uploads and failed refreshes, rows
\* that are stored are the rows that would be calculated, and so are the items
\* that were not sold and the packages.
RowsAsLive ==
    \A d \in Date : stored[d] # None =>
        /\ stored[d].rows = Rows(d, None)
        /\ stored[d].notSold = NotSold(d)
        /\ stored[d].packages = Cardinality(Counted(d))

\* A page does not show which dates are stored: with or without a filter on a
\* group or on a unit without one, the rows picked from stored rows are those
\* that a calculation with the filter gives.
AnswersAgree ==
    \A d \in Date, f \in {None} \cup Group \cup {u \in Unit : parent[u] = None} : Answer(d, f) = Rows(d, f)

\* Every ad cost that was uploaded is in one row or among what was left out, in
\* what is stored as well, whatever becomes of its campaign, unit and group.
AdsAccounted ==
    \A d \in Date : stored[d] # None =>
        LET shown == {r \in stored[d].rows : d \in r.ads}
        IN  IF ad[d] = None THEN shown = {} /\ stored[d].ads = {}
            ELSE Cardinality(shown) + Cardinality(stored[d].ads) = 1

\* A table counts from its day on: to import, replace or delete one changes no
\* earlier row, stored or calculated.
PastCostsStay ==
    [][\A e \in Date : table'[e] # table[e] =>
        \A d \in Date : d < e => Rows(d, None)' = Rows(d, None) /\ stored'[d] = stored[d]]_vars
=============================================================================
