--------------------------- MODULE SalesMappings ---------------------------
(***************************************************************************)
(* What a store sells and what its ads advertise: sales units and their    *)
(* groups, the signatures that order items and ad campaigns are recognised *)
(* by, the unit that each item and each ad cost is counted on.             *)
(*                                                                         *)
(* A request is checked against the state it finds and changes the state   *)
(* in its turn of the commit queue, where nothing is checked again. A      *)
(* request whose check cannot be undone and that takes nothing along is    *)
(* one step here. Some commits recalculate every item of the store, a      *)
(* synchronisation only what it touched, a manual mapping nothing: it      *)
(* writes its items itself.                                                *)
(***************************************************************************)
EXTENDS Naturals, Sequences, FiniteSets

CONSTANTS
    Plain,          \* units that are not groups: numbers, in order of creation
    Existing,       \* those that exist at the beginning, with every alias
    Group,          \* units that are groups
    Sig,            \* signatures of order items
    Item,           \* order items
    PaidOn,         \* day on which each item was paid
    ProductOf,      \* the product or shipped-together category of each item
    Today,          \* the day on which units are deactivated
    Campaign,       \* the ad campaign, for aliases to match
    Names,          \* alias lists to choose from: the signatures they match
    Keyword,        \* units whose name a keyword of the campaign's name stands for
    Links,          \* lists of product ids to choose from: the items that have them
    None,
    MaxRules, MaxUploads, MaxPending, MaxCommands

Unit == Plain \cup Group

ASSUME UnitAssumption == Unit \subseteq Nat /\ Existing \subseteq Plain /\ Plain \cap Group = {}
ASSUME NoneAssumption == None \notin Unit \cup Sig
ASSUME ItemAssumption == IsFiniteSet(Item) /\ Item \cap (1..MaxUploads) = {} /\ MaxUploads \in Nat
ASSUME DayAssumption == PaidOn \in [Item -> Nat] /\ Today \in Nat
ASSUME KeywordAssumption == Keyword \subseteq Plain
ASSUME ListAssumption == Names \subseteq SUBSET (Sig \cup {Campaign}) /\ Links \subseteq SUBSET Item

VARIABLES
    unit,       \* state, group, aliases and ids of each sales unit
    sig,        \* what each signature of items is mapped to, and by whom
    item,       \* signature and unit of each order item
    used,       \* usageCount of each signature
    rule,       \* campaign mappings with the campaign's pattern
    campaign,   \* what the campaign's signature is mapped to, by whom, its usageCount
    cost,       \* the campaign's cost in each upload
    pending,    \* requests that passed their checks, in the commit queue
    creating,   \* units created for a signature that is not mapped yet
    seeding,    \* seeds between their two commits: the products they found
    owed,       \* a recalculation of the store would change items
    commands    \* requests so far

vars == <<unit, sig, item, used, rule, campaign, cost, pending, creating, seeding, owed, commands>>
orders == <<sig, item, used, owed>>
handlers == <<creating, seeding>>
ads == <<rule, campaign, cost>>

Active(un, u) == un[u].state = "active"

The(S) == IF Cardinality(S) = 1 THEN CHOOSE x \in S : TRUE ELSE None
First(S) == The({x \in S : \A y \in S : x <= y})
Last(S) == The({x \in S : \A y \in S : x >= y})
StatusOf(S) == CASE Cardinality(S) = 0 -> "UNMAPPED"
                 [] Cardinality(S) = 1 -> "MAPPED"
                 [] OTHER -> "CONFLICT"

-----------------------------------------------------------------------------
(* Recalculation of order mappings.                                        *)

\* Units whose aliases match a signature or the campaign.
Matching(un, x) == {u \in Plain : Active(un, u) /\ x \in un[u].names}

\* Units that an item's ids are linked to: the one created last counts.
Linked(un, i) == {u \in Unit : Active(un, u) /\ i \in un[u].links}

\* Variant: what a user confirmed is matched again.
EverySignature(sg, s) == sg[s].status # "none"

\* Signatures that no user has confirmed.
Automatic(sg, s) == sg[s].status # "none" /\ ~sg[s].confirmed

MapTo(sg, s, us) == [sg[s] EXCEPT !.unit = The(us), !.status = StatusOf(us)]

Named(un, sg, S) ==
    [s \in Sig |-> IF s \in S /\ Automatic(sg, s) THEN MapTo(sg, s, Matching(un, s)) ELSE sg[s]]

Resolved(un, sg, s, i) ==
    CASE sg[s].confirmed /\ sg[s].unit # None -> sg[s].unit
      [] ~(sg[s].confirmed /\ sg[s].unit # None) /\ Linked(un, i) # {} -> Last(Linked(un, i))
      [] OTHER -> IF sg[s].status = "MAPPED" /\ sg[s].unit # None /\ Active(un, sg[s].unit)
                  THEN sg[s].unit ELSE None

\* A unit that is not active takes what was paid before the day it went.
Assigned(un, sg, s, i) ==
    LET u == Resolved(un, sg, s, i)
    IN  IF u # None /\ (Active(un, u) \/ (un[u].state = "off" /\ PaidOn[i] < Today)) THEN u ELSE None

Reassigned(un, sg, it, I) ==
    [i \in Item |-> IF i \in I /\ it[i].sig # None
                    THEN [it[i] EXCEPT !.unit = Assigned(un, sg, it[i].sig, i)] ELSE it[i]]

\* A signature is also mapped to the unit that all its items agree on.
Inferred(sg, it, S) ==
    LET UnitsOf(s) == {it[i].unit : i \in {j \in Item : it[j].sig = s}} \ {None}
    IN  [s \in Sig |-> IF s \in S /\ Automatic(sg, s) /\ UnitsOf(s) # {}
                       THEN MapTo(sg, s, UnitsOf(s)) ELSE sg[s]]

Recalculated(un, sg, it, S, I) ==
    LET named == Named(un, sg, S)
        items == Reassigned(un, named, it, I)
    IN  [sig |-> Inferred(named, items, S), item |-> items]

Everything(un, sg, it) == Recalculated(un, sg, it, Sig, Item)

-----------------------------------------------------------------------------
(* Recalculation of ad mappings.                                           *)

\* Variant: an ad of a child stays with the child.
Itself(un, u) == u

\* Ads belong to the group, not to its children.
Promoted(un, u) == IF u # None /\ un[u].parent # None THEN un[u].parent ELSE u

RulesOn(un, ru) == {r \in DOMAIN ru : ru[r].state = "on" /\ Active(un, ru[r].unit)}

\* The first active unit of the name that a keyword stands for.
KeywordUnits(un) == {u \in Keyword : Active(un, u)}

\* Rules come before keywords, keywords before aliases; several rules or
\* aliases decide nothing.
AdTarget(un, ru) ==
    LET on == RulesOn(un, ru)
        u == CASE Cardinality(on) = 1 -> ru[The(on)].unit
               [] Cardinality(on) > 1 -> None
               [] on = {} /\ KeywordUnits(un) # {} -> First(KeywordUnits(un))
               [] OTHER -> The(Matching(un, Campaign))
    IN  Promoted(un, u)

AdRecalculated(un, ru, ca) ==
    IF ca.known /\ ~ca.confirmed THEN [ca EXCEPT !.unit = AdTarget(un, ru)] ELSE ca

\* The costs take the mapping of their signature.
Applied(ca, co) ==
    [n \in DOMAIN co |-> IF co[n].state = "active" THEN [co[n] EXCEPT !.unit = ca.unit] ELSE co[n]]

-----------------------------------------------------------------------------
NoUnit == [state |-> "none", parent |-> None, names |-> {}, links |-> {}]
NewUnit(names, links) == [state |-> "active", parent |-> None, names |-> names, links |-> links]

Init ==
    /\ unit = [u \in Unit |-> IF u \in Existing THEN NewUnit(UNION Names, {}) ELSE NoUnit]
    /\ sig = [s \in Sig |-> [unit |-> None, status |-> "none", confirmed |-> FALSE]]
    /\ item = [i \in Item |-> [sig |-> None, unit |-> None]]
    /\ used = [s \in Sig |-> 0]
    /\ rule = <<>>
    /\ campaign = [known |-> FALSE, unit |-> None, confirmed |-> FALSE, used |-> 0]
    /\ cost = [n \in 1..MaxUploads |-> [state |-> "none", unit |-> None]]
    /\ pending = <<>>
    /\ creating = {}
    /\ seeding = <<>>
    /\ owed = FALSE
    /\ commands = 0

\* A request that passed its checks waits for its turn.
Ask(request) ==
    /\ commands < MaxCommands /\ Len(pending) < MaxPending
    /\ commands' = commands + 1
    /\ pending' = Append(pending, request)
    /\ UNCHANGED <<unit, orders, ads, handlers>>

Now ==
    /\ commands < MaxCommands
    /\ commands' = commands + 1
    /\ UNCHANGED <<pending, handlers>>

Exists(u) == unit[u].state \in {"active", "off"}
Unborn == {u \in Plain : unit[u].state = "none"}
NextUnit == {u \in Unborn : \A v \in Unborn : v >= u}

Turn(kind) == pending # <<>> /\ Head(pending).kind = kind /\ pending' = Tail(pending)
Asked == Head(pending)

\* Units change and the store is recalculated in the same commit.
Settle(un, sg) ==
    LET all == Everything(un, sg, item) IN
    /\ unit' = un
    /\ sig' = all.sig
    /\ item' = all.item
    /\ owed' = FALSE
    /\ campaign' = AdRecalculated(un, rule, campaign)
    /\ UNCHANGED used

-----------------------------------------------------------------------------
(* Sales units.                                                            *)

Create == \E u \in NextUnit, names \in Names, links \in Links :
    /\ Now
    /\ Settle([unit EXCEPT ![u] = NewUnit(names, links)], sig)
    /\ UNCHANGED <<rule, cost>>

\* The whole unit is taken along as the request found it.
AskUpdate == \E u \in Unit : Exists(u) /\
    \E names \in IF u \in Group THEN {{}} ELSE Names, links \in IF u \in Group THEN {{}} ELSE Links :
        Ask([kind |-> "update", unit |-> u,
             to |-> [unit[u] EXCEPT !.names = names, !.links = links]])

Update ==
    /\ Turn("update")
    /\ Exists(Asked.unit)
    /\ Settle([unit EXCEPT ![Asked.unit] = Asked.to], sig)
    /\ UNCHANGED <<rule, cost, handlers, commands>>

\* The unit was removed meanwhile: the commit throws and changes nothing.
Refused ==
    /\ Turn("update") \/ Turn("attach") \/ Turn("detach")
    /\ \A u \in IF Asked.kind = "attach" THEN Asked.children ELSE {Asked.unit} : ~Exists(u)
    /\ UNCHANGED <<unit, orders, ads, handlers, commands>>

\* Signatures let go of a unit that is deactivated.
Cleared(sg, u) == [s \in Sig |-> IF sg[s].unit = u THEN [sg[s] EXCEPT !.unit = None] ELSE sg[s]]

Deactivate == \E u \in Unit :
    /\ Now /\ Exists(u)
    /\ Settle([unit EXCEPT ![u].state = "off"], Cleared(sig, u))
    /\ UNCHANGED <<rule, cost>>

Activate == \E u \in Unit :
    /\ Now /\ Exists(u)
    /\ Settle([unit EXCEPT ![u].state = "active"], sig)
    /\ UNCHANGED <<rule, cost>>

-----------------------------------------------------------------------------
(* Groups: the orders are not recalculated.                                *)

\* Variant: a group may become a child.
NoParentYet(u) == Exists(u) /\ unit[u].parent = None

MayBeChild(u) == Exists(u) /\ unit[u].parent = None /\ u \notin Group

\* Rules of the children go over to the group.
Inherited(children, g) ==
    [r \in DOMAIN rule |-> IF rule[r].state = "on" /\ rule[r].unit \in children
                           THEN [rule[r] EXCEPT !.unit = g] ELSE rule[r]]

Grouped(un, children, g) ==
    [u \in Unit |-> IF u \in children /\ Exists(u) THEN [un[u] EXCEPT !.parent = g] ELSE un[u]]

\* Children join a group: rules first, then the unconfirmed ads.
Join(un, children, g) ==
    /\ unit' = Grouped(un, children, g)
    /\ rule' = Inherited(children, g)
    /\ campaign' = AdRecalculated(unit', rule', campaign)
    /\ UNCHANGED <<orders, cost, handlers, commands>>

AskGroup == \E g \in Group, children \in (SUBSET Plain) \ {{}} :
    /\ unit[g].state = "none" /\ \A n \in DOMAIN pending : pending[n].kind = "group" => pending[n].unit # g
    /\ \A u \in children : MayBeChild(u)
    /\ Ask([kind |-> "group", unit |-> g, children |-> children])

CreateGroup ==
    /\ Turn("group")
    /\ Join([unit EXCEPT ![Asked.unit] = NewUnit({}, {})], Asked.children, Asked.unit)

\* The group need not be active.
AskAttach == \E g \in Group, u \in Unit :
    Exists(g) /\ MayBeChild(u) /\ Ask([kind |-> "attach", unit |-> g, children |-> {u}])

Attach ==
    /\ Turn("attach")
    /\ \A u \in Asked.children : Exists(u)
    /\ Join(unit, Asked.children, Asked.unit)

AskDetach == \E u \in Unit :
    Exists(u) /\ unit[u].parent # None /\ Ask([kind |-> "detach", unit |-> u])

Detach ==
    /\ Turn("detach")
    /\ Exists(Asked.unit)
    /\ unit' = [unit EXCEPT ![Asked.unit].parent = None]
    /\ UNCHANGED <<orders, ads, handlers, commands>>

\* The costs let go of the group; the campaign's signature does not, nor do the
\* items that a seed put on it.
Dissolve == \E g \in Group :
    /\ Now /\ Exists(g)
    /\ unit' = [u \in Unit |->
        CASE u = g -> [unit[u] EXCEPT !.state = "off"]
          [] unit[u].parent = g -> [unit[u] EXCEPT !.parent = None]
          [] OTHER -> unit[u]]
    /\ rule' = [r \in DOMAIN rule |-> IF rule[r].unit = g THEN [rule[r] EXCEPT !.state = "off"]
                                      ELSE rule[r]]
    /\ cost' = [n \in DOMAIN cost |-> IF cost[n].unit = g THEN [cost[n] EXCEPT !.unit = None]
                                      ELSE cost[n]]
    /\ owed' = (owed \/ \E i \in Item : item[i].unit = g)
    /\ UNCHANGED <<sig, item, used, campaign>>

-----------------------------------------------------------------------------
(* Order items and their signatures.                                       *)

\* Variant: groups take items.
AnyActive(u) == Active(unit, u)

MayTakeItems(u) == Active(unit, u) /\ u \notin Group

AskMap == \E s \in Sig, u \in Unit :
    /\ sig[s].status # "none" /\ MayTakeItems(u)
    /\ Ask([kind |-> "map", sig |-> s, unit |-> u])

\* The signature is confirmed and its items written, whatever became of the unit.
Map ==
    /\ Turn("map")
    /\ LET s == Asked.sig
           u == Asked.unit
       IN
        /\ sig' = [sig EXCEPT ![s] = [unit |-> u, status |-> "MAPPED", confirmed |-> TRUE]]
        /\ item' = [i \in Item |-> IF item[i].sig = s THEN [item[i] EXCEPT !.unit = u] ELSE item[i]]
        /\ owed' = (owed \/ ~Active(unit, u))
    /\ UNCHANGED <<unit, used, ads, handlers, commands>>

\* No recalculation: other items that would match wait for the next one.
CreateFor == \E s \in Sig, u \in NextUnit, names \in Names, links \in Links :
    /\ commands < MaxCommands /\ commands' = commands + 1
    /\ sig[s].status # "none"
    /\ unit' = [unit EXCEPT ![u] = NewUnit(names, links)]
    /\ creating' = creating \cup {[sig |-> s, unit |-> u]}
    /\ owed' = TRUE
    /\ UNCHANGED <<sig, item, used, ads, pending, seeding>>

\* The same handler goes on with its mapping.
MapCreated == \E c \in creating :
    /\ creating' = creating \ {c}
    /\ pending' = IF MayTakeItems(c.unit)
                  THEN Append(pending, [kind |-> "map", sig |-> c.sig, unit |-> c.unit]) ELSE pending
    /\ UNCHANGED <<unit, orders, ads, seeding, commands>>

\* Variant: an item that was known is not assigned again.
NewItems(i) == IF item[i].sig = None THEN {i} ELSE {}

TouchedItems(i) == {i}

\* An item counts for its signature, and no longer for the one it had.
CountedFor(i, s) ==
    [t \in Sig |->
        CASE t = s /\ item[i].sig # s -> used[t] + 1
          [] t # s /\ item[i].sig = t -> IF used[t] = 0 THEN 0 ELSE used[t] - 1
          [] OTHER -> used[t]]

\* A signature that is new is not mapped; what is known of it stays.
Found(sg, s) == [sg EXCEPT ![s].status = IF @ = "none" THEN "UNMAPPED" ELSE @]

\* A synchronisation saves an item and recalculates what it touched.
SaveItem == \E i \in Item, s \in Sig :
    LET known == Found(sig, s)
        saved == [item EXCEPT ![i] = [sig |-> s, unit |-> None]]
        done == Recalculated(unit, known, saved, {s, item[i].sig}, TouchedItems(i))
    IN
    /\ sig' = done.sig
    /\ item' = done.item
    /\ used' = CountedFor(i, s)
    /\ UNCHANGED <<unit, ads, pending, handlers, owed, commands>>

\* RECALCULATE_ORDER_MAPPING, whoever asked for it.
RecalculateOrders ==
    /\ LET all == Everything(unit, sig, item) IN sig' = all.sig /\ item' = all.item
    /\ owed' = FALSE
    /\ UNCHANGED <<unit, used, ads, pending, handlers, commands>>

-----------------------------------------------------------------------------
(* The seed: units for what has been ordered, asked for by hand.           *)

Products == {ProductOf[i] : i \in {j \in Item : item[j].sig # None}}

\* First commit: the units of the store are removed, groups too. Confirmed
\* signatures, rules and ads go on pointing to them.
SeedClears ==
    /\ commands < MaxCommands /\ commands' = commands + 1
    /\ Products # {}
    /\ seeding' = Append(seeding, Products)
    /\ unit' = [u \in Unit |-> IF Exists(u) THEN [NoUnit EXCEPT !.state = "gone"] ELSE unit[u]]
    /\ item' = [i \in Item |-> [item[i] EXCEPT !.unit = None]]
    /\ sig' = [s \in Sig |-> IF Automatic(sig, s) THEN MapTo(sig, s, {}) ELSE sig[s]]
    /\ owed' = FALSE
    /\ UNCHANGED <<used, ads, pending, creating>>

ItemsWith(products) == {i \in Item : ProductOf[i] \in products}

\* A product goes to the unit, or group, that bears its name, or to a new unit.
Placings(products) ==
    LET Taken(into) == {into[p] : p \in products} IN
    {into \in [products -> {u \in Unit : Exists(u)} \cup Unborn] :
        \A u, v \in Unborn : v > u /\ v \in Taken(into) => u \in Taken(into)}

Seed(into) ==
    [u \in Unit |->
        LET ids == ItemsWith({p \in DOMAIN into : into[p] = u}) IN
        CASE u \in Unborn /\ ids # {} -> NewUnit({}, ids)
          [] Exists(u) -> [unit[u] EXCEPT !.links = @ \cup ids]
          [] OTHER -> unit[u]]

\* Second commit, with what the first one was asked for.
SeedCreates ==
    /\ seeding # <<>>
    /\ seeding' = Tail(seeding)
    /\ \E into \in Placings(Head(seeding)) : Settle(Seed(into), sig)
    /\ UNCHANGED <<rule, cost, pending, creating, commands>>

-----------------------------------------------------------------------------
(* Ads.                                                                    *)

FirstRuleIsOn == rule # <<>> /\ rule[1].state = "on"
MayTakeRule(u) == Exists(u) /\ unit[u].parent = None

AskRule == \E u \in Unit :
    MayTakeRule(u) /\ ~FirstRuleIsOn /\ Ask([kind |-> "rule", unit |-> u])

\* The first rule with the pattern is used again.
CreateRule ==
    /\ Turn("rule")
    /\ rule' = IF rule = <<>> THEN <<[unit |-> Asked.unit, state |-> "on"]>>
               ELSE [rule EXCEPT ![1] = [unit |-> Asked.unit, state |-> "on"]]
    /\ UNCHANGED <<unit, orders, campaign, cost, handlers, commands>>

AskUpdateRule == \E r \in DOMAIN rule, u \in Unit :
    MayTakeRule(u) /\ Ask([kind |-> "ruleUnit", rule |-> r, unit |-> u])

UpdateRule ==
    /\ Turn("ruleUnit")
    /\ rule' = [rule EXCEPT ![Asked.rule].unit = Asked.unit]
    /\ UNCHANGED <<unit, orders, campaign, cost, handlers, commands>>

SwitchRule == \E r \in DOMAIN rule, state \in {"on", "off"} :
    /\ Now
    /\ rule' = [rule EXCEPT ![r].state = state]
    /\ UNCHANGED <<unit, orders, campaign, cost>>

\* RECALCULATE_AD_MAPPING, or the campaign's own recalculation.
RecalculateAds ==
    /\ campaign' = AdRecalculated(unit, rule, campaign)
    /\ cost' = Applied(campaign', cost)
    /\ UNCHANGED <<unit, orders, rule, pending, handlers, commands>>

\* A user maps the campaign, to a child or a group too.
AskMapAd == campaign.known /\ \E u \in Unit :
    Active(unit, u) /\ Ask([kind |-> "mapAd", unit |-> u])

MapAd ==
    /\ Turn("mapAd")
    /\ campaign' = [campaign EXCEPT !.unit = Asked.unit, !.confirmed = TRUE]
    /\ cost' = Applied(campaign', cost)
    /\ UNCHANGED <<unit, orders, rule, handlers, commands>>

\* A user leaves the campaign unmapped on purpose.
UnmapAd ==
    /\ Now /\ campaign.known
    /\ campaign' = [campaign EXCEPT !.unit = None, !.confirmed = TRUE]
    /\ cost' = Applied(campaign', cost)
    /\ UNCHANGED <<unit, orders, rule>>

Uploads(state) == {n \in 1..MaxUploads : cost[n].state = state}

\* No upload of the day has the campaign yet.
AskUpload ==
    /\ Uploads("active") = {}
    /\ Cardinality(Uploads("none")) > Cardinality({n \in DOMAIN pending : pending[n].kind = "upload"})
    /\ Ask([kind |-> "upload"])

\* The campaign of an upload is known from now on, and used once more.
Recognised(ca) == [ca EXCEPT !.known = TRUE, !.used = @ + 1]

Upload ==
    /\ Turn("upload")
    /\ campaign' = AdRecalculated(unit, rule, Recognised(campaign))
    /\ \E n \in Uploads("none") :
        /\ \A m \in Uploads("none") : n <= m
        /\ cost' = Applied(campaign', [cost EXCEPT ![n].state = "active"])
    /\ UNCHANGED <<unit, orders, rule, handlers, commands>>

RowsOf(co) == {n \in DOMAIN co : co[n].state = "active"}

\* The campaign's rows are counted again.
Recounted(ca, co) == [ca EXCEPT !.used = Cardinality(RowsOf(co))]

DeleteUpload == \E n \in Uploads("active") :
    /\ Now
    /\ cost' = [cost EXCEPT ![n] = [state |-> "deleted", unit |-> None]]
    /\ campaign' = Recounted(campaign, cost')
    /\ UNCHANGED <<unit, orders, rule>>

-----------------------------------------------------------------------------
\* The counts as they are rebuilt from the items.
Usage(it) == [s \in Sig |-> Cardinality({i \in Item : it[i].sig = s})]

\* A campaign that no user has confirmed is read as its last row has it.
Normalized(ca, co) ==
    LET last == RowsOf(co)
        read == IF ~ca.confirmed /\ last # {} THEN [ca EXCEPT !.unit = co[Last(last)].unit] ELSE ca
    IN  Recounted(read, co)

\* A default rule is added for a unit that bears its name if none is on.
Seeded == {rule} \cup
    IF (\E r \in DOMAIN rule : rule[r].state = "on") \/ Len(rule) = MaxRules THEN {}
    ELSE {Append(rule, [unit |-> u, state |-> "on"]) : u \in {v \in Unit : Active(unit, v)}}

\* Requests are lost; every store is recalculated when the process is up again.
Restart ==
    /\ pending' = <<>> /\ creating' = {} /\ seeding' = <<>>
    /\ LET all == Everything(unit, sig, item) IN sig' = all.sig /\ item' = all.item
    /\ owed' = FALSE
    /\ rule' \in Seeded
    /\ campaign' = AdRecalculated(unit, rule', Normalized(campaign, cost))
    /\ used' = Usage(item)
    /\ UNCHANGED <<unit, cost, commands>>

Next ==
    \/ Create \/ AskUpdate \/ Update \/ Refused \/ Deactivate \/ Activate
    \/ AskGroup \/ CreateGroup \/ AskAttach \/ Attach \/ AskDetach \/ Detach \/ Dissolve
    \/ AskMap \/ Map \/ CreateFor \/ MapCreated \/ SaveItem \/ RecalculateOrders
    \/ SeedClears \/ SeedCreates
    \/ AskRule \/ CreateRule \/ AskUpdateRule \/ UpdateRule \/ SwitchRule
    \/ RecalculateAds \/ AskMapAd \/ MapAd \/ UnmapAd
    \/ AskUpload \/ Upload \/ DeleteUpload
    \/ Restart

Spec == Init /\ [][Next]_vars

-----------------------------------------------------------------------------
(* Daily profit rows: where each item and each cost is counted.            *)

ItemsOf(k) == {i \in Item : item[i].unit = k.unit /\ PaidOn[i] = k.day}
RowKeys == [day : {PaidOn[i] : i \in Item} \cup {Today}, unit : Unit]

\* A cost goes to the group of its unit.
AdKey(n) == [day |-> Today, unit |-> Promoted(unit, cost[n].unit)]
Counted == {n \in Uploads("active") : cost[n].unit # None}

\* The rows of units that are not groups, then those of groups.
ChildRow(k) == ItemsOf(k) \cup {n \in Counted : AdKey(n) = k /\ k.unit \notin Group}
GroupRow(k) ==
    {i \in Item : item[i].unit # None /\ unit[item[i].unit].parent = k.unit /\ PaidOn[i] = k.day}
    \cup {n \in Counted : AdKey(n) = k /\ k.unit \in Group}

\* A row of its own replaces the row of the group.
ShownRow(k) == IF ChildRow(k) # {} /\ unit[k.unit].parent = None THEN ChildRow(k) ELSE GroupRow(k)

-----------------------------------------------------------------------------
(* Properties.                                                             *)

\* Types, and the shape of groups: the parent of a unit is a group and groups
\* are nobody's children, although a join is checked before its turn and an
\* update writes back the whole unit as its request found it.
TypeOK ==
    /\ \A u \in Unit :
        /\ unit[u].state \in {"none", "active", "off", "gone"}
        /\ unit[u].parent # None => unit[u].parent \in Group /\ u \notin Group
        /\ unit[u].names \subseteq Sig \cup {Campaign} /\ unit[u].links \subseteq Item
    /\ \A s \in Sig : sig[s].unit \in Unit \cup {None} /\ sig[s].confirmed \in BOOLEAN
    /\ \A i \in Item : item[i].sig \in Sig \cup {None} /\ item[i].unit \in Unit \cup {None}
    /\ \A r \in DOMAIN rule : rule[r].unit \in Unit /\ rule[r].state \in {"on", "off"}
    /\ campaign.unit \in Unit \cup {None}
    /\ \A n \in 1..MaxUploads : cost[n].unit \in Unit \cup {None}
    /\ owed \in BOOLEAN

\* The items are where a recalculation of the whole store would put them: what
\* a synchronisation recalculates, and what a manual mapping writes itself, is
\* all that had to change. Only a unit created for a signature, or a mapping to
\* a unit that was deactivated meanwhile, leaves a recalculation owed. And the
\* signatures are used as often as a restart would count them, the campaign's too.
AsRecalculated ==
    /\ owed \/ item = Everything(unit, sig, item).item
    /\ used = Usage(item)
    /\ campaign.used = Cardinality(RowsOf(cost))

ShownIn(x) == {k \in RowKeys : x \in ShownRow(k)}
UnitOf(x) == IF x \in Item THEN item[x].unit ELSE cost[x].unit

\* A seed that found a group of the product's name linked the product to it.
SeededGroup(u) == \E g \in Group : unit[g].links # {} /\ g \in {u, unit[u].parent}

\* Whatever becomes of groups and mappings, each mapped item and each mapped
\* cost is counted in one daily row: the rows of children and those of groups
\* neither drop it nor count it twice.
CountedOnce ==
    \A x \in Item \cup Counted :
        UnitOf(x) # None /\ Exists(UnitOf(x)) /\ ~SeededGroup(UnitOf(x)) => Cardinality(ShownIn(x)) = 1

\* What a user confirmed stays: no recalculation, upload, seed or restart maps a
\* confirmed signature anew. Only a deactivation takes the unit of items away,
\* and only another decision of a user changes the campaign's.
ConfirmedStays ==
    [][/\ \A s \in Sig : sig[s].confirmed =>
            /\ sig'[s].confirmed
            /\ \/ sig'[s].unit = sig[s].unit
               \/ sig'[s].unit = None /\ unit'[sig[s].unit].state = "off"
               \/ Turn("map") /\ Asked.sig = s /\ sig'[s].unit = Asked.unit
       /\ campaign.confirmed =>
            /\ campaign'.confirmed
            /\ \/ campaign'.unit = campaign.unit
               \/ Turn("mapAd") /\ campaign'.unit = Asked.unit
               \/ campaign'.unit = None /\ commands' # commands]_vars

\* A campaign that no user has confirmed is not mapped to the child of a group,
\* whatever joins, updates and recalculations come after each other.
AdsBelongToParents ==
    ~campaign.confirmed /\ campaign.unit # None => unit[campaign.unit].parent = None
=============================================================================
