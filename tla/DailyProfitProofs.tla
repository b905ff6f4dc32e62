------------------------- MODULE DailyProfitProofs -------------------------
(***************************************************************************)
(* Theorems about DailyProfit, for any days, items, units, groups, costs   *)
(* and numbers of requests: what is stored of a day is what would be       *)
(* calculated, and both account for every ad cost.                         *)
(***************************************************************************)
EXTENDS DailyProfit, FiniteSetTheorems, TLAPS

ItemType == [state : {"none", "SALE", "CANCELED"}, unit : Unit \cup {None}]
SigType == [unit : Unit \cup {None}, status : {"UNMAPPED", "MAPPED", "CONFLICT"}, confirmed : BOOLEAN]
CampaignType == [unit : AnyUnit \cup {None}, by : {"nobody", "rules", "user"}]
AdType == {None} \cup [unit : AnyUnit \cup {None}]
TableType == {None} \cup [Unit -> Cost \cup {None}]

\* The shape of the state; a signature that conflicts has no unit.
ShapeInv ==
    /\ parent \in [Unit -> Group \cup {None}]
    /\ link \in [Item -> Unit \cup {None}]
    /\ item \in [Item -> ItemType]
    /\ sig \in [Sig -> SigType]
    /\ \A s \in Sig : (sig[s].status = "MAPPED") <=> (sig[s].unit # None)
    /\ campaign \in CampaignType
    /\ ad \in [Date -> AdType]
    /\ table \in [Date -> TableType]
    /\ price \in Price

\* What is stored of a day is what is true of it now.
StoredIsLive ==
    \A d \in Date : stored[d] # None =>
        /\ stored[d].rows = Rows(d, None)
        /\ stored[d].notSold = NotSold(d)
        /\ stored[d].packages = Cardinality(Counted(d))
        /\ stored[d].ads = ExcludedAds(d)

IInv == ShapeInv /\ StoredIsLive

LEMMA Constants ==
    /\ Date \subseteq Nat /\ IsFiniteSet(Item) /\ PaidOn \in [Item -> Date] /\ SigOf \in [Item -> Sig]
    /\ Unit \cap Group = {} /\ None \notin Unit /\ None \notin Group /\ None \notin Cost
BY DateAssumption, ItemAssumption, UnitAssumption

-----------------------------------------------------------------------------
(* What the rows of a day depend on.                                       *)

\* The same groups, items, costs and ads of a day make the same rows.
LEMMA SameRows ==
    ASSUME NEW d \in Date, NEW f, UNCHANGED parent, ad'[d] = ad[d],
           \A i \in Item : PaidOn[i] = d => item'[i] = item[i],
           \A u : CostOf(u, d)' = CostOf(u, d)
    PROVE  /\ Rows(d, f)' = Rows(d, f) /\ Counted(d)' = Counted(d)
           /\ NotSold(d)' = NotSold(d) /\ ExcludedAds(d)' = ExcludedAds(d)
<1>1. SoldOn(d)' = SoldOn(d)
  BY DEF SoldOn
<1>2. /\ Counted(d)' = Counted(d)
      /\ \A i \in Counted(d) : i \in Item /\ PaidOn[i] = d /\ item'[i] = item[i]
  BY <1>1 DEF Counted, SoldOn
<1>3. NotSold(d)' = NotSold(d) /\ ExcludedAds(d)' = ExcludedAds(d)
  BY DEF NotSold, ExcludedAds
<1>4. \A u : /\ ItemsOn(u, d, f)' = ItemsOn(u, d, f) /\ ItemsOn(u, d, f) \subseteq Counted(d)
             /\ AdsOn(u, d, f)' = AdsOn(u, d, f)
  BY <1>2 DEF ItemsOn, AdsOn, Wanted, Promoted
<1>5. \A items : items \subseteq Counted(d) =>
        /\ {<<i, CostOf(item[i].unit, PaidOn[i])'>> : i \in items}
           = {<<i, CostOf(item[i].unit, PaidOn[i])>> : i \in items}
        /\ (\E i \in items : Lacking(i)') <=> (\E i \in items : Lacking(i))
  <2> TAKE items
  <2> HAVE items \subseteq Counted(d)
  <2>1. \A i \in items : CostOf(item[i].unit, PaidOn[i])' = CostOf(item[i].unit, PaidOn[i])
    BY <1>2
  <2>2. \A i \in items : Lacking(i)' <=> Lacking(i)
    BY <2>1 DEF Lacking
  <2> QED
    BY <2>1, <2>2
<1>6. \A g : ChildRows(g, d, f)' = ChildRows(g, d, f)
  <2>1. \A u : Row(u, ItemsOn(u, d, f), {}, {})' = Row(u, ItemsOn(u, d, f), {}, {})
    BY <1>4, <1>5 DEF Row
  <2> QED
    BY <1>4, <2>1 DEF ChildRows
<1> DEFINE Items(g) == UNION {ItemsOn(u, d, f) : u \in {v \in Unit : parent[v] = g}}
<1>7. \A g : Items(g)' = Items(g) /\ Items(g) \subseteq Counted(d)
  BY <1>4
<1> DEFINE OfUnit(u) == Row(u, ItemsOn(u, d, f), AdsOn(u, d, f), {})
           OfGroup(g) == Row(g, Items(g), AdsOn(g, d, f), ChildRows(g, d, f))
<1>8. \A u : OfUnit(u)' = OfUnit(u) /\ OfGroup(u)' = OfGroup(u)
  <2> TAKE u
  <2>1. OfUnit(u)' = OfUnit(u)
    BY <1>4, <1>5 DEF Row
  <2> HIDE DEF Items
  <2>2. OfGroup(u)' = OfGroup(u)
    BY <1>4, <1>5, <1>6, <1>7 DEF Row
  <2> QED
    BY <2>1, <2>2
<1>9. /\ Rows(d, f) = {r \in {OfUnit(u) : u \in {v \in Unit : parent[v] = None}} \cup {OfGroup(g) : g \in Group} :
                        r.items # {} \/ r.ads # {}}
      /\ Rows(d, f)' = {r \in {OfUnit(u)' : u \in {v \in Unit : parent'[v] = None}} \cup {OfGroup(g)' : g \in Group} :
                        r.items # {} \/ r.ads # {}}
  BY DEF Rows
<1> HIDE DEF OfUnit, OfGroup
<1> QED
  BY <1>2, <1>3, <1>8, <1>9

\* The day stays as it is.
Same(d) ==
    /\ Rows(d, None)' = Rows(d, None) /\ Counted(d)' = Counted(d)
    /\ NotSold(d)' = NotSold(d) /\ ExcludedAds(d)' = ExcludedAds(d)

LEMMA SameCosts ==
    ASSUME UNCHANGED table
    PROVE  \A u, d : CostOf(u, d)' = CostOf(u, d)
BY DEF CostOf, Last, Begun

\* A table says nothing of the days before its own.
LEMMA EarlierCosts ==
    ASSUME NEW c \in Date, NEW d \in Date, d < c, \A e \in Date : e # c => table'[e] = table[e]
    PROVE  \A u : CostOf(u, d)' = CostOf(u, d)
<1>1. \A e \in Date : e <= d => e # c
  BY DateAssumption
<1>2. Begun(d)' = Begun(d) /\ \A e \in Begun(d) : table'[e] = table[e]
  BY <1>1 DEF Begun
<1>3. Last(d)' = Last(d) /\ \A e \in Last(d) : table'[e] = table[e]
  BY <1>2 DEF Last
<1> QED
  BY <1>3 DEF CostOf

\* Days that are stored anew are as they are, others as they were.
LEMMA Refreshing ==
    ASSUME StoredIsLive, NEW dates, Refresh(dates),
           \A d \in Date : d \notin dates /\ stored[d] # None => Same(d)
    PROVE  StoredIsLive'
<1> SUFFICES ASSUME NEW d \in Date, stored'[d] # None
             PROVE  /\ stored'[d].rows = Rows(d, None)'
                    /\ stored'[d].notSold = NotSold(d)'
                    /\ stored'[d].packages = Cardinality(Counted(d)')
                    /\ stored'[d].ads = ExcludedAds(d)'
  BY DEF StoredIsLive
<1>1. PICK fails \in BOOLEAN :
        stored' = [e \in Date |-> IF e \notin dates THEN stored[e] ELSE IF fails THEN None ELSE Summary(e)']
  BY DEF Refresh
<1>2. CASE d \notin dates
  BY <1>1, <1>2 DEF StoredIsLive, Same
<1>3. CASE d \in dates
  BY <1>1, <1>3 DEF Summary
<1> QED
  BY <1>2, <1>3

\* All days that are stored are stored anew.
LEMMA RefreshingAll ==
    ASSUME StoredIsLive, Refresh(Always)
    PROVE  StoredIsLive'
<1>1. \A d \in Date : d \notin Always => stored[d] = None
  BY Constants DEF Always, KnownDates
<1> QED
  BY <1>1, Refreshing

-----------------------------------------------------------------------------
(* The shape of the state.                                                 *)

\* What is alone in a set of units is a unit, and the status says whether
\* there is one.
LEMMA OneUnit ==
    ASSUME NEW S \in SUBSET Unit, IsFiniteSet(S)
    PROVE  /\ The(S) \in Unit \cup {None} /\ StatusOf(S) \in {"UNMAPPED", "MAPPED", "CONFLICT"}
           /\ (StatusOf(S) = "MAPPED") <=> (The(S) # None)
<1>1. CASE Cardinality(S) = 1
  <2>1. PICK x : S = {x}
    BY <1>1, FS_Singleton
  <2>2. The(S) = x /\ x \in Unit /\ x # None
    BY <1>1, <2>1, Constants DEF The
  <2> QED
    BY <1>1, <2>2 DEF StatusOf
<1>2. CASE Cardinality(S) # 1
  BY <1>2 DEF StatusOf, The
<1> QED
  BY <1>1, <1>2

LEMMA Remapped ==
    ASSUME ShapeInv, NEW it \in [Item -> ItemType], NEW S, NEW I, Remap(it, S, I),
           link' \in [Item -> Unit \cup {None}]
    PROVE  /\ item' \in [Item -> ItemType]
           /\ \A i \in Item : i \notin I \/ it[i].state = "none" => item'[i] = it[i]
           /\ sig' \in [Sig -> SigType]
           /\ \A s \in Sig : (sig'[s].status = "MAPPED") <=> (sig'[s].unit # None)
<1>1. \A i \in Item : it[i] \in ItemType /\ Assigned(i) \in Unit \cup {None}
  BY Constants DEF ShapeInv, SigType, Assigned
<1>2. item' = [i \in Item |-> IF i \in I /\ it[i].state # "none"
                              THEN [it[i] EXCEPT !.unit = Assigned(i)] ELSE it[i]]
  BY DEF Remap, Reassigned
<1>3. \A i \in Item : [it[i] EXCEPT !.unit = Assigned(i)] \in ItemType
  BY <1>1 DEF ItemType
<1>4. item' \in [Item -> ItemType]
  BY <1>1, <1>2, <1>3
<1> DEFINE UnitsOf(s) == {item'[i].unit : i \in {j \in Item : SigOf[j] = s}} \ {None}
<1>5. sig' = [s \in Sig |-> IF s \in S /\ ~sig[s].confirmed
                            THEN [unit |-> The(UnitsOf(s)), status |-> StatusOf(UnitsOf(s)), confirmed |-> FALSE]
                            ELSE sig[s]]
  BY DEF Remap, Inferred
<1>6. ASSUME NEW s \in Sig
      PROVE  UnitsOf(s) \in SUBSET Unit /\ IsFiniteSet(UnitsOf(s))
  <2> DEFINE own == {j \in Item : SigOf[j] = s}
             units == {item'[i].unit : i \in own}
             f == [i \in own |-> item'[i].unit]
  <2>1. IsFiniteSet(own)
    BY Constants, FS_Subset
  <2> HIDE DEF own
  <2>2. IsFiniteSet(units)
    <3>1. f \in Surjection(own, units)
      BY DEF Surjection
    <3> QED
      BY <2>1, <3>1, FS_Surjection
  <2> USE DEF own
  <2>3. IsFiniteSet(UnitsOf(s))
    BY <2>2, FS_Difference
  <2>4. UnitsOf(s) \subseteq Unit
    BY <1>4 DEF ItemType
  <2> QED
    BY <2>3, <2>4
<1> HIDE DEF UnitsOf
<1>7. \A s \in Sig : [unit |-> The(UnitsOf(s)), status |-> StatusOf(UnitsOf(s)), confirmed |-> FALSE] \in SigType
  BY <1>6, OneUnit DEF SigType
<1>8. sig' \in [Sig -> SigType]
  BY <1>5, <1>7 DEF ShapeInv
<1>9. \A s \in Sig : (sig'[s].status = "MAPPED") <=> (sig'[s].unit # None)
  BY <1>5, <1>6, OneUnit DEF ShapeInv
<1> QED
  BY <1>2, <1>4, <1>8, <1>9

LEMMA Decided ==
    ASSUME ShapeInv
    PROVE  Decisions \subseteq CampaignType
BY DEF ShapeInv, Decisions, CampaignType

LEMMA ShapeStep ==
    ASSUME IInv, [Next]_vars
    PROVE  ShapeInv'
<1>1. ShapeInv
  BY DEF IInv
<1> USE <1>1 DEF orders, ads
<1>2. ASSUME NEW i \in Item, NEW state \in {"SALE", "CANCELED"}, SaveItem(i, state)
      PROVE  ShapeInv'
  <2>1. [state |-> state, unit |-> None] \in ItemType
    BY DEF ItemType
  <2>2. [item EXCEPT ![i] = [state |-> state, unit |-> None]] \in [Item -> ItemType]
    BY <2>1 DEF ShapeInv
  <2> QED
    BY <1>2, <2>2, Remapped DEF ShapeInv, SaveItem
<1>3. ASSUME NEW s \in Sig, NEW u \in Unit, MapItems(s, u)
      PROVE  ShapeInv'
  <2>1. [unit |-> u, status |-> "MAPPED", confirmed |-> TRUE] \in SigType /\ u # None
    BY Constants DEF SigType
  <2>2. \A i \in Item : [item[i] EXCEPT !.unit = u] \in ItemType
    BY DEF ShapeInv, ItemType
  <2>3. sig' = [sig EXCEPT ![s] = [unit |-> u, status |-> "MAPPED", confirmed |-> TRUE]]
        /\ item' = [i \in Item |-> IF SigOf[i] = s /\ item[i].state # "none" THEN [item[i] EXCEPT !.unit = u] ELSE item[i]]
        /\ UNCHANGED <<parent, link, ads, table, price>>
    BY <1>3 DEF MapItems
  <2>4. item' \in [Item -> ItemType]
    BY <2>2, <2>3 DEF ShapeInv
  <2>5. sig' \in [Sig -> SigType] /\ \A t \in Sig : (sig'[t].status = "MAPPED") <=> (sig'[t].unit # None)
    BY <2>1, <2>3 DEF ShapeInv
  <2> QED
    BY <2>3, <2>4, <2>5 DEF ShapeInv
<1>4. CASE RecalculateOrders
  BY <1>4, Remapped DEF ShapeInv, RecalculateOrders
<1>5. ASSUME NEW i \in Item, NEW u \in Unit \cup {None}, UpdateUnit(i, u)
      PROVE  ShapeInv'
  <2>1. link' \in [Item -> Unit \cup {None}] /\ UNCHANGED <<parent, table, price>>
    BY <1>5 DEF ShapeInv, UpdateUnit, Relinked
  <2>2. Remap(item, Sig, Item) /\ Reconsidered
    BY <1>5 DEF UpdateUnit
  <2>3. campaign' \in CampaignType /\ ad' = ad
    BY <2>2, Decided DEF ShapeInv, Reconsidered
  <2> QED
    BY <2>1, <2>2, <2>3, Remapped DEF ShapeInv
<1>6. ASSUME NEW u \in Unit, NEW g \in Group \cup {None}, Regroup(u, g)
      PROVE  ShapeInv'
  <2>1. parent' \in [Unit -> Group \cup {None}] /\ UNCHANGED <<link, orders, table, price>>
    BY <1>6 DEF ShapeInv, Regroup
  <2>2. campaign' \in CampaignType /\ ad' = ad
    BY <1>6, Decided DEF ShapeInv, Regroup, Reconsidered
  <2> QED
    BY <2>1, <2>2 DEF ShapeInv
<1>7. ASSUME NEW g \in Group, Dissolve(g)
      PROVE  ShapeInv'
  <2>1. parent' \in [Unit -> Group \cup {None}] /\ UNCHANGED <<link, orders, campaign, table, price>>
    BY <1>7 DEF ShapeInv, Dissolve
  <2>2. [unit |-> None] \in AdType
    BY DEF AdType
  <2>3. ad' \in [Date -> AdType]
    BY <1>7, <2>2 DEF ShapeInv, Dissolve
  <2> QED
    BY <2>1, <2>3 DEF ShapeInv
<1>8. ASSUME NEW d \in Date, NEW entries \in [Unit -> Cost \cup {None}], ImportCosts(d, entries)
      PROVE  ShapeInv'
  <2>1. entries \in TableType
    BY DEF TableType
  <2>2. table' \in [Date -> TableType] /\ UNCHANGED <<parent, orders, ads, price>>
    BY <1>8, <2>1 DEF ShapeInv, ImportCosts
  <2>3. link' \in [Item -> Unit \cup {None}]
    BY <1>8 DEF ShapeInv, ImportCosts, Relinked
  <2> QED
    BY <2>2, <2>3 DEF ShapeInv
<1>9. ASSUME NEW d \in Date, DeleteCosts(d)
      PROVE  ShapeInv'
  BY <1>9 DEF ShapeInv, DeleteCosts, TableType
<1>10. ASSUME NEW p \in Price, SetDeliveryCost(p)
       PROVE  ShapeInv'
  BY <1>10 DEF ShapeInv, SetDeliveryCost
<1>11. \A c \in CampaignType : [unit |-> c.unit] \in AdType
  BY DEF CampaignType, AdType
<1>12. \A m \in CampaignType : MappedLike(m) => ad' \in [Date -> AdType]
  BY <1>11 DEF MappedLike, ShapeInv
<1>13. ASSUME NEW d \in Date, Upload(d) \/ DeleteUpload(d)
       PROVE  ShapeInv'
  <2>1. UNCHANGED <<parent, link, orders, table, price>>
    BY <1>13 DEF Upload, DeleteUpload
  <2>2. campaign' \in CampaignType
    BY <1>13, Decided DEF Upload, DeleteUpload, ShapeInv
  <2>3. None \in AdType
    BY DEF AdType
  <2>4. ad' \in [Date -> AdType]
    BY <1>11, <1>13, <2>2, <2>3 DEF Upload, DeleteUpload, ShapeInv
  <2> QED
    BY <2>1, <2>2, <2>4 DEF ShapeInv
<1>14. ASSUME NEW u \in AnyUnit \cup {None}, MapAds([unit |-> u, by |-> "user"])
       PROVE  ShapeInv'
  <2>1. [unit |-> u, by |-> "user"] \in CampaignType
    BY DEF CampaignType
  <2> QED
    BY <1>12, <1>14, <2>1 DEF ShapeInv, MapAds
<1>15. CASE RecalculateAds
  <2>1. campaign' \in CampaignType
    BY <1>15, Decided DEF RecalculateAds
  <2> QED
    BY <1>12, <1>15, <2>1 DEF ShapeInv, RecalculateAds
<1>16. ASSUME NEW from \in Date, NEW to \in Date, Recalculate(from, to)
       PROVE  ShapeInv'
  BY <1>16 DEF ShapeInv, Recalculate
<1>17. CASE UNCHANGED vars
  BY <1>17 DEF ShapeInv, vars
<1> QED
  BY <1>2, <1>3, <1>4, <1>5, <1>6, <1>7, <1>8, <1>9, <1>10, <1>13, <1>14, <1>15, <1>16, <1>17 DEF Next

-----------------------------------------------------------------------------
(* Each request knows which days it changed.                               *)

\* Days whose items stay, when nothing else changes.
LEMMA OtherItems ==
    ASSUME UNCHANGED <<parent, ad, table>>, NEW d \in Date,
           \A i \in Item : PaidOn[i] = d => item'[i] = item[i]
    PROVE  Same(d)
BY SameCosts, SameRows DEF Same

\* Days whose ad cost stays, when nothing else changes.
LEMMA OtherAds ==
    ASSUME UNCHANGED <<parent, item, table>>, NEW d \in Date, ad'[d] = ad[d]
    PROVE  Same(d)
BY SameCosts, SameRows DEF Same

LEMMA LiveStep ==
    ASSUME IInv, [Next]_vars
    PROVE  StoredIsLive'
<1>1. ShapeInv /\ StoredIsLive
  BY DEF IInv
<1>2. ASSUME NEW i \in Item, NEW state \in {"SALE", "CANCELED"}, SaveItem(i, state)
      PROVE  StoredIsLive'
  <2> DEFINE it == [item EXCEPT ![i] = [state |-> state, unit |-> None]]
  <2>1. UNCHANGED <<parent, link, ad, table>> /\ Remap(it, {SigOf[i]}, {i}) /\ Refresh({PaidOn[i]})
    BY <1>2 DEF SaveItem, ads
  <2>2. \A j \in Item : j # i => item'[j] = item[j]
    BY <1>1, <2>1 DEF Remap, Reassigned, ShapeInv
  <2>3. \A d \in Date : d \notin {PaidOn[i]} => Same(d)
    BY <2>1, <2>2, OtherItems
  <2> QED
    BY <1>1, <2>1, <2>3, Refreshing
<1>3. ASSUME NEW s \in Sig, NEW u \in Unit, MapItems(s, u)
      PROVE  StoredIsLive'
  <2>1. /\ UNCHANGED <<parent, ad, table>> /\ Refresh(DatesOf(s))
        /\ item' = [i \in Item |-> IF SigOf[i] = s /\ item[i].state # "none"
                                   THEN [item[i] EXCEPT !.unit = u] ELSE item[i]]
    BY <1>3 DEF MapItems, ads
  <2>2. ASSUME NEW d \in Date, d \notin DatesOf(s)
        PROVE  \A i \in Item : PaidOn[i] = d => item'[i] = item[i]
    BY <2>1, <2>2 DEF DatesOf
  <2> QED
    BY <1>1, <2>1, <2>2, OtherItems, Refreshing
<1>4. CASE RecalculateOrders
  <2>1. UNCHANGED <<parent, link, ad, table>> /\ Remap(item, Sig, Item) /\ Refresh(PaymentDates)
    BY <1>4 DEF RecalculateOrders, ads
  <2>2. ASSUME NEW d \in Date, d \notin PaymentDates
        PROVE  \A i \in Item : PaidOn[i] = d => item'[i] = item[i]
    BY <2>1, <2>2 DEF PaymentDates, Remap, Reassigned
  <2> QED
    BY <1>1, <2>1, <2>2, OtherItems, Refreshing
<1>5. ASSUME NEW i, NEW u, UpdateUnit(i, u) \/ Regroup(i, u) \/ Dissolve(i)
      PROVE  StoredIsLive'
  BY <1>1, <1>5, RefreshingAll DEF UpdateUnit, Regroup, Dissolve
<1>6. ASSUME NEW c \in Date, UNCHANGED <<parent, item, ad>>, Refresh(KnownDates(c)),
             \A e \in Date : e # c => table'[e] = table[e]
      PROVE  StoredIsLive'
  <2>1. ASSUME NEW d \in Date, d \notin KnownDates(c), stored[d] # None
        PROVE  Same(d)
    <3>1. d < c
      BY <2>1, DateAssumption DEF KnownDates
    <3> QED
      BY <1>6, <3>1, EarlierCosts, SameRows DEF Same
  <2> QED
    BY <1>1, <1>6, <2>1, Refreshing
<1>7. ASSUME NEW d \in Date, NEW entries, ImportCosts(d, entries) \/ DeleteCosts(d)
      PROVE  StoredIsLive'
  <2>1. \A e \in Date : e # d => table'[e] = table[e]
    BY <1>1, <1>7 DEF ImportCosts, DeleteCosts, ShapeInv
  <2> QED
    BY <1>6, <1>7, <2>1 DEF ImportCosts, DeleteCosts, orders, ads
<1>8. ASSUME UNCHANGED <<parent, item, ad, table>>, UNCHANGED stored
      PROVE  StoredIsLive'
  BY <1>1, <1>8, OtherAds DEF StoredIsLive, Same
<1>9. ASSUME NEW p, SetDeliveryCost(p)
      PROVE  StoredIsLive'
  BY <1>8, <1>9 DEF SetDeliveryCost, orders, ads
<1>10. ASSUME NEW d \in Date, Upload(d) \/ DeleteUpload(d)
       PROVE  StoredIsLive'
  <2>1. UNCHANGED <<parent, item, table>> /\ Refresh({d})
    BY <1>10 DEF Upload, DeleteUpload, orders
  <2>2. \A e \in Date : e \notin {d} => ad'[e] = ad[e]
    BY <1>1, <1>10 DEF Upload, DeleteUpload, ShapeInv
  <2> QED
    BY <1>1, <2>1, <2>2, OtherAds, Refreshing
<1>11. ASSUME NEW m, MapAds(m) \/ RecalculateAds
       PROVE  StoredIsLive'
  <2>1. UNCHANGED <<parent, item, table>> /\ Refresh(AdDates)
    BY <1>11 DEF MapAds, RecalculateAds, orders
  <2>2. MappedLike(m) \/ MappedLike(campaign')
    BY <1>11 DEF MapAds, RecalculateAds
  <2>3. \A e \in Date : e \notin AdDates => ad'[e] = ad[e]
    BY <2>2 DEF MappedLike
  <2> QED
    BY <1>1, <2>1, <2>3, OtherAds, Refreshing
<1>12. ASSUME NEW from, NEW to, Recalculate(from, to)
       PROVE  StoredIsLive'
  <2>1. /\ UNCHANGED <<parent, item, ad, table>>
        /\ stored' = [d \in Date |-> IF d \in from..to THEN Summary(d) ELSE stored[d]]
    BY <1>12 DEF Recalculate, orders, ads
  <2>2. \A d \in Date : Same(d)
    BY <2>1, OtherAds
  <2> QED
    BY <1>1, <2>1, <2>2 DEF StoredIsLive, Summary, Same
<1>13. CASE UNCHANGED vars
  BY <1>8, <1>13 DEF vars
<1> QED
  BY <1>2, <1>3, <1>4, <1>5, <1>7, <1>9, <1>10, <1>11, <1>12, <1>13 DEF Next

-----------------------------------------------------------------------------
(* Rows that are picked from those of a day, and where its ad cost is.     *)

\* The row of a unit that is not a group, that of a group.
OfUnit(u, d, f) == Row(u, ItemsOn(u, d, f), AdsOn(u, d, f), {})
ItemsIn(g, d, f) == UNION {ItemsOn(u, d, f) : u \in {v \in Unit : parent[v] = g}}
OfGroup(g, d, f) == Row(g, ItemsIn(g, d, f), AdsOn(g, d, f), ChildRows(g, d, f))

LEMMA RowsAre ==
    ASSUME NEW d, NEW f
    PROVE  Rows(d, f) =
             {r \in {OfUnit(u, d, f) : u \in {v \in Unit : parent[v] = None}}
                    \cup {OfGroup(g, d, f) : g \in Group} : r.items # {} \/ r.ads # {}}
BY DEF Rows, OfUnit, OfGroup, ItemsIn

LEMMA RowOf ==
    ASSUME NEW u, NEW d, NEW f
    PROVE  /\ OfUnit(u, d, f).unit = u /\ OfUnit(u, d, f).children = {}
           /\ OfUnit(u, d, f).ads = AdsOn(u, d, f)
           /\ (ItemsOn(u, d, f) = {} => OfUnit(u, d, f).items = {})
           /\ OfGroup(u, d, f).unit = u /\ OfGroup(u, d, f).children = ChildRows(u, d, f)
           /\ OfGroup(u, d, f).ads = AdsOn(u, d, f)
           /\ (ItemsIn(u, d, f) = {} => OfGroup(u, d, f).items = {})
BY DEF OfUnit, OfGroup, Row

\* What a filter leaves of the rows: the row it names, as it is without filter.
LEMMA FilteredRows ==
    ASSUME ShapeInv, NEW d, NEW f \in Group \cup {u \in Unit : parent[u] = None}
    PROVE  /\ f \in Unit => OfUnit(f, d, f) = OfUnit(f, d, None)
           /\ f \in Group => OfGroup(f, d, f) = OfGroup(f, d, None)
           /\ \A u \in Unit : parent[u] = None /\ u # f =>
                ItemsOn(u, d, f) = {} /\ AdsOn(u, d, f) = {}
           /\ \A g \in Group : g # f => ItemsIn(g, d, f) = {} /\ AdsOn(g, d, f) = {}
<1>1. f # None /\ \A u \in Unit : u \notin Group /\ u # None
  BY Constants
<1>2. \A u \in Unit : Wanted(u, f) <=> u = f \/ (f \in Group /\ parent[u] = f)
  BY <1>1 DEF Wanted
<1>3. \A g \in Group : Wanted(g, f) <=> g = f
  BY <1>1 DEF Wanted
<1>4. \A u : Wanted(u, None)
  BY DEF Wanted
<1>5. f \in Unit => OfUnit(f, d, f) = OfUnit(f, d, None)
  BY <1>2, <1>4 DEF OfUnit, ItemsOn, AdsOn
<1>6. ASSUME f \in Group
      PROVE  OfGroup(f, d, f) = OfGroup(f, d, None)
  <2>1. \A u \in Unit : parent[u] = f => ItemsOn(u, d, f) = ItemsOn(u, d, None)
    BY <1>2, <1>4, <1>6 DEF ItemsOn
  <2>2. AdsOn(f, d, f) = AdsOn(f, d, None)
    BY <1>3, <1>4, <1>6 DEF AdsOn
  <2>3. ItemsIn(f, d, f) = ItemsIn(f, d, None)
    BY <2>1 DEF ItemsIn
  <2>4. ChildRows(f, d, f) = ChildRows(f, d, None)
    BY <2>1 DEF ChildRows
  <2> QED
    BY <2>2, <2>3, <2>4 DEF OfGroup
<1>7. \A u \in Unit : parent[u] = None /\ u # f => ItemsOn(u, d, f) = {} /\ AdsOn(u, d, f) = {}
  BY <1>1, <1>2, Constants DEF ItemsOn, AdsOn
<1>8. \A u \in Unit, g \in Group : parent[u] = g /\ g # f => ItemsOn(u, d, f) = {}
  BY <1>2, Constants DEF ItemsOn
<1>9. \A g \in Group : g # f => ItemsIn(g, d, f) = {} /\ AdsOn(g, d, f) = {}
  BY <1>3, <1>8 DEF ItemsIn, AdsOn
<1> QED
  BY <1>5, <1>6, <1>7, <1>9

\* The rows picked from those of a day are those that the filter leaves.
LEMMA PickedRows ==
    ASSUME ShapeInv, NEW d, NEW f \in {None} \cup Group \cup {u \in Unit : parent[u] = None}
    PROVE  UNION {FromStored(r, f) : r \in Rows(d, None)} = Rows(d, f)
<1>1. CASE f = None
  BY <1>1 DEF FromStored
<1>2. CASE f \in Group \cup {u \in Unit : parent[u] = None}
  <2>1. f # None /\ \A u \in Unit : u \notin Group
    BY <1>2, Constants
  <2>2. \A u \in Unit : parent[u] = None =>
          FromStored(OfUnit(u, d, None), f) = IF u = f THEN {OfUnit(f, d, None)} ELSE {}
    <3> TAKE u \in Unit
    <3>1. OfUnit(u, d, None).unit = u /\ OfUnit(u, d, None).children = {}
      BY RowOf
    <3> QED
      BY <2>1, <3>1 DEF FromStored
  <2>3. ASSUME NEW g \in Group
        PROVE  FromStored(OfGroup(g, d, None), f) = IF g = f THEN {OfGroup(f, d, None)} ELSE {}
    <3>1. \A c \in ChildRows(g, d, None) : c.unit # f
      BY <1>2, <2>1, Constants DEF ChildRows, Row
    <3>2. OfGroup(g, d, None).unit = g /\ OfGroup(g, d, None).children = ChildRows(g, d, None)
      BY RowOf
    <3> QED
      BY <2>1, <3>1, <3>2 DEF FromStored
  <2> DEFINE full(r) == r.items # {} \/ r.ads # {}
             one == IF f \in Group THEN OfGroup(f, d, None) ELSE OfUnit(f, d, None)
  <2>4. UNION {FromStored(r, f) : r \in Rows(d, None)} = {r \in {one} : full(r)}
    BY <1>2, <2>1, <2>2, <2>3, RowsAre
  <2>5. Rows(d, f) = {r \in {one} : full(r)}
    BY <1>2, <2>1, FilteredRows, RowOf, RowsAre
  <2> QED
    BY <2>4, <2>5
<1> QED
  BY <1>1, <1>2

\* An ad cost is in one row or among what is left out.
LEMMA OneRow ==
    ASSUME ShapeInv, NEW d \in Date
    PROVE  LET shown == {r \in Rows(d, None) : d \in r.ads}
           IN  IF ad[d] = None THEN shown = {} /\ ExcludedAds(d) = {}
               ELSE \/ shown = {} /\ ExcludedAds(d) = {d}
                    \/ (\E r : shown = {r}) /\ ExcludedAds(d) = {}
<1> DEFINE shown == {r \in Rows(d, None) : d \in r.ads}
<1>1. \A r \in Rows(d, None) : \E u : r.ads = AdsOn(u, d, None)
  BY RowsAre, RowOf
<1>2. CASE ad[d] = None
  <2>1. ExcludedAds(d) = {} /\ \A u : AdsOn(u, d, None) = {}
    BY <1>2 DEF ExcludedAds, AdsOn
  <2> QED
    BY <1>1, <1>2, <2>1
<1>3. CASE ad[d] # None /\ ad[d].unit = None
  <2>1. ExcludedAds(d) = {d} /\ \A u : AdsOn(u, d, None) = {}
    BY <1>3 DEF ExcludedAds, AdsOn
  <2> QED
    BY <1>1, <1>3, <2>1
<1>4. CASE ad[d] # None /\ ad[d].unit # None
  <2> DEFINE p == Promoted(ad[d].unit)
  <2>1. ad[d].unit \in AnyUnit
    BY <1>4 DEF ShapeInv, AdType
  <2>2. p \in Group \/ (p \in Unit /\ parent[p] = None)
    BY <2>1 DEF ShapeInv, Promoted, AnyUnit
  <2>3. ExcludedAds(d) = {} /\ \A u : AdsOn(u, d, None) = IF u = p THEN {d} ELSE {}
    BY <1>4 DEF ExcludedAds, AdsOn, Wanted
  <2> HIDE DEF p
  <2> DEFINE one == IF p \in Group THEN OfGroup(p, d, None) ELSE OfUnit(p, d, None)
  <2>4. shown = {one}
    <3>1. \A u \in Unit : d \in OfUnit(u, d, None).ads <=> u = p
      BY <2>3, RowOf
    <3>2. \A g \in Group : d \in OfGroup(g, d, None).ads <=> g = p
      BY <2>3, RowOf
    <3>3. \A u \in Unit : u \notin Group
      BY Constants
    <3> QED
      BY <2>2, <3>1, <3>2, <3>3, RowsAre
  <2> QED
    BY <1>4, <2>3, <2>4
<1> QED
  BY <1>2, <1>3, <1>4

-----------------------------------------------------------------------------
(* The theorems.                                                           *)

\* The invariant holds in every state.
THEOREM Invariance == Spec => []IInv
<1>1. Init => IInv
  <2> SUFFICES ASSUME Init
               PROVE  IInv
    OBVIOUS
  <2>1. /\ [state |-> "none", unit |-> None] \in ItemType
        /\ [unit |-> None, status |-> "UNMAPPED", confirmed |-> FALSE] \in SigType
        /\ [unit |-> None, by |-> "nobody"] \in CampaignType
        /\ None \in AdType /\ None \in TableType
    BY DEF ItemType, SigType, CampaignType, AdType, TableType
  <2>2. ShapeInv
    BY <2>1 DEF Init, ShapeInv
  <2>3. StoredIsLive
    BY DEF Init, StoredIsLive
  <2> QED
    BY <2>2, <2>3 DEF IInv
<1>2. IInv /\ [Next]_vars => IInv'
  BY ShapeStep, LiveStep DEF IInv
<1> QED
  BY <1>1, <1>2, PTL DEF Spec

\* Units, items, ads and costs keep their shape, and a signature that
\* conflicts has no unit: recalculateOrderMappings and the requests.
THEOREM TypeCorrect == Spec => []TypeOK
<1>1. IInv => TypeOK
  <2> SUFFICES ASSUME ShapeInv
               PROVE  TypeOK
    BY DEF IInv
  <2>1. \A i \in Item : item[i].state \in {"none", "SALE", "CANCELED"} /\ item[i].unit \in Unit \cup {None}
    BY DEF ShapeInv, ItemType
  <2>2. \A s \in Sig : sig[s].unit \in Unit \cup {None} /\ (sig[s].status = "MAPPED") = (sig[s].unit # None)
    BY DEF ShapeInv, SigType
  <2>3. \A d \in Date : table[d] # None => table[d] \in [Unit -> Cost \cup {None}]
    BY DEF ShapeInv, TableType
  <2> QED
    BY <2>1, <2>2, <2>3 DEF ShapeInv, TypeOK, CampaignType, AdType
<1> QED
  BY <1>1, Invariance, PTL

\* Whatever requests follow each other and whichever refreshes fail, the rows
\* that profit-summary.service.ts has stored are those it would calculate now.
THEOREM StoredRowsAreLive == Spec => []RowsAsLive
<1>1. IInv => RowsAsLive
  BY DEF IInv, StoredIsLive, RowsAsLive
<1> QED
  BY <1>1, Invariance, PTL

\* A page that picks from stored rows answers as a calculation with its filter
\* would: listDailySalesUnitRows does not show what is stored.
THEOREM PagesAgree == Spec => []AnswersAgree
<1>1. IInv => AnswersAgree
  <2> SUFFICES ASSUME IInv, NEW d \in Date,
                      NEW f \in {None} \cup Group \cup {u \in Unit : parent[u] = None}
               PROVE  Answer(d, f) = Rows(d, f)
    BY DEF AnswersAgree
  <2>1. CASE stored[d] = None
    BY <2>1 DEF Answer
  <2>2. CASE stored[d] # None
    <3>1. stored[d].rows = Rows(d, None)
      BY <2>2 DEF IInv, StoredIsLive
    <3>2. UNION {FromStored(r, f) : r \in Rows(d, None)} = Rows(d, f)
      BY PickedRows DEF IInv
    <3> QED
      BY <2>2, <3>1, <3>2 DEF Answer
  <2> QED
    BY <2>1, <2>2
<1> QED
  BY <1>1, Invariance, PTL

\* An ad cost is in one stored row, or among what calculateDashboardSummary
\* left out, never in two and never in none.
THEOREM AdCostsAreShownOnce == Spec => []AdsAccounted
<1>1. IInv => AdsAccounted
  <2> SUFFICES ASSUME IInv, NEW d \in Date, stored[d] # None
               PROVE  LET shown == {r \in stored[d].rows : d \in r.ads}
                      IN  IF ad[d] = None THEN shown = {} /\ stored[d].ads = {}
                          ELSE Cardinality(shown) + Cardinality(stored[d].ads) = 1
    BY DEF AdsAccounted
  <2>1. stored[d].rows = Rows(d, None) /\ stored[d].ads = ExcludedAds(d)
    BY DEF IInv, StoredIsLive
  <2> DEFINE shown == {r \in Rows(d, None) : d \in r.ads}
  <2>2. IF ad[d] = None THEN shown = {} /\ ExcludedAds(d) = {}
        ELSE \/ shown = {} /\ ExcludedAds(d) = {d}
             \/ (\E r : shown = {r}) /\ ExcludedAds(d) = {}
    BY OneRow DEF IInv
  <2> HIDE DEF shown
  <2>3. Cardinality({}) = 0 /\ Cardinality({d}) = 1
    BY FS_EmptySet, FS_Singleton
  <2>4. \A r : Cardinality({r}) = 1
    BY FS_Singleton
  <2>5. ad[d] # None => Cardinality(shown) + Cardinality(ExcludedAds(d)) = 1
    <3>1. CASE shown = {} /\ ExcludedAds(d) = {d}
      BY <2>3, <3>1
    <3>2. ASSUME NEW r, shown = {r}, ExcludedAds(d) = {}
          PROVE  Cardinality(shown) + Cardinality(ExcludedAds(d)) = 1
      <4>1. Cardinality(shown) = 1 /\ Cardinality(ExcludedAds(d)) = 0
        BY <2>3, <2>4, <3>2
      <4> QED
        BY <4>1
    <3> QED
      BY <2>2, <3>1, <3>2
  <2> QED
    BY <2>1, <2>2, <2>5 DEF shown
<1> QED
  BY <1>1, Invariance, PTL

\* To import, replace or delete a cost table changes no day before its own.
THEOREM CostsLeaveThePast == Spec => PastCostsStay
<1>1. ASSUME IInv, [Next]_vars, NEW e \in Date, table'[e] # table[e], NEW d \in Date, d < e
      PROVE  Rows(d, None)' = Rows(d, None) /\ stored'[d] = stored[d]
  <2>1. ~UNCHANGED table
    BY <1>1
  <2>2. PICK c \in Date : (\E entries : ImportCosts(c, entries)) \/ DeleteCosts(c)
    BY <1>1, <2>1 DEF Next, SaveItem, MapItems, RecalculateOrders, UpdateUnit, Regroup, Dissolve,
                      SetDeliveryCost, Upload, DeleteUpload, MapAds, RecalculateAds, Recalculate, vars
  <2>3. /\ UNCHANGED <<parent, item, ad>> /\ Refresh(KnownDates(c))
        /\ \A x \in Date : x # c => table'[x] = table[x]
    BY <1>1, <2>2 DEF ImportCosts, DeleteCosts, orders, ads, IInv, ShapeInv
  <2>4. d < c
    BY <1>1, <2>3
  <2>5. Rows(d, None)' = Rows(d, None)
    BY <2>3, <2>4, EarlierCosts, SameRows
  <2>6. d \notin KnownDates(c)
    <3>1. d \in Nat /\ c \in Nat
      BY DateAssumption
    <3>2. ~(d >= c)
      BY <2>4, <3>1
    <3> QED
      BY <3>2 DEF KnownDates
  <2>7. stored'[d] = stored[d]
    BY <2>3, <2>6 DEF Refresh
  <2> QED
    BY <2>5, <2>7
<1>2. IInv /\ [Next]_vars =>
        [\A e \in Date : table'[e] # table[e] =>
            \A d \in Date : d < e => Rows(d, None)' = Rows(d, None) /\ stored'[d] = stored[d]]_vars
  BY <1>1
<1> QED
  BY <1>2, Invariance, PTL DEF Spec, PastCostsStay
=============================================================================
