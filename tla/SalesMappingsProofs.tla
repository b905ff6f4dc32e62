------------------------ MODULE SalesMappingsProofs ------------------------
(***************************************************************************)
(* Theorems about SalesMappings, for any units, groups, signatures, items, *)
(* names, ids and number of requests, uploads and rules.                   *)
(***************************************************************************)
EXTENDS SalesMappings, FiniteSetTheorems, TLAPS

UnitType ==
    [state : {"none", "active", "off", "gone"}, parent : Group \cup {None},
     names : SUBSET (Sig \cup {Campaign}), links : SUBSET Item]

SigType ==
    [unit : Unit \cup {None}, status : {"none", "UNMAPPED", "MAPPED", "CONFLICT"},
     confirmed : BOOLEAN]

ItemType == [sig : Sig \cup {None}, unit : Unit \cup {None}]

RuleType == [unit : Unit, state : {"on", "off"}]

CampaignType == [known : BOOLEAN, unit : Unit \cup {None}, confirmed : BOOLEAN, used : Nat]

CostType == [state : {"none", "active", "deleted"}, unit : Unit \cup {None}]

RequestType ==
    [kind : {"update"}, unit : Unit, to : UnitType]
    \cup [kind : {"group", "attach"}, unit : Group, children : SUBSET Plain]
    \cup [kind : {"map"}, sig : Sig, unit : Plain]
    \cup [kind : {"detach", "rule", "mapAd"}, unit : Unit]
    \cup [kind : {"ruleUnit"}, rule : Nat, unit : Unit]
    \cup [kind : {"upload"}]

Requests == {pending[n] : n \in 1..Len(pending)}

\* What the checks of a request, made before its turn, leave for its commit.
\* The unit of a new group is its own: no request that waits creates the same.
RequestInv ==
    /\ pending \in Seq(RequestType)
    /\ \A r \in Requests :
        /\ r.kind = "update" => r.to.state # "none" /\ (r.unit \in Group => r.to.parent = None)
        /\ r.kind = "group" => unit[r.unit].state = "none"
        /\ r.kind = "map" => unit[r.unit].state # "none"
        /\ r.kind = "mapAd" => campaign.known
    /\ \A m, n \in 1..Len(pending) :
        pending[m].kind = "group" /\ pending[n].kind = "group" /\ pending[m].unit = pending[n].unit
            => m = n
    /\ \A c \in creating : c \in [sig : Sig, unit : Plain] /\ unit[c.unit].state # "none"

Units(un) ==
    /\ un \in [Unit -> UnitType]
    /\ \A g \in Group : un[g].parent = None

UnitInv == Units(unit)

\* Nothing is mapped to a unit that was never created, and a user confirms
\* no group.
Mapped(un, sg, it) ==
    /\ sg \in [Sig -> SigType]
    /\ it \in [Item -> ItemType]
    /\ \A s \in Sig :
        /\ sg[s].unit # None => un[sg[s].unit].state # "none"
        /\ sg[s].confirmed => sg[s].unit \in Plain \cup {None} /\ sg[s].status # "none"
        /\ sg[s].status = "none" => sg[s].unit = None
    /\ \A i \in Item :
        /\ it[i].unit # None => un[it[i].unit].state # "none"
        /\ it[i].sig = None => it[i].unit = None
        /\ it[i].sig # None => sg[it[i].sig].status # "none"

\* Items come to a group by its ids only.
Linking(un, it, I) ==
    \A i \in I : it[i].unit \in Group => un[it[i].unit].links # {}

MappingInv == Mapped(unit, sig, item) /\ Linking(unit, item, Item)

AdInv ==
    /\ rule \in Seq(RuleType)
    /\ campaign \in CampaignType
    /\ cost \in [1..MaxUploads -> CostType]
    /\ ~campaign.known => campaign.unit = None /\ ~campaign.confirmed /\ Uploads("active") = {}
    /\ AdsBelongToParents

\* The counts of signatures and of the campaign are those of items and rows.
CountInv ==
    /\ used = Usage(item)
    /\ campaign.used = Cardinality(RowsOf(cost))

\* Where a recalculation of the whole store would put an item.
Place(un, sg, it, i) == Assigned(un, Named(un, sg, Sig), it[i].sig, i)

Placed(un, sg, it) == \A i \in Item : it[i].sig # None => it[i].unit = Place(un, sg, it, i)

PlaceInv == owed \in BOOLEAN /\ (owed \/ Placed(unit, sig, item))

IInv == UnitInv /\ RequestInv /\ MappingInv /\ AdInv /\ CountInv /\ PlaceInv

USE UnitAssumption, NoneAssumption

-----------------------------------------------------------------------------
(* Single members, and first and last ones.                                *)

LEMMA TheIn == ASSUME NEW S PROVE The(S) \in S \cup {None}
<1>1. CASE S = {}
  BY <1>1, FS_EmptySet DEF The
<1>2. CASE S # {}
  BY <1>2 DEF The
<1> QED
  BY <1>1, <1>2

LEMMA TheOne == ASSUME NEW S, Cardinality(S) = 1 PROVE The(S) \in S
<1>1. S # {}
  BY FS_EmptySet
<1> QED
  BY <1>1 DEF The

LEMMA TheOnly ==
    ASSUME NEW S, NEW x \in S, \A y \in S : y = x
    PROVE  The(S) = x
<1>1. S = {x}
  OBVIOUS
<1>2. Cardinality({x}) = 1
  BY FS_Singleton
<1> QED
  BY <1>1, <1>2 DEF The

LEMMA FirstIn == ASSUME NEW S PROVE First(S) \in S \cup {None}
  BY TheIn DEF First

LEMMA LastIn == ASSUME NEW S PROVE Last(S) \in S \cup {None}
  BY TheIn DEF Last

\* Without a member that is not the last, the last one is the same.
LEMMA LastStays ==
    ASSUME NEW S \in SUBSET Nat, NEW g \in S, Last(S) # g
    PROVE  S \ {g} # {} /\ Last(S \ {g}) = Last(S)
<1> DEFINE Top(R) == {x \in R : \A y \in R : x >= y}
<1>1. g \notin Top(S)
  <2> SUFFICES ASSUME g \in Top(S) PROVE FALSE
    OBVIOUS
  <2>1. \A y \in Top(S) : y = g
    OBVIOUS
  <2>2. The(Top(S)) = g
    BY <2>1, TheOnly
  <2> QED
    BY <2>2 DEF Last
<1>2. PICK y \in S : y > g
  BY <1>1
<1>3. ASSUME NEW m \in S PROVE m \in Top(S \ {g}) <=> m \in Top(S)
  <2>1. ASSUME m \in Top(S \ {g}) PROVE m >= g
    <3>1. m >= y
      BY <1>2, <2>1
    <3> QED
      BY <1>2, <3>1
  <2> QED
    BY <1>1, <2>1
<1>4. Top(S \ {g}) = Top(S)
  BY <1>3
<1> QED
  BY <1>2, <1>4 DEF Last

-----------------------------------------------------------------------------
(* The recalculation of order mappings.                                    *)

\* Signatures that a user has confirmed, or that are not known, stay.
Follows(new, old) ==
    \A s \in Sig :
        /\ new[s].confirmed = old[s].confirmed
        /\ new[s].status = "none" <=> old[s].status = "none"
        /\ ~Automatic(old, s) => new[s] = old[s]

LEMMA StatusType ==
    ASSUME NEW S
    PROVE  StatusOf(S) \in {"UNMAPPED", "MAPPED", "CONFLICT"}
BY DEF StatusOf

LEMMA MapToIs ==
    ASSUME NEW sg \in [Sig -> SigType], NEW s \in Sig, NEW us, us \subseteq Unit
    PROVE  /\ MapTo(sg, s, us) \in SigType
           /\ MapTo(sg, s, us).unit = The(us)
           /\ MapTo(sg, s, us).status = StatusOf(us)
           /\ MapTo(sg, s, us).confirmed = sg[s].confirmed
<1>1. The(us) \in Unit \cup {None}
  BY TheIn
<1>2. sg[s] \in SigType
  OBVIOUS
<1> QED
  BY <1>1, <1>2, StatusType DEF MapTo, SigType

LEMMA NamedIs ==
    ASSUME NEW un, NEW sg \in [Sig -> SigType], NEW S
    PROVE  /\ Named(un, sg, S) \in [Sig -> SigType]
           /\ Follows(Named(un, sg, S), sg)
           /\ \A s \in Sig : s \notin S => Named(un, sg, S)[s] = sg[s]
           /\ \A s \in S \cap Sig :
                 Automatic(sg, s) => Named(un, sg, S)[s] = MapTo(sg, s, Matching(un, s))
<1>1. \A s \in Sig : Matching(un, s) \subseteq Unit
  BY DEF Matching, Unit
<1>2. \A s \in Sig :
        /\ MapTo(sg, s, Matching(un, s)) \in SigType
        /\ MapTo(sg, s, Matching(un, s)).status # "none"
        /\ MapTo(sg, s, Matching(un, s)).confirmed = sg[s].confirmed
  BY <1>1, MapToIs, StatusType
<1> QED
  BY <1>2 DEF Named, Follows, Automatic

LEMMA InferredIs ==
    ASSUME NEW sg \in [Sig -> SigType], NEW it \in [Item -> ItemType], NEW S
    PROVE  /\ Inferred(sg, it, S) \in [Sig -> SigType]
           /\ Follows(Inferred(sg, it, S), sg)
           /\ \A s \in Sig : s \notin S => Inferred(sg, it, S)[s] = sg[s]
           /\ \A s \in Sig :
                 \/ Inferred(sg, it, S)[s].unit = sg[s].unit
                 \/ Inferred(sg, it, S)[s].unit = None
                 \/ \E i \in Item : Inferred(sg, it, S)[s].unit = it[i].unit
<1> DEFINE UnitsOf(s) == {it[i].unit : i \in {j \in Item : it[j].sig = s}} \ {None}
<1>1. \A s \in Sig : UnitsOf(s) \subseteq Unit
  BY DEF ItemType
<1>2. \A s \in Sig :
        /\ MapTo(sg, s, UnitsOf(s)) \in SigType
        /\ MapTo(sg, s, UnitsOf(s)).status # "none"
        /\ MapTo(sg, s, UnitsOf(s)).confirmed = sg[s].confirmed
        /\ MapTo(sg, s, UnitsOf(s)).unit = The(UnitsOf(s))
  BY <1>1, MapToIs, StatusType
<1>3. \A s \in Sig : \A u \in UnitsOf(s) : \E i \in Item : u = it[i].unit
  OBVIOUS
<1>4. Inferred(sg, it, S) =
        [s \in Sig |-> IF s \in S /\ Automatic(sg, s) /\ UnitsOf(s) # {}
                       THEN MapTo(sg, s, UnitsOf(s)) ELSE sg[s]]
  BY DEF Inferred
<1> HIDE DEF UnitsOf
<1>5. ASSUME NEW s \in Sig, MapTo(sg, s, UnitsOf(s)).unit # None
      PROVE  \E i \in Item : MapTo(sg, s, UnitsOf(s)).unit = it[i].unit
  <2>1. The(UnitsOf(s)) \in UnitsOf(s)
    BY <1>2, <1>5, TheIn
  <2> QED
    BY <1>2, <1>3, <2>1
<1> QED
  BY <1>2, <1>4, <1>5 DEF Follows, Automatic

\* What is inferred from items is forgotten by the next recalculation.
LEMMA NamedAgain ==
    ASSUME NEW un, NEW sg \in [Sig -> SigType], NEW it \in [Item -> ItemType], NEW S
    PROVE  Named(un, Inferred(Named(un, sg, S), it, S), Sig) = Named(un, sg, Sig)
<1> DEFINE named == Named(un, sg, S)
           new == Inferred(named, it, S)
<1>1. named \in [Sig -> SigType] /\ Follows(named, sg)
  BY NamedIs
<1>2. \A s \in Sig : s \notin S => named[s] = sg[s]
  BY NamedIs
<1> HIDE DEF named
<1>3. new \in [Sig -> SigType] /\ Follows(new, named) /\ \A s \in Sig : s \notin S => new[s] = named[s]
  BY <1>1, InferredIs
<1> HIDE DEF new
<1>4. ASSUME NEW s \in Sig PROVE Named(un, new, Sig)[s] = Named(un, sg, Sig)[s]
  <2>1. CASE Automatic(sg, s)
    <3>1. Automatic(new, s)
      BY <1>1, <1>3, <2>1 DEF Follows, Automatic
    <3>2. Named(un, new, Sig)[s] = MapTo(new, s, Matching(un, s))
      BY <3>1 DEF Named
    <3>3. Named(un, sg, Sig)[s] = MapTo(sg, s, Matching(un, s))
      BY <2>1 DEF Named
    <3>4. new[s].confirmed = sg[s].confirmed
      BY <1>1, <1>3 DEF Follows
    <3>5. Matching(un, s) \subseteq Unit
      BY DEF Matching, Unit
    <3> DEFINE a == MapTo(new, s, Matching(un, s))
               b == MapTo(sg, s, Matching(un, s))
    <3>6. a \in SigType /\ b \in SigType /\ a.unit = b.unit /\ a.status = b.status
          /\ a.confirmed = b.confirmed
      BY <1>3, <3>4, <3>5, MapToIs
    <3> HIDE DEF a, b
    <3>7. a = b
      BY <3>6 DEF SigType
    <3> QED
      BY <3>2, <3>3, <3>7 DEF a, b
  <2>2. CASE ~Automatic(sg, s)
    <3>1. named[s] = sg[s] /\ ~Automatic(named, s)
      BY <1>1, <2>2 DEF Follows, Automatic
    <3>2. new[s] = sg[s] /\ ~Automatic(new, s)
      BY <1>3, <3>1 DEF Follows, Automatic
    <3> QED
      BY <2>2, <3>2 DEF Named
  <2> QED
    BY <2>1, <2>2
<1>5. Named(un, new, Sig) = [s \in Sig |-> Named(un, new, Sig)[s]]
      /\ Named(un, sg, Sig) = [s \in Sig |-> Named(un, sg, Sig)[s]]
  BY DEF Named
<1>6. Named(un, new, Sig) = Named(un, sg, Sig)
  BY <1>4, <1>5
<1> QED
  BY <1>6 DEF new, named

LEMMA AssignedIs ==
    ASSUME NEW un, NEW sg \in [Sig -> SigType], NEW s \in Sig, NEW i
    PROVE  /\ Assigned(un, sg, s, i) \in Unit \cup {None}
           /\ Assigned(un, sg, s, i) # None => un[Assigned(un, sg, s, i)].state \in {"active", "off"}
           /\ Assigned(un, sg, s, i) # None /\ Assigned(un, sg, s, i) # sg[s].unit =>
                 i \in un[Assigned(un, sg, s, i)].links
<1> DEFINE u == Resolved(un, sg, s, i)
<1>1. u \in Unit \cup {None} /\ (u # None /\ u # sg[s].unit => i \in un[u].links)
  <2>1. sg[s].unit \in Unit \cup {None}
    BY DEF SigType
  <2>2. Last(Linked(un, i)) \in Linked(un, i) \cup {None}
    BY LastIn
  <2>3. Linked(un, i) \subseteq Unit /\ \A v \in Linked(un, i) : i \in un[v].links
    BY DEF Linked
  <2> QED
    BY <2>1, <2>2, <2>3 DEF Resolved
<1> HIDE DEF u
<1>2. Assigned(un, sg, s, i) =
        IF u # None /\ (Active(un, u) \/ (un[u].state = "off" /\ PaidOn[i] < Today)) THEN u ELSE None
  BY DEF Assigned, u
<1> QED
  BY <1>1, <1>2 DEF Active

\* An assignment reads one signature.
LEMMA AssignedReads ==
    ASSUME NEW un, NEW sg, NEW other, NEW s, NEW i, sg[s] = other[s]
    PROVE  Assigned(un, sg, s, i) = Assigned(un, other, s, i)
<1>1. Resolved(un, sg, s, i) = Resolved(un, other, s, i)
  BY DEF Resolved
<1> QED
  BY <1>1 DEF Assigned

LEMMA ReassignedType ==
    ASSUME NEW un, NEW sg \in [Sig -> SigType], NEW it \in [Item -> ItemType], NEW I
    PROVE  Reassigned(un, sg, it, I) \in [Item -> ItemType]
<1>1. ASSUME NEW i \in Item, it[i].sig # None
      PROVE  [it[i] EXCEPT !.unit = Assigned(un, sg, it[i].sig, i)] \in ItemType
  <2>1. it[i] \in ItemType /\ it[i].sig \in Sig
    BY <1>1 DEF ItemType
  <2>2. Assigned(un, sg, it[i].sig, i) \in Unit \cup {None}
    BY <2>1, AssignedIs
  <2> QED
    BY <2>1, <2>2 DEF ItemType
<1> QED
  BY <1>1 DEF Reassigned

LEMMA ReassignedIs ==
    ASSUME NEW un, NEW sg, NEW it \in [Item -> ItemType], NEW I, NEW i \in Item
    PROVE  /\ Reassigned(un, sg, it, I)[i].sig = it[i].sig
           /\ i \notin I \/ it[i].sig = None => Reassigned(un, sg, it, I)[i] = it[i]
           /\ i \in I /\ it[i].sig # None =>
                 Reassigned(un, sg, it, I)[i].unit = Assigned(un, sg, it[i].sig, i)
<1> DEFINE a == Assigned(un, sg, it[i].sig, i)
<1>1. Reassigned(un, sg, it, I)[i] =
        IF i \in I /\ it[i].sig # None THEN [it[i] EXCEPT !.unit = a] ELSE it[i]
  BY DEF Reassigned
<1>2. it[i] \in ItemType
  OBVIOUS
<1> HIDE DEF a
<1>3. [it[i] EXCEPT !.unit = a].sig = it[i].sig /\ [it[i] EXCEPT !.unit = a].unit = a
  BY <1>2 DEF ItemType
<1> QED
  BY <1>1, <1>3 DEF a

LEMMA RecalculatedIs ==
    ASSUME NEW un, NEW sg, NEW it, NEW S, NEW I \in SUBSET Item,
           Mapped(un, sg, it), Linking(un, it, Item \ I),
           \A i \in I : it[i].sig # None => it[i].sig \in S
    PROVE  LET d == Recalculated(un, sg, it, S, I) IN
           /\ Mapped(un, d.sig, d.item)
           /\ Linking(un, d.item, Item)
           /\ Follows(d.sig, sg)
           /\ Named(un, d.sig, Sig) = Named(un, sg, Sig)
           /\ \A i \in Item : d.item[i].sig = it[i].sig
           /\ \A i \in Item \ I : d.item[i] = it[i]
           /\ \A i \in I : it[i].sig # None => d.item[i].unit = Place(un, sg, it, i)
           /\ \A s \in Sig \ S : d.sig[s] = sg[s]
<1> DEFINE named == Named(un, sg, S)
           items == Reassigned(un, named, it, I)
           new == Inferred(named, items, S)
<1>1. sg \in [Sig -> SigType] /\ it \in [Item -> ItemType]
  BY DEF Mapped
<1>2. /\ named \in [Sig -> SigType] /\ Follows(named, sg)
      /\ \A s \in Sig : s \notin S => named[s] = sg[s]
      /\ \A s \in S \cap Sig : Automatic(sg, s) => named[s] = MapTo(sg, s, Matching(un, s))
  <2>1. sg \in [Sig -> SigType]
    BY <1>1
  <2> QED
    BY <2>1, NamedIs
<1>3. Named(un, Inferred(named, items, S), Sig) = Named(un, sg, Sig)
  <2>1. items \in [Item -> ItemType]
    BY <1>1, <1>2, ReassignedType
  <2> QED
    BY <1>1, <2>1, NamedAgain
<1>4. Recalculated(un, sg, it, S, I) = [sig |-> new, item |-> items]
  BY DEF Recalculated
<1>5. ASSUME NEW s \in Sig
      PROVE  /\ named[s].unit # None => un[named[s].unit].state # "none"
             /\ s \in S => named[s].unit \notin Group
             /\ s \in S => named[s] = Named(un, sg, Sig)[s]
  <2>1. The(Matching(un, s)) \in Matching(un, s) \cup {None}
    BY TheIn
  <2>2. Matching(un, s) \subseteq Plain /\ \A u \in Matching(un, s) : un[u].state # "none"
    BY DEF Matching, Active
  <2>3. Plain \cap Group = {} /\ None \notin Group /\ Plain \subseteq Unit
    BY DEF Unit
  <2>4. s \in S => named[s] = Named(un, sg, Sig)[s]
    BY DEF Named
  <2>5. CASE s \in S /\ Automatic(sg, s)
    <3>1. named[s].unit = The(Matching(un, s))
      <4>1. Matching(un, s) \subseteq Unit /\ sg \in [Sig -> SigType]
        BY <1>1, <2>2, <2>3
      <4>2. MapTo(sg, s, Matching(un, s)).unit = The(Matching(un, s))
        BY <4>1, MapToIs
      <4> QED
        BY <1>2, <2>5, <4>2
    <3> QED
      BY <2>1, <2>2, <2>3, <2>4, <3>1
  <2>6. CASE s \notin S \/ ~Automatic(sg, s)
    <3>1. named[s] = sg[s]
      BY <1>2, <2>6 DEF Follows
    <3>2. sg[s].unit # None => un[sg[s].unit].state # "none"
      BY DEF Mapped
    <3>3. s \in S => sg[s].unit \in Plain \cup {None}
      BY <1>1, <2>6 DEF Mapped, Automatic, SigType
    <3> QED
      BY <2>3, <2>4, <3>1, <3>2, <3>3
  <2> QED
    BY <2>5, <2>6
<1> HIDE DEF named
<1>6. /\ items \in [Item -> ItemType]
      /\ \A i \in Item :
            /\ items[i].sig = it[i].sig
            /\ i \notin I \/ it[i].sig = None => items[i] = it[i]
            /\ i \in I /\ it[i].sig # None => items[i].unit = Assigned(un, named, it[i].sig, i)
  <2>1. named \in [Sig -> SigType] /\ it \in [Item -> ItemType]
    BY <1>1, <1>2
  <2>2. Reassigned(un, named, it, I) \in [Item -> ItemType]
    BY <2>1, ReassignedType
  <2>3. ASSUME NEW i \in Item
        PROVE  /\ items[i].sig = it[i].sig
               /\ i \notin I \/ it[i].sig = None => items[i] = it[i]
               /\ i \in I /\ it[i].sig # None => items[i].unit = Assigned(un, named, it[i].sig, i)
    BY <2>1, ReassignedIs
  <2> QED
    BY <2>2, <2>3
<1> HIDE DEF items
<1>7. /\ new \in [Sig -> SigType] /\ Follows(new, named)
      /\ \A s \in Sig : s \notin S => new[s] = named[s]
      /\ \A s \in Sig :
            \/ new[s].unit = named[s].unit
            \/ new[s].unit = None
            \/ \E i \in Item : new[s].unit = items[i].unit
  BY <1>2, <1>6, InferredIs
<1> HIDE DEF new
<1>8. ASSUME NEW i \in Item
      PROVE  /\ items[i].unit # None => un[items[i].unit].state # "none"
             /\ items[i].unit \in Group => un[items[i].unit].links # {}
             /\ i \in I /\ it[i].sig # None => items[i].unit = Place(un, sg, it, i)
             /\ items[i].sig = None => items[i].unit = None
             /\ items[i].sig # None => new[items[i].sig].status # "none"
  <2>0. None \notin Group
    BY DEF Unit
  <2>1. items[i].sig = it[i].sig /\ it[i].sig \in Sig \cup {None}
    BY <1>1, <1>6 DEF ItemType
  <2>2. items[i].sig # None => new[items[i].sig].status # "none"
    BY <1>2, <1>7, <2>1 DEF Mapped, Follows
  <2>3. CASE i \in I /\ it[i].sig # None
    <3>1. it[i].sig \in Sig /\ it[i].sig \in S
      BY <2>1, <2>3
    <3>2. items[i].unit = Assigned(un, named, it[i].sig, i)
      BY <1>6, <2>3
    <3>3. items[i].unit = Place(un, sg, it, i)
      BY <1>5, <3>1, <3>2, AssignedReads DEF Place
    <3>4. items[i].unit \in Group => i \in un[items[i].unit].links
      BY <1>2, <1>5, <2>0, <3>1, <3>2, AssignedIs
    <3>5. items[i].unit # None => un[items[i].unit].state # "none"
      BY <1>2, <3>1, <3>2, AssignedIs
    <3> QED
      BY <2>1, <2>2, <2>3, <3>3, <3>4, <3>5
  <2>4. CASE i \notin I \/ it[i].sig = None
    <3>1. items[i] = it[i]
      BY <1>6, <2>4
    <3>2. /\ it[i].unit # None => un[it[i].unit].state # "none"
          /\ it[i].sig = None => it[i].unit = None
      BY DEF Mapped
    <3>3. i \notin I => (it[i].unit \in Group => un[it[i].unit].links # {})
      BY DEF Linking
    <3> QED
      BY <2>0, <2>2, <2>4, <3>1, <3>2, <3>3
  <2> QED
    BY <2>3, <2>4
<1>9. ASSUME NEW s \in Sig
      PROVE  /\ new[s].unit # None => un[new[s].unit].state # "none"
             /\ new[s].confirmed => new[s].unit \in Plain \cup {None} /\ new[s].status # "none"
             /\ new[s].status = "none" => new[s].unit = None
  <2>1. new[s].unit # None => un[new[s].unit].state # "none"
    BY <1>5, <1>7, <1>8
  <2>2. /\ sg[s].confirmed => sg[s].unit \in Plain \cup {None} /\ sg[s].status # "none"
        /\ sg[s].status = "none" => sg[s].unit = None
    BY DEF Mapped
  <2>3. new[s] = sg[s] \/ (Automatic(sg, s) /\ ~new[s].confirmed /\ new[s].status # "none")
    BY <1>2, <1>7 DEF Follows, Automatic
  <2> QED
    BY <2>1, <2>2, <2>3
<1>10. Mapped(un, new, items) /\ Linking(un, items, Item)
  BY <1>6, <1>7, <1>8, <1>9 DEF Mapped, Linking
<1>11. Follows(new, sg)
  BY <1>2, <1>7 DEF Follows, Automatic
<1>12. \A s \in Sig \ S : new[s] = sg[s]
  BY <1>2, <1>7
<1>13. Named(un, new, Sig) = Named(un, sg, Sig)
  BY <1>3 DEF new
<1> QED
  BY <1>4, <1>6, <1>8, <1>10, <1>11, <1>12, <1>13

\* An item is where a recalculation would put it when its unit is.
LEMMA PlacedIs ==
    ASSUME NEW un, NEW sg, NEW it \in [Item -> ItemType]
    PROVE  it = Everything(un, sg, it).item <=> Placed(un, sg, it)
<1> DEFINE named == Named(un, sg, Sig)
           items == Reassigned(un, named, it, Item)
<1>1. Everything(un, sg, it).item = items
  BY DEF Everything, Recalculated
<1>2. items = [i \in Item |-> items[i]] /\ it = [i \in Item |-> it[i]]
  BY DEF Reassigned
<1>3. ASSUME NEW i \in Item
      PROVE  items[i] = it[i] <=> (it[i].sig # None => it[i].unit = Place(un, sg, it, i))
  <2> DEFINE a == Place(un, sg, it, i)
  <2>1. items[i] = IF it[i].sig # None THEN [it[i] EXCEPT !.unit = a] ELSE it[i]
    BY DEF Reassigned, Place
  <2>2. it[i] \in ItemType
    OBVIOUS
  <2> HIDE DEF a, items
  <2>3. [it[i] EXCEPT !.unit = a] = it[i] <=> it[i].unit = a
    BY <2>2 DEF ItemType
  <2> QED
    BY <2>1, <2>3 DEF a
<1> HIDE DEF items
<1>4. items = it <=> \A i \in Item : items[i] = it[i]
  BY <1>2
<1> QED
  BY <1>1, <1>3, <1>4 DEF Placed

LEMMA EverythingIs ==
    ASSUME NEW un, NEW sg, NEW it, Mapped(un, sg, it)
    PROVE  LET d == Everything(un, sg, it) IN
           /\ Mapped(un, d.sig, d.item)
           /\ Linking(un, d.item, Item)
           /\ Follows(d.sig, sg)
           /\ \A i \in Item : d.item[i].sig = it[i].sig
           /\ Placed(un, d.sig, d.item)
<1> DEFINE d == Recalculated(un, sg, it, Sig, Item)
<1>1. Everything(un, sg, it) = d
  BY DEF Everything
<1>2. Linking(un, it, Item \ Item)
  BY DEF Linking
<1>3. \A i \in Item : it[i].sig # None => it[i].sig \in Sig
  BY DEF Mapped, ItemType
<1>4. /\ Mapped(un, d.sig, d.item)
      /\ Linking(un, d.item, Item)
      /\ Follows(d.sig, sg)
      /\ Named(un, d.sig, Sig) = Named(un, sg, Sig)
      /\ \A i \in Item : d.item[i].sig = it[i].sig
      /\ \A i \in Item : it[i].sig # None => d.item[i].unit = Place(un, sg, it, i)
  BY <1>2, <1>3, RecalculatedIs
<1> HIDE DEF d
<1>5. Placed(un, d.sig, d.item)
  BY <1>4 DEF Placed, Place
<1> QED
  BY <1>1, <1>4, <1>5

-----------------------------------------------------------------------------
(* The recalculation of ad mappings.                                       *)

LEMMA PromotedIs ==
    ASSUME NEW un, Units(un), NEW u \in Unit \cup {None}
    PROVE  /\ Promoted(un, u) \in Unit \cup {None}
           /\ Promoted(un, u) # None => un[Promoted(un, u)].parent = None
<1>1. CASE u # None /\ un[u].parent # None
  <2>1. un[u].parent \in Group
    BY <1>1 DEF Units, UnitType
  <2> QED
    BY <1>1, <2>1 DEF Promoted, Units, Unit
<1>2. CASE u = None \/ un[u].parent = None
  BY <1>2 DEF Promoted
<1> QED
  BY <1>1, <1>2

LEMMA AdTargetIs ==
    ASSUME NEW un, Units(un), NEW ru \in Seq(RuleType)
    PROVE  /\ AdTarget(un, ru) \in Unit \cup {None}
           /\ AdTarget(un, ru) # None => un[AdTarget(un, ru)].parent = None
<1> DEFINE on == RulesOn(un, ru)
           u == CASE Cardinality(on) = 1 -> ru[The(on)].unit
                  [] Cardinality(on) > 1 -> None
                  [] on = {} /\ KeywordUnits(un) # {} -> First(KeywordUnits(un))
                  [] OTHER -> The(Matching(un, Campaign))
<1>1. Cardinality(on) = 1 => ru[The(on)].unit \in Unit
  <2>1. SUFFICES ASSUME Cardinality(on) = 1 PROVE ru[The(on)].unit \in Unit
    OBVIOUS
  <2>2. The(on) \in on
    BY <2>1, TheOne
  <2>3. The(on) \in DOMAIN ru
    BY <2>2 DEF RulesOn
  <2>4. ru[The(on)] \in RuleType
    BY <2>3
  <2> QED
    BY <2>4 DEF RuleType
<1>2. First(KeywordUnits(un)) \in Unit \cup {None}
  BY FirstIn, KeywordAssumption DEF KeywordUnits, Unit
<1>3. The(Matching(un, Campaign)) \in Unit \cup {None}
  BY TheIn DEF Matching, Unit
<1>4. u \in Unit \cup {None}
  BY <1>1, <1>2, <1>3
<1>5. AdTarget(un, ru) = Promoted(un, u)
  BY DEF AdTarget
<1> HIDE DEF u
<1> QED
  BY <1>4, <1>5, PromotedIs

LEMMA AdRecalculatedIs ==
    ASSUME NEW un, Units(un), NEW ru \in Seq(RuleType), NEW ca \in CampaignType,
           ~ca.known => ca.unit = None /\ ~ca.confirmed
    PROVE  LET new == AdRecalculated(un, ru, ca) IN
           /\ new \in CampaignType
           /\ new.known = ca.known /\ new.confirmed = ca.confirmed /\ new.used = ca.used
           /\ ca.confirmed \/ ~ca.known => new.unit = ca.unit
           /\ ~new.confirmed /\ new.unit # None => un[new.unit].parent = None
<1> DEFINE u == AdTarget(un, ru)
<1>1. u \in Unit \cup {None} /\ (u # None => un[u].parent = None)
  BY AdTargetIs
<1>2. AdRecalculated(un, ru, ca) = IF ca.known /\ ~ca.confirmed THEN [ca EXCEPT !.unit = u] ELSE ca
  BY DEF AdRecalculated
<1> HIDE DEF u
<1> QED
  BY <1>1, <1>2 DEF CampaignType

LEMMA AppliedIs ==
    ASSUME NEW ca \in CampaignType, NEW co \in [1..MaxUploads -> CostType]
    PROVE  /\ Applied(ca, co) \in [1..MaxUploads -> CostType]
           /\ \A n \in 1..MaxUploads : Applied(ca, co)[n].state = co[n].state
<1>1. ASSUME NEW n \in 1..MaxUploads
      PROVE  [co[n] EXCEPT !.unit = ca.unit] \in CostType
             /\ [co[n] EXCEPT !.unit = ca.unit].state = co[n].state
  BY DEF CostType, CampaignType
<1> QED
  BY <1>1 DEF Applied

-----------------------------------------------------------------------------
(* Requests.                                                               *)

LEMMA TailIs ==
    ASSUME NEW T, NEW q \in Seq(T), q # <<>>
    PROVE  /\ Tail(q) \in Seq(T) /\ Len(Tail(q)) = Len(q) - 1
           /\ \A n \in 1..Len(Tail(q)) : n + 1 \in 1..Len(q) /\ Tail(q)[n] = q[n + 1]
           /\ 1 \in 1..Len(q) /\ Head(q) = q[1] /\ Head(q) \in T
  OBVIOUS

LEMMA AppendIs ==
    ASSUME NEW T, NEW q \in Seq(T), NEW x \in T
    PROVE  /\ Append(q, x) \in Seq(T) /\ Len(Append(q, x)) = Len(q) + 1
           /\ \A n \in 1..Len(q) : Append(q, x)[n] = q[n]
           /\ Append(q, x)[Len(q) + 1] = x
           /\ Len(q) \in Nat
  OBVIOUS

\* What one request that waits is known for.
Checked(r, un, known) ==
    /\ r.kind = "update" => r.to.state # "none" /\ (r.unit \in Group => r.to.parent = None)
    /\ r.kind = "group" => un[r.unit].state = "none"
    /\ r.kind = "map" => un[r.unit].state # "none"
    /\ r.kind = "mapAd" => known

\* No two requests that wait create the same group.
Apart(q) ==
    \A m, n \in 1..Len(q) :
        q[m].kind = "group" /\ q[n].kind = "group" /\ q[m].unit = q[n].unit => m = n

LEMMA KindOfRequest ==
    ASSUME NEW r \in RequestType
    PROVE  /\ r.kind = "update" => r.unit \in Unit /\ r.to \in UnitType
           /\ r.kind \in {"group", "attach"} => r.unit \in Group /\ r.children \subseteq Plain
           /\ r.kind = "map" => r.sig \in Sig /\ r.unit \in Plain
           /\ r.kind \in {"detach", "rule", "mapAd", "ruleUnit"} => r.unit \in Unit
           /\ r.kind = "ruleUnit" => r.rule \in Nat
  BY DEF RequestType

\* The units that exist go on existing.
Grows(un) == \A u \in Unit : unit[u].state # "none" => un[u].state # "none"

\* Requests that go on waiting stay as they were checked.
LEMMA RequestsStay ==
    ASSUME RequestInv, Grows(unit'), campaign.known => campaign'.known,
           creating' \subseteq creating,
           \/ pending' = pending
           \/ pending' = <<>>
           \/ pending # <<>> /\ pending' = Tail(pending),
           \A g \in Group :
               unit[g].state = "none" /\ unit'[g].state # "none" =>
                   /\ pending # <<>> /\ pending' = Tail(pending)
                   /\ Asked.kind = "group" /\ Asked.unit = g
    PROVE  RequestInv'
<1> DEFINE by == IF pending' = pending THEN 0 ELSE 1
<1>1. pending \in Seq(RequestType) /\ Apart(pending)
      /\ \A n \in 1..Len(pending) : Checked(pending[n], unit, campaign.known)
  BY DEF RequestInv, Requests, Checked, Apart
<1>2. /\ pending' \in Seq(RequestType)
      /\ \A n \in 1..Len(pending') :
            n + by \in 1..Len(pending) /\ pending'[n] = pending[n + by]
      /\ by \in {0, 1}
  <2>1. CASE pending' = pending
    BY <1>1, <2>1
  <2>2. CASE pending' # pending /\ pending' = <<>>
    BY <2>2
  <2>3. CASE pending' # pending /\ pending # <<>> /\ pending' = Tail(pending)
    BY <1>1, <2>3, TailIs
  <2> QED
    BY <2>1, <2>2, <2>3
<1>3. Apart(pending')
  <2> SUFFICES ASSUME NEW m \in 1..Len(pending'), NEW n \in 1..Len(pending'),
                      pending'[m].kind = "group", pending'[n].kind = "group",
                      pending'[m].unit = pending'[n].unit
               PROVE  m = n
    BY DEF Apart
  <2>1. /\ m + by \in 1..Len(pending) /\ pending'[m] = pending[m + by]
        /\ n + by \in 1..Len(pending) /\ pending'[n] = pending[n + by]
    BY <1>2
  <2>2. m + by = n + by
    BY <1>1, <2>1 DEF Apart
  <2>3. Len(pending') \in Nat /\ m \in Int /\ n \in Int /\ by \in Int
    BY <1>2
  <2> HIDE DEF by
  <2> QED
    BY <2>2, <2>3
<1>4. ASSUME NEW n \in 1..Len(pending')
      PROVE  Checked(pending'[n], unit', campaign'.known)
  <2> DEFINE r == pending[n + by]
  <2>1. /\ n + by \in 1..Len(pending) /\ r \in RequestType /\ Checked(r, unit, campaign.known)
        /\ pending'[n] = r
    BY <1>1, <1>2
  <2>2. r.kind = "group" => unit'[r.unit].state = "none"
    <3> SUFFICES ASSUME r.kind = "group", unit'[r.unit].state # "none" PROVE FALSE
      OBVIOUS
    <3>1. r.unit \in Group
      BY <2>1, KindOfRequest
    <3>2. unit[r.unit].state = "none"
      BY <2>1 DEF Checked
    <3>3. /\ pending # <<>> /\ pending' = Tail(pending)
          /\ Asked.kind = "group" /\ Asked.unit = r.unit
      BY <3>1, <3>2
    <3>4. pending' # pending
      BY <1>1, <3>3, TailIs
    <3>5. by = 1
      BY <3>4
    <3>6. Asked = pending[1] /\ 1 \in 1..Len(pending) /\ n + by # 1
      BY <1>1, <3>3, <3>5, TailIs DEF Asked
    <3> QED
      BY <1>1, <2>1, <3>3, <3>6 DEF Apart
  <2>3. r.kind = "map" => unit'[r.unit].state # "none"
    BY <2>1, KindOfRequest DEF Checked, Grows, Unit
  <2> QED
    BY <2>1, <2>2, <2>3 DEF Checked
<1>5. \A c \in creating' : c \in [sig : Sig, unit : Plain] /\ unit'[c.unit].state # "none"
  BY DEF RequestInv, Grows, Unit
<1> QED
  BY <1>2, <1>3, <1>4, <1>5 DEF RequestInv, Requests, Checked, Apart

\* A request that has passed its checks waits with the others.
LEMMA RequestWaits ==
    ASSUME RequestInv, NEW r \in RequestType, Checked(r, unit, campaign.known),
           r.kind = "group" =>
               \A n \in DOMAIN pending : pending[n].kind = "group" => pending[n].unit # r.unit,
           pending' = Append(pending, r), creating' \subseteq creating,
           UNCHANGED <<unit, campaign>>
    PROVE  RequestInv'
<1>1. pending \in Seq(RequestType) /\ Apart(pending)
      /\ \A n \in 1..Len(pending) : Checked(pending[n], unit, campaign.known)
  BY DEF RequestInv, Requests, Checked, Apart
<1>2. /\ pending' \in Seq(RequestType) /\ Len(pending') = Len(pending) + 1
      /\ \A n \in 1..Len(pending) : pending'[n] = pending[n]
      /\ pending'[Len(pending) + 1] = r
      /\ Len(pending) \in Nat
  BY <1>1, AppendIs
<1>3. Apart(pending')
  <2>1. DOMAIN pending = 1..Len(pending)
    BY <1>1
  <2>2. \A n \in 1..Len(pending') : n \in 1..Len(pending) \/ n = Len(pending) + 1
    BY <1>2
  <2> QED
    BY <1>1, <1>2, <2>1, <2>2 DEF Apart
<1>4. \A n \in 1..Len(pending') : Checked(pending'[n], unit', campaign'.known)
  BY <1>1, <1>2
<1>5. \A c \in creating' : c \in [sig : Sig, unit : Plain] /\ unit'[c.unit].state # "none"
  BY DEF RequestInv
<1> QED
  BY <1>2, <1>3, <1>4, <1>5 DEF RequestInv, Requests, Checked, Apart

-----------------------------------------------------------------------------
(* What steps have in common.                                              *)

\* What ConfirmedStays says of a step.
ConfirmedSig(s) ==
    sig[s].confirmed =>
        /\ sig'[s].confirmed
        /\ \/ sig'[s].unit = sig[s].unit
           \/ sig'[s].unit = None /\ unit'[sig[s].unit].state = "off"
           \/ Turn("map") /\ Asked.sig = s /\ sig'[s].unit = Asked.unit

ConfirmedAd ==
    campaign.confirmed =>
        /\ campaign'.confirmed
        /\ \/ campaign'.unit = campaign.unit
           \/ Turn("mapAd") /\ campaign'.unit = Asked.unit
           \/ campaign'.unit = None /\ commands' # commands

Stays == (\A s \in Sig : ConfirmedSig(s)) /\ ConfirmedAd

LEMMA UsageReads ==
    ASSUME NEW it, NEW other, \A i \in Item : it[i].sig = other[i].sig
    PROVE  Usage(it) = Usage(other)
<1>1. ASSUME NEW s \in Sig PROVE {i \in Item : it[i].sig = s} = {i \in Item : other[i].sig = s}
  OBVIOUS
<1> QED
  BY <1>1 DEF Usage

LEMMA UnitsWith ==
    ASSUME UnitInv, NEW u \in Unit, NEW v \in UnitType, u \in Group => v.parent = None,
           unit[u].state # "none" => v.state # "none"
    PROVE  Units([unit EXCEPT ![u] = v]) /\ Grows([unit EXCEPT ![u] = v])
<1>1. \A g \in Group : g \in Unit
  BY DEF Unit
<1> QED
  BY <1>1 DEF UnitInv, Units, Grows

LEMMA NewUnitType ==
    ASSUME NEW names \in SUBSET (Sig \cup {Campaign}), NEW links \in SUBSET Item
    PROVE  NewUnit(names, links) \in UnitType /\ NewUnit(names, links).state = "active"
           /\ NewUnit(names, links).parent = None /\ NewUnit(names, links).links = links
           /\ NewUnit(names, links).names = names
  BY DEF NewUnit, UnitType

LEMMA MappedGrows ==
    ASSUME NEW sg, Mapped(unit, sg, item), NEW un, Grows(un)
    PROVE  Mapped(un, sg, item)
<1>1. \A s \in Sig : sg[s].unit \in Unit \cup {None}
  BY DEF Mapped, SigType
<1>2. \A i \in Item : item[i].unit \in Unit \cup {None}
  BY DEF Mapped, ItemType
<1> QED
  BY <1>1, <1>2 DEF Mapped, Grows

LEMMA FollowsStays ==
    ASSUME Follows(sig', sig), NEW s \in Sig
    PROVE  ConfirmedSig(s)
  BY DEF Follows, Automatic, ConfirmedSig

\* A commit that changes units recalculates everything.
LEMMA Settles ==
    ASSUME IInv, NEW un, NEW sg, Units(un), Mapped(un, sg, item), Settle(un, sg)
    PROVE  /\ UnitInv' /\ MappingInv' /\ PlaceInv'
           /\ unit' = un /\ used' = Usage(item')
           /\ Follows(sig', sg)
           /\ campaign' \in CampaignType
           /\ campaign'.known = campaign.known /\ campaign'.confirmed = campaign.confirmed
           /\ campaign'.used = campaign.used
           /\ campaign.confirmed \/ ~campaign.known => campaign'.unit = campaign.unit
           /\ AdsBelongToParents'
<1>1. /\ unit' = un /\ owed' = FALSE /\ used' = used
      /\ sig' = Everything(un, sg, item).sig /\ item' = Everything(un, sg, item).item
      /\ campaign' = AdRecalculated(un, rule, campaign)
  BY DEF Settle
<1>2. /\ Mapped(un, sig', item') /\ Linking(un, item', Item) /\ Follows(sig', sg)
      /\ \A i \in Item : item'[i].sig = item[i].sig
      /\ Placed(un, sig', item')
  BY <1>1, EverythingIs
<1>3. UnitInv' /\ MappingInv'
  BY <1>1, <1>2 DEF UnitInv, MappingInv
<1>4. PlaceInv'
  BY <1>1, <1>2 DEF PlaceInv
<1>5. used' = Usage(item')
  <2>1. Usage(item') = Usage(item)
    BY <1>2, UsageReads
  <2> QED
    BY <1>1, <2>1 DEF IInv, CountInv
<1>6. /\ campaign' \in CampaignType
      /\ campaign'.known = campaign.known /\ campaign'.confirmed = campaign.confirmed
      /\ campaign'.used = campaign.used
      /\ campaign.confirmed \/ ~campaign.known => campaign'.unit = campaign.unit
      /\ ~campaign'.confirmed /\ campaign'.unit # None => un[campaign'.unit].parent = None
  <2>1. /\ rule \in Seq(RuleType) /\ campaign \in CampaignType
        /\ ~campaign.known => campaign.unit = None /\ ~campaign.confirmed
    BY DEF IInv, AdInv
  <2> QED
    BY <1>1, <2>1, AdRecalculatedIs
<1>7. AdsBelongToParents'
  BY <1>1, <1>6 DEF AdsBelongToParents
<1> QED
  BY <1>1, <1>2, <1>3, <1>4, <1>5, <1>6, <1>7

LEMMA SettleStep ==
    ASSUME IInv, NEW un, NEW sg, Units(un), Mapped(un, sg, item), Settle(un, sg),
           RequestInv', UNCHANGED <<rule, cost>>
    PROVE  IInv' /\ Follows(sig', sg) /\ ConfirmedAd
<1>1. /\ UnitInv' /\ MappingInv' /\ PlaceInv'
      /\ used' = Usage(item')
      /\ Follows(sig', sg)
      /\ campaign' \in CampaignType
      /\ campaign'.known = campaign.known /\ campaign'.confirmed = campaign.confirmed
      /\ campaign'.used = campaign.used
      /\ campaign.confirmed \/ ~campaign.known => campaign'.unit = campaign.unit
      /\ AdsBelongToParents'
  BY Settles
<1>2. rule' = rule /\ cost' = cost
  OBVIOUS
<1>3. Uploads("active")' = Uploads("active") /\ RowsOf(cost') = RowsOf(cost)
  BY <1>2 DEF Uploads, RowsOf
<1>4. AdInv' /\ CountInv'
  BY <1>1, <1>2, <1>3 DEF IInv, AdInv, CountInv
<1>5. ConfirmedAd
  BY <1>1 DEF ConfirmedAd
<1> QED
  BY <1>1, <1>4, <1>5 DEF IInv

LEMMA QuietStep ==
    ASSUME IInv, UNCHANGED <<unit, orders>>, RequestInv', AdInv',
           campaign'.used = Cardinality(RowsOf(cost'))
    PROVE  IInv' /\ \A s \in Sig : ConfirmedSig(s)
<1>1. unit' = unit /\ sig' = sig /\ item' = item /\ used' = used /\ owed' = owed
  BY DEF orders
<1>2. Usage(item)' = Usage(item) /\ Placed(unit, sig, item)' = Placed(unit, sig, item)
      /\ Mapped(unit, sig, item)' = Mapped(unit, sig, item)
      /\ Linking(unit, item, Item)' = Linking(unit, item, Item)
      /\ Units(unit)' = Units(unit)
  BY <1>1 DEF Usage, Placed, Place, Mapped, Linking, Units, Assigned, Resolved, Named, Active,
              Automatic, Linked, Matching, MapTo
<1>3. IInv'
  BY <1>1, <1>2 DEF IInv, UnitInv, MappingInv, CountInv, PlaceInv
<1> QED
  BY <1>1, <1>3 DEF ConfirmedSig

LEMMA RequestStep ==
    ASSUME IInv, UNCHANGED <<unit, orders, ads>>, RequestInv'
    PROVE  IInv' /\ Stays
<1>1. rule' = rule /\ campaign' = campaign /\ cost' = cost /\ unit' = unit
  BY DEF ads
<1>2. AdInv' /\ campaign'.used = Cardinality(RowsOf(cost'))
  BY <1>1 DEF IInv, AdInv, CountInv, AdsBelongToParents, Uploads, RowsOf
<1>3. ConfirmedAd
  BY <1>1 DEF ConfirmedAd
<1> QED
  BY <1>2, <1>3, QuietStep DEF Stays

LEMMA AskStep ==
    ASSUME IInv, NEW r \in RequestType, Ask(r), Checked(r, unit, campaign.known),
           r.kind = "group" =>
               \A n \in DOMAIN pending : pending[n].kind = "group" => pending[n].unit # r.unit
    PROVE  IInv' /\ Stays
<1>1. pending' = Append(pending, r) /\ creating' = creating
      /\ UNCHANGED <<unit, orders, ads>> /\ UNCHANGED <<unit, campaign>>
  BY DEF Ask, handlers, ads
<1>2. RequestInv'
  BY <1>1, RequestWaits DEF IInv
<1> QED
  BY <1>1, <1>2, RequestStep

\* The request whose turn it is.
LEMMA TurnIs ==
    ASSUME RequestInv, NEW kind, Turn(kind)
    PROVE  /\ pending # <<>> /\ pending' = Tail(pending)
           /\ Asked \in RequestType /\ Asked.kind = kind
           /\ Checked(Asked, unit, campaign.known)
<1>1. pending \in Seq(RequestType) /\ \A n \in 1..Len(pending) : Checked(pending[n], unit, campaign.known)
  BY DEF RequestInv, Requests, Checked
<1>2. pending # <<>> /\ pending' = Tail(pending) /\ Asked.kind = kind
  BY DEF Turn, Asked
<1> QED
  BY <1>1, <1>2, TailIs DEF Asked

\* Steps in which no group comes into being leave requests as they were.
LEMMA RequestsGoOn ==
    ASSUME RequestInv, Grows(unit'), \A g \in Group : unit[g].state = "none" => unit'[g].state = "none",
           campaign.known => campaign'.known, creating' \subseteq creating,
           \/ pending' = pending
           \/ pending' = <<>>
           \/ pending # <<>> /\ pending' = Tail(pending)
    PROVE  RequestInv'
  BY RequestsStay

-----------------------------------------------------------------------------
(* Sales units.                                                            *)

\* A unit is put in the place of another, or of none.
LEMMA PutStep ==
    ASSUME IInv, NEW u \in Unit, NEW v \in UnitType, u \in Group => v.parent = None,
           v.state # "none", u \in Group => unit[u].state # "none",
           NEW sg, Mapped(unit, sg, item),
           Settle([unit EXCEPT ![u] = v], sg), UNCHANGED <<rule, cost, handlers>>,
           pending' = pending \/ (pending # <<>> /\ pending' = Tail(pending))
    PROVE  IInv' /\ Follows(sig', sg) /\ ConfirmedAd
<1> DEFINE un == [unit EXCEPT ![u] = v]
<1>1. Units(un) /\ Grows(un)
  BY UnitsWith DEF IInv
<1>2. Mapped(un, sg, item)
  BY <1>1, MappedGrows
<1>3. unit' = un /\ creating' = creating
  BY DEF Settle, handlers
<1>4. campaign'.known = campaign.known
  BY <1>1, <1>2, Settles
<1>5. \A g \in Group : unit[g].state = "none" => un[g].state = "none"
  <2>1. \A g \in Group : g # u => un[g] = unit[g]
    BY DEF IInv, UnitInv, Units, Unit
  <2> QED
    BY <2>1
<1>6. RequestInv'
  BY <1>1, <1>3, <1>4, <1>5, RequestsGoOn DEF IInv
<1> QED
  BY <1>1, <1>2, <1>6, SettleStep

LEMMA PutAndStay ==
    ASSUME IInv, NEW u \in Unit, NEW v \in UnitType, u \in Group => v.parent = None,
           v.state # "none", u \in Group => unit[u].state # "none",
           Settle([unit EXCEPT ![u] = v], sig), UNCHANGED <<rule, cost, handlers>>,
           pending' = pending \/ (pending # <<>> /\ pending' = Tail(pending))
    PROVE  IInv' /\ Stays
<1>1. Mapped(unit, sig, item)
  BY DEF IInv, MappingInv
<1>2. IInv' /\ Follows(sig', sig) /\ ConfirmedAd
  BY <1>1, PutStep
<1> QED
  BY <1>2, FollowsStays DEF Stays

LEMMA CreateStep == ASSUME IInv, Create PROVE IInv' /\ Stays
<1>1. PICK u \in NextUnit, names \in Names, links \in Links :
        Settle([unit EXCEPT ![u] = NewUnit(names, links)], sig)
  BY DEF Create
<1>2. u \in Plain /\ u \in Unit /\ u \notin Group
  BY DEF NextUnit, Unborn, Unit
<1>3. NewUnit(names, links) \in UnitType /\ NewUnit(names, links).state = "active"
  BY NewUnitType, ListAssumption
<1>4. UNCHANGED <<rule, cost, handlers>> /\ pending' = pending
  BY DEF Create, Now, handlers
<1> QED
  BY <1>1, <1>2, <1>3, <1>4, PutAndStay

LEMMA AskUpdateStep == ASSUME IInv, AskUpdate PROVE IInv' /\ Stays
<1>1. PICK u \in Unit : /\ Exists(u)
        /\ \E names \in IF u \in Group THEN {{}} ELSE Names, links \in IF u \in Group THEN {{}} ELSE Links :
              Ask([kind |-> "update", unit |-> u,
                   to |-> [unit[u] EXCEPT !.names = names, !.links = links]])
  BY DEF AskUpdate
<1>2. PICK names \in IF u \in Group THEN {{}} ELSE Names, links \in IF u \in Group THEN {{}} ELSE Links :
        Ask([kind |-> "update", unit |-> u,
             to |-> [unit[u] EXCEPT !.names = names, !.links = links]])
  BY <1>1
<1> DEFINE v == [unit[u] EXCEPT !.names = names, !.links = links]
           r == [kind |-> "update", unit |-> u, to |-> v]
<1>3. names \subseteq Sig \cup {Campaign} /\ links \subseteq Item
  BY ListAssumption
<1>4. unit[u] \in UnitType /\ (u \in Group => unit[u].parent = None)
  BY DEF IInv, UnitInv, Units
<1>5. v \in UnitType /\ v.state = unit[u].state /\ v.parent = unit[u].parent
  BY <1>3, <1>4 DEF UnitType
<1> HIDE DEF v
<1>6. r \in RequestType
  BY <1>5 DEF RequestType
<1>7. Checked(r, unit, campaign.known)
  BY <1>1, <1>4, <1>5 DEF Checked, Exists
<1>8. Ask(r) /\ r.kind # "group"
  BY <1>2 DEF v
<1> QED
  BY <1>6, <1>7, <1>8, AskStep

LEMMA UpdateStep == ASSUME IInv, Update PROVE IInv' /\ Stays
<1>1. Turn("update") /\ Exists(Asked.unit) /\ Settle([unit EXCEPT ![Asked.unit] = Asked.to], sig)
      /\ UNCHANGED <<rule, cost, handlers>>
  BY DEF Update
<1>2. /\ pending # <<>> /\ pending' = Tail(pending)
      /\ Asked \in RequestType /\ Asked.kind = "update" /\ Checked(Asked, unit, campaign.known)
  BY <1>1, TurnIs DEF IInv
<1>3. /\ Asked.unit \in Unit /\ Asked.to \in UnitType /\ Asked.to.state # "none"
      /\ Asked.unit \in Group => Asked.to.parent = None
  BY <1>2, KindOfRequest DEF Checked
<1>4. unit[Asked.unit].state # "none"
  BY <1>1 DEF Exists
<1> QED
  BY <1>1, <1>2, <1>3, <1>4, PutAndStay

LEMMA RefusedStep == ASSUME IInv, Refused PROVE IInv' /\ Stays
<1>1. pending # <<>> /\ pending' = Tail(pending) /\ UNCHANGED <<unit, orders, ads>> /\ creating' = creating
  BY DEF Refused, Turn, handlers
<1>2. unit' = unit /\ campaign' = campaign
  BY <1>1 DEF ads
<1>3. RequestInv'
  BY <1>1, <1>2, RequestsGoOn DEF IInv, Grows
<1> QED
  BY <1>1, <1>3, RequestStep

LEMMA StateOf ==
    ASSUME UnitInv, NEW u \in Unit, NEW state \in {"none", "active", "off", "gone"}
    PROVE  LET v == [unit[u] EXCEPT !.state = state] IN
           /\ [unit EXCEPT ![u].state = state] = [unit EXCEPT ![u] = v]
           /\ v \in UnitType /\ v.state = state /\ v.parent = unit[u].parent
           /\ u \in Group => v.parent = None
<1>1. unit \in [Unit -> UnitType] /\ (u \in Group => unit[u].parent = None)
  BY DEF UnitInv, Units
<1>2. unit[u] \in UnitType
  BY <1>1
<1>3. /\ [unit[u] EXCEPT !.state = state] \in UnitType
      /\ [unit[u] EXCEPT !.state = state].state = state
      /\ [unit[u] EXCEPT !.state = state].parent = unit[u].parent
  BY <1>2 DEF UnitType
<1>4. [unit EXCEPT ![u].state = state] = [unit EXCEPT ![u] = [unit[u] EXCEPT !.state = state]]
  BY <1>1
<1> QED
  BY <1>1, <1>3, <1>4

LEMMA ActivateStep == ASSUME IInv, Activate PROVE IInv' /\ Stays
<1>1. PICK u \in Unit : Exists(u) /\ Settle([unit EXCEPT ![u].state = "active"], sig)
  BY DEF Activate
<1> DEFINE v == [unit[u] EXCEPT !.state = "active"]
<1>2. /\ [unit EXCEPT ![u].state = "active"] = [unit EXCEPT ![u] = v]
      /\ v \in UnitType /\ v.state = "active" /\ (u \in Group => v.parent = None)
  BY StateOf DEF IInv
<1> HIDE DEF v
<1>3. UNCHANGED <<rule, cost, handlers>> /\ pending' = pending
  BY DEF Activate, Now, handlers
<1>4. unit[u].state # "none"
  BY <1>1 DEF Exists
<1> QED
  BY <1>1, <1>2, <1>3, <1>4, PutAndStay

LEMMA DeactivateStep == ASSUME IInv, Deactivate PROVE IInv' /\ Stays
<1>1. PICK u \in Unit : Exists(u) /\ Settle([unit EXCEPT ![u].state = "off"], Cleared(sig, u))
  BY DEF Deactivate
<1> DEFINE v == [unit[u] EXCEPT !.state = "off"]
<1>2. /\ [unit EXCEPT ![u].state = "off"] = [unit EXCEPT ![u] = v]
      /\ v \in UnitType /\ v.state = "off" /\ (u \in Group => v.parent = None)
  BY StateOf DEF IInv
<1> HIDE DEF v
<1>3. UNCHANGED <<rule, cost, handlers>> /\ pending' = pending
  BY DEF Deactivate, Now, handlers
<1>4. unit[u].state # "none"
  BY <1>1 DEF Exists
<1> DEFINE sg == Cleared(sig, u)
<1>5. sig \in [Sig -> SigType] /\ Mapped(unit, sig, item)
  BY DEF IInv, MappingInv, Mapped
<1>6. ASSUME NEW s \in Sig
      PROVE  /\ sg[s] \in SigType /\ sg[s].status = sig[s].status
             /\ sg[s].confirmed = sig[s].confirmed
             /\ sg[s].unit = IF sig[s].unit = u THEN None ELSE sig[s].unit
  <2>1. sig[s] \in SigType /\ sg[s] = IF sig[s].unit = u THEN [sig[s] EXCEPT !.unit = None] ELSE sig[s]
    BY <1>5 DEF Cleared
  <2> QED
    BY <2>1 DEF SigType
<1>7. sg \in [Sig -> SigType]
  BY <1>6 DEF Cleared
<1> HIDE DEF sg
<1>8. Mapped(unit, sg, item)
  <2>1. ASSUME NEW s \in Sig
        PROVE  /\ sg[s].unit # None => unit[sg[s].unit].state # "none"
               /\ sg[s].confirmed => sg[s].unit \in Plain \cup {None} /\ sg[s].status # "none"
               /\ sg[s].status = "none" => sg[s].unit = None
    BY <1>5, <1>6 DEF Mapped
  <2>2. ASSUME NEW i \in Item
        PROVE  /\ item[i].unit # None => unit[item[i].unit].state # "none"
               /\ item[i].sig = None => item[i].unit = None
               /\ item[i].sig # None => sg[item[i].sig].status # "none"
    <3>1. item[i].sig \in Sig \cup {None}
      BY <1>5 DEF Mapped, ItemType
    <3> QED
      BY <1>5, <1>6, <3>1 DEF Mapped
  <2>3. item \in [Item -> ItemType]
    BY <1>5 DEF Mapped
  <2> QED
    BY <1>7, <2>1, <2>2, <2>3 DEF Mapped
<1>9. IInv' /\ Follows(sig', sg) /\ ConfirmedAd
  BY <1>1, <1>2, <1>3, <1>4, <1>8, PutStep DEF sg
<1>10. unit' = [unit EXCEPT ![u] = v]
  BY <1>1, <1>2 DEF Settle
<1>11. unit'[u].state = "off"
  BY <1>2, <1>10 DEF IInv, UnitInv, Units
<1>12. ASSUME NEW s \in Sig PROVE ConfirmedSig(s)
  BY <1>6, <1>9, <1>11 DEF ConfirmedSig, Follows, Automatic
<1> QED
  BY <1>9, <1>12 DEF Stays

-----------------------------------------------------------------------------
(* Groups.                                                                 *)

\* A new state of the units in which an item goes where it went: parents may
\* differ, and groups without ids may have come into being.
Alike(un, new) ==
    \A u \in Unit :
        \/ new[u].state = un[u].state /\ new[u].names = un[u].names /\ new[u].links = un[u].links
        \/ u \in Group /\ un[u].state = "none" /\ new[u].links = {}

LEMMA NamedUnit ==
    ASSUME NEW un, NEW sg, NEW it, Mapped(un, sg, it), NEW s \in Sig
    PROVE  LET u == Named(un, sg, Sig)[s].unit IN
           u # None => u \in Plain /\ u \in Unit /\ u \notin Group /\ un[u].state # "none"
<1>1. /\ sg \in [Sig -> SigType]
      /\ sg[s].unit # None => un[sg[s].unit].state # "none"
      /\ sg[s].confirmed => sg[s].unit \in Plain \cup {None}
      /\ sg[s].status = "none" => sg[s].unit = None
  BY DEF Mapped
<1>2. \A u \in Plain : u \in Unit /\ u \notin Group
  BY DEF Unit
<1>3. CASE Automatic(sg, s)
  <2>1. Matching(un, s) \subseteq Unit
    BY DEF Matching, Unit
  <2>2. Named(un, sg, Sig)[s] = MapTo(sg, s, Matching(un, s))
    BY <1>1, <1>3, NamedIs
  <2>3. Named(un, sg, Sig)[s].unit = The(Matching(un, s))
    BY <1>1, <2>1, <2>2, MapToIs
  <2>4. The(Matching(un, s)) \in Matching(un, s) \cup {None}
    BY TheIn
  <2>5. \A u \in Matching(un, s) : u \in Plain /\ un[u].state # "none"
    BY DEF Matching, Active
  <2> QED
    BY <1>2, <2>3, <2>4, <2>5
<1>4. CASE ~Automatic(sg, s)
  <2>1. Named(un, sg, Sig)[s] = sg[s]
    BY <1>4 DEF Named
  <2>2. sg[s].unit \in Plain \cup {None}
    BY <1>1, <1>4 DEF Automatic, SigType
  <2> QED
    BY <1>1, <1>2, <2>1, <2>2
<1> QED
  BY <1>3, <1>4

LEMMA NamedReads ==
    ASSUME NEW un, NEW new, NEW sg,
           \A u \in Plain : new[u].state = un[u].state /\ new[u].names = un[u].names
    PROVE  Named(new, sg, Sig) = Named(un, sg, Sig)
<1>1. \A s \in Sig : Matching(new, s) = Matching(un, s)
  BY DEF Matching, Active
<1> QED
  BY <1>1 DEF Named

LEMMA PlaceAlike ==
    ASSUME NEW un, NEW new, NEW sg, NEW it, Mapped(un, sg, it), Alike(un, new),
           NEW i \in Item, it[i].sig # None
    PROVE  Place(new, sg, it, i) = Place(un, sg, it, i)
<1> DEFINE named == Named(un, sg, Sig)
           s == it[i].sig
<1>1. s \in Sig
  BY DEF Mapped, ItemType
<1>2. named[s].unit # None =>
        named[s].unit \in Unit /\ named[s].unit \notin Group /\ un[named[s].unit].state # "none"
  BY <1>1, NamedUnit
<1>3. Named(new, sg, Sig) = named
  <2>1. \A u \in Plain : new[u].state = un[u].state /\ new[u].names = un[u].names
    BY DEF Alike, Unit
  <2> QED
    BY <2>1, NamedReads
<1>4. Linked(new, i) = Linked(un, i)
  BY DEF Linked, Alike, Active
<1>5. named[s].unit # None => Active(new, named[s].unit) = Active(un, named[s].unit)
  BY <1>2 DEF Active, Alike
<1> HIDE DEF named, s
<1>6. Resolved(new, named, s, i) = Resolved(un, named, s, i)
  BY <1>4, <1>5 DEF Resolved
<1> DEFINE r == Resolved(un, named, s, i)
<1>7. r # None => r \in Unit /\ un[r].state # "none" /\ un[r].state = new[r].state
  <2>1. Last(Linked(un, i)) \in Linked(un, i) \cup {None}
    BY LastIn
  <2>2. \A u \in Linked(un, i) : u \in Unit /\ un[u].state = "active"
    BY DEF Linked, Active
  <2>3. r \in Linked(un, i) \cup {None, named[s].unit}
    BY <2>1 DEF Resolved
  <2>4. r # None => r \in Unit /\ un[r].state # "none" /\ (r \in Group => un[r].state = "active")
    BY <1>2, <2>2, <2>3
  <2> QED
    BY <2>4 DEF Alike
<1> HIDE DEF r
<1>8. Assigned(new, named, s, i) = Assigned(un, named, s, i)
  BY <1>6, <1>7 DEF Assigned, r, Active
<1> QED
  BY <1>3, <1>8 DEF Place, named, s

\* Units change in a way that moves no item, and the orders are not touched.
LEMMA UnmovedStep ==
    ASSUME IInv, Units(unit'), Grows(unit'), Alike(unit, unit'), UNCHANGED orders
    PROVE  UnitInv' /\ MappingInv' /\ PlaceInv' /\ used' = Usage(item')
           /\ \A s \in Sig : ConfirmedSig(s)
<1>1. sig' = sig /\ item' = item /\ used' = used /\ owed' = owed
  BY DEF orders
<1>2. Mapped(unit, sig, item) /\ Linking(unit, item, Item)
  BY DEF IInv, MappingInv
<1>3. Mapped(unit', sig', item')
  BY <1>1, <1>2, MappedGrows
<1>4. Linking(unit', item', Item)
  <2> SUFFICES ASSUME NEW i \in Item, item[i].unit \in Group PROVE unit'[item[i].unit].links # {}
    BY <1>1 DEF Linking
  <2>1. unit[item[i].unit].links # {} /\ item[i].unit \in Unit
    BY <1>2 DEF Linking, Unit
  <2>2. unit[item[i].unit].state # "none"
    BY <1>2 DEF Mapped, Unit
  <2> QED
    BY <2>1, <2>2 DEF Alike
<1>5. \A i \in Item : item[i].sig # None => Place(unit', sig, item, i) = Place(unit, sig, item, i)
  BY <1>2, PlaceAlike
<1>6. PlaceInv'
  BY <1>1, <1>5 DEF IInv, PlaceInv, Placed
<1>7. used' = Usage(item')
  BY <1>1 DEF IInv, CountInv
<1> QED
  BY <1>1, <1>3, <1>4, <1>6, <1>7 DEF UnitInv, MappingInv, ConfirmedSig

\* Ads and rules go over to the group.
LEMMA JoinStep ==
    ASSUME IInv, NEW un, Units(un), Grows(un), Alike(unit, un),
           NEW g \in Group, NEW children \in SUBSET Plain, Join(un, children, g), RequestInv'
    PROVE  IInv' /\ Stays
<1>1. /\ unit' = Grouped(un, children, g) /\ rule' = Inherited(children, g)
      /\ campaign' = AdRecalculated(unit', rule', campaign)
      /\ UNCHANGED orders /\ cost' = cost
  BY DEF Join
<1>2. ASSUME NEW u \in Unit
      PROVE  /\ unit'[u] \in UnitType /\ unit'[u].state = un[u].state
             /\ unit'[u].names = un[u].names /\ unit'[u].links = un[u].links
             /\ u \in Group => unit'[u].parent = None
  <2>1. un[u] \in UnitType /\ (u \in Group => un[u].parent = None)
    BY DEF Units
  <2>2. unit'[u] = IF u \in children /\ Exists(u) THEN [un[u] EXCEPT !.parent = g] ELSE un[u]
    BY <1>1 DEF Grouped
  <2>3. u \in children => u \notin Group
    OBVIOUS
  <2> QED
    BY <2>1, <2>2, <2>3 DEF UnitType
<1>3. Units(unit')
  <2>1. unit' = [u \in Unit |-> unit'[u]]
    BY <1>1 DEF Grouped
  <2> QED
    BY <1>2, <2>1 DEF Units, Unit
<1>4. Grows(unit')
  BY <1>2 DEF Grows
<1>5. Alike(unit, unit')
  BY <1>2 DEF Alike
<1>6. UnitInv' /\ MappingInv' /\ PlaceInv' /\ used' = Usage(item') /\ \A s \in Sig : ConfirmedSig(s)
  BY <1>1, <1>3, <1>4, <1>5, UnmovedStep
<1>7. rule \in Seq(RuleType) /\ campaign \in CampaignType /\ cost \in [1..MaxUploads -> CostType]
      /\ (~campaign.known => campaign.unit = None /\ ~campaign.confirmed /\ Uploads("active") = {})
  BY DEF IInv, AdInv
<1>8. rule' \in Seq(RuleType)
  <2>1. g \in Unit
    BY DEF Unit
  <2>2. ASSUME NEW r \in 1..Len(rule) PROVE [rule[r] EXCEPT !.unit = g] \in RuleType
    <3>1. rule[r] \in RuleType
      BY <1>7
    <3> QED
      BY <2>1, <3>1 DEF RuleType
  <2>3. rule' \in [1..Len(rule) -> RuleType]
    BY <1>1, <1>7, <2>2 DEF Inherited
  <2>4. Len(rule) \in Nat
    BY <1>7
  <2> QED
    BY <2>3, <2>4
<1>9. /\ campaign' \in CampaignType
      /\ campaign'.known = campaign.known /\ campaign'.confirmed = campaign.confirmed
      /\ campaign'.used = campaign.used
      /\ campaign.confirmed \/ ~campaign.known => campaign'.unit = campaign.unit
      /\ ~campaign'.confirmed /\ campaign'.unit # None => unit'[campaign'.unit].parent = None
  BY <1>1, <1>3, <1>7, <1>8, AdRecalculatedIs
<1>10. Uploads("active")' = Uploads("active") /\ RowsOf(cost)' = RowsOf(cost)
  BY <1>1 DEF Uploads, RowsOf
<1>11. AdInv' /\ CountInv'
  BY <1>1, <1>6, <1>7, <1>8, <1>9, <1>10 DEF IInv, AdInv, CountInv, AdsBelongToParents
<1>12. ConfirmedAd
  BY <1>9 DEF ConfirmedAd
<1> QED
  BY <1>6, <1>11, <1>12 DEF IInv, Stays

LEMMA AskGroupStep == ASSUME IInv, AskGroup PROVE IInv' /\ Stays
<1>1. PICK g \in Group, children \in (SUBSET Plain) \ {{}} :
        /\ unit[g].state = "none"
        /\ \A n \in DOMAIN pending : pending[n].kind = "group" => pending[n].unit # g
        /\ Ask([kind |-> "group", unit |-> g, children |-> children])
  BY DEF AskGroup
<1> DEFINE r == [kind |-> "group", unit |-> g, children |-> children]
<1>2. r \in RequestType
  BY DEF RequestType
<1>3. Checked(r, unit, campaign.known)
  BY <1>1 DEF Checked
<1>4. r.unit = g
  OBVIOUS
<1> QED
  BY <1>1, <1>2, <1>3, <1>4, AskStep

LEMMA CreateGroupStep == ASSUME IInv, CreateGroup PROVE IInv' /\ Stays
<1> DEFINE g == Asked.unit
           v == NewUnit({}, {})
           un == [unit EXCEPT ![g] = v]
<1>1. Turn("group") /\ Join(un, Asked.children, g)
  BY DEF CreateGroup
<1>2. /\ pending # <<>> /\ pending' = Tail(pending)
      /\ Asked \in RequestType /\ Asked.kind = "group" /\ Checked(Asked, unit, campaign.known)
  BY <1>1, TurnIs DEF IInv
<1>3. g \in Group /\ g \in Unit /\ Asked.children \in SUBSET Plain /\ unit[g].state = "none"
  BY <1>2, KindOfRequest DEF Checked, Unit
<1>4. v \in UnitType /\ v.state = "active" /\ v.parent = None /\ v.links = {}
  BY NewUnitType
<1> HIDE DEF v, g
<1>5. Units(un) /\ Grows(un)
  BY <1>3, <1>4, UnitsWith DEF IInv
<1>6. unit \in [Unit -> UnitType]
  BY DEF IInv, UnitInv, Units
<1>7. \A u \in Unit : un[u] = IF u = g THEN v ELSE unit[u]
  BY <1>6
<1>8. Alike(unit, un)
  BY <1>3, <1>4, <1>7 DEF Alike
<1>9. unit' = Grouped(un, Asked.children, g) /\ campaign' = AdRecalculated(unit', rule', campaign)
      /\ creating' = creating
  BY <1>1 DEF Join, handlers
<1>10. \A u \in Unit : unit'[u].state = un[u].state
  <2> SUFFICES ASSUME NEW u \in Unit PROVE unit'[u].state = un[u].state
    OBVIOUS
  <2>1. un[u] \in UnitType
    BY <1>5 DEF Units
  <2>2. unit'[u] = IF u \in Asked.children /\ Exists(u) THEN [un[u] EXCEPT !.parent = g] ELSE un[u]
    BY <1>9 DEF Grouped
  <2> QED
    BY <2>1, <2>2 DEF UnitType
<1>11. Grows(unit')
  BY <1>5, <1>10 DEF Grows
<1>12. campaign'.known = campaign.known
  <2>1. campaign \in CampaignType
    BY DEF IInv, AdInv
  <2> QED
    BY <1>9, <2>1 DEF AdRecalculated, CampaignType
<1>13. \A h \in Group : unit[h].state = "none" /\ unit'[h].state # "none" => h = g
  BY <1>7, <1>10 DEF Unit
<1>14. RequestInv'
  BY <1>2, <1>9, <1>11, <1>12, <1>13, RequestsStay DEF IInv, g
<1> QED
  BY <1>1, <1>3, <1>5, <1>8, <1>14, JoinStep

LEMMA AskAttachStep == ASSUME IInv, AskAttach PROVE IInv' /\ Stays
<1>1. PICK g \in Group, u \in Unit :
        MayBeChild(u) /\ Ask([kind |-> "attach", unit |-> g, children |-> {u}])
  BY DEF AskAttach
<1> DEFINE r == [kind |-> "attach", unit |-> g, children |-> {u}]
<1>2. r \in RequestType
  BY <1>1 DEF RequestType, MayBeChild, Unit
<1>3. Checked(r, unit, campaign.known)
  BY DEF Checked
<1> QED
  BY <1>1, <1>2, <1>3, AskStep

LEMMA AttachStep == ASSUME IInv, Attach PROVE IInv' /\ Stays
<1>1. Turn("attach") /\ Join(unit, Asked.children, Asked.unit)
  BY DEF Attach
<1>2. /\ pending # <<>> /\ pending' = Tail(pending)
      /\ Asked \in RequestType /\ Asked.kind = "attach"
  BY <1>1, TurnIs DEF IInv
<1>3. Asked.unit \in Group /\ Asked.children \in SUBSET Plain
  BY <1>2, KindOfRequest
<1>4. Units(unit) /\ Grows(unit) /\ Alike(unit, unit)
  BY DEF IInv, UnitInv, Grows, Alike
<1>5. unit' = Grouped(unit, Asked.children, Asked.unit)
      /\ campaign' = AdRecalculated(unit', rule', campaign) /\ creating' = creating
  BY <1>1 DEF Join, handlers
<1>6. \A u \in Unit : unit'[u].state = unit[u].state
  <2> SUFFICES ASSUME NEW u \in Unit PROVE unit'[u].state = unit[u].state
    OBVIOUS
  <2>1. unit[u] \in UnitType
    BY <1>4 DEF Units
  <2>2. unit'[u] = IF u \in Asked.children /\ Exists(u) THEN [unit[u] EXCEPT !.parent = Asked.unit]
                   ELSE unit[u]
    BY <1>5 DEF Grouped
  <2> QED
    BY <2>1, <2>2 DEF UnitType
<1>7. campaign'.known = campaign.known
  <2>1. campaign \in CampaignType
    BY DEF IInv, AdInv
  <2> QED
    BY <1>5, <2>1 DEF AdRecalculated, CampaignType
<1>8. RequestInv'
  BY <1>2, <1>5, <1>6, <1>7, RequestsGoOn DEF IInv, Grows, Unit
<1> QED
  BY <1>1, <1>3, <1>4, <1>8, JoinStep

LEMMA AskDetachStep == ASSUME IInv, AskDetach PROVE IInv' /\ Stays
<1>1. PICK u \in Unit : Ask([kind |-> "detach", unit |-> u])
  BY DEF AskDetach
<1> DEFINE r == [kind |-> "detach", unit |-> u]
<1>2. r \in RequestType
  BY DEF RequestType
<1>3. Checked(r, unit, campaign.known)
  BY DEF Checked
<1> QED
  BY <1>1, <1>2, <1>3, AskStep

\* The ads stay where they are when no unit gets a parent.
LEMMA AdsStay ==
    ASSUME IInv, UNCHANGED <<rule, campaign>>,
           cost' \in [1..MaxUploads -> CostType], \A n \in 1..MaxUploads : cost'[n].state = cost[n].state,
           \A u \in Unit : unit[u].parent = None => unit'[u].parent = None
    PROVE  AdInv' /\ campaign'.used = Cardinality(RowsOf(cost')) /\ ConfirmedAd
<1>1. rule' = rule /\ campaign' = campaign
  OBVIOUS
<1>2. cost \in [1..MaxUploads -> CostType] /\ campaign \in CampaignType
  BY DEF IInv, AdInv
<1>3. Uploads("active")' = Uploads("active") /\ RowsOf(cost') = RowsOf(cost)
  BY <1>2 DEF Uploads, RowsOf
<1>4. AdsBelongToParents'
  BY <1>1, <1>2 DEF IInv, AdInv, AdsBelongToParents, CampaignType
<1>5. AdInv'
  BY <1>1, <1>3, <1>4 DEF IInv, AdInv
<1> QED
  BY <1>1, <1>3, <1>5 DEF IInv, CountInv, ConfirmedAd

LEMMA DetachStep == ASSUME IInv, Detach PROVE IInv' /\ Stays
<1>1. /\ Turn("detach") /\ Exists(Asked.unit)
      /\ unit' = [unit EXCEPT ![Asked.unit].parent = None]
      /\ UNCHANGED <<orders, ads, handlers>>
  BY DEF Detach
<1>2. pending # <<>> /\ pending' = Tail(pending) /\ Asked.unit \in Unit
  BY <1>1, TurnIs, KindOfRequest DEF IInv
<1>3. UNCHANGED orders /\ rule' = rule /\ campaign' = campaign /\ cost' = cost /\ creating' = creating
  BY <1>1 DEF ads, handlers
<1>4. unit \in [Unit -> UnitType] /\ \A g \in Group : unit[g].parent = None
  BY DEF IInv, UnitInv, Units
<1>5. ASSUME NEW u \in Unit
      PROVE  /\ unit'[u] \in UnitType /\ unit'[u].state = unit[u].state
             /\ unit'[u].names = unit[u].names /\ unit'[u].links = unit[u].links
             /\ unit[u].parent = None => unit'[u].parent = None
  <2>1. unit'[u] = IF u = Asked.unit THEN [unit[u] EXCEPT !.parent = None] ELSE unit[u]
    BY <1>1, <1>2, <1>4
  <2>2. unit[u] \in UnitType
    BY <1>4
  <2> QED
    BY <2>1, <2>2 DEF UnitType
<1>6. Units(unit')
  <2>1. unit' = [u \in Unit |-> unit'[u]]
    BY <1>1, <1>4
  <2> QED
    BY <1>4, <1>5, <2>1 DEF Units, Unit
<1>7. Grows(unit') /\ Alike(unit, unit')
  BY <1>5 DEF Grows, Alike
<1>8. UnitInv' /\ MappingInv' /\ PlaceInv' /\ used' = Usage(item') /\ \A s \in Sig : ConfirmedSig(s)
  BY <1>3, <1>6, <1>7, UnmovedStep
<1>9. AdInv' /\ campaign'.used = Cardinality(RowsOf(cost')) /\ ConfirmedAd
  <2>1. cost' \in [1..MaxUploads -> CostType] /\ \A n \in 1..MaxUploads : cost'[n].state = cost[n].state
    BY <1>3 DEF IInv, AdInv
  <2> QED
    BY <1>3, <1>5, <2>1, AdsStay
<1>10. RequestInv'
  <2>1. \A g \in Group : unit'[g].state = unit[g].state
    BY <1>5 DEF Unit
  <2> QED
    BY <1>2, <1>3, <1>7, <2>1, RequestsGoOn DEF IInv
<1> QED
  BY <1>8, <1>9, <1>10 DEF IInv, CountInv, Stays

\* Without a group that an item is not on, the item stays where it is.
LEMMA PlaceWithout ==
    ASSUME NEW un, NEW new, NEW sg, NEW it, Mapped(un, sg, it), NEW g \in Group,
           \A u \in Unit \ {g} :
               new[u].state = un[u].state /\ new[u].names = un[u].names /\ new[u].links = un[u].links,
           new[g].state = "off",
           NEW i \in Item, it[i].sig # None, Place(un, sg, it, i) # g
    PROVE  Place(new, sg, it, i) = Place(un, sg, it, i)
<1> DEFINE named == Named(un, sg, Sig)
           s == it[i].sig
           L == Linked(un, i)
<1>0. g \in Unit /\ L \subseteq Nat
  BY DEF Unit, Linked
<1>1. s \in Sig
  BY DEF Mapped, ItemType
<1>2. named[s].unit # None => named[s].unit \in Unit /\ named[s].unit # g
  BY <1>1, NamedUnit
<1>3. Named(new, sg, Sig) = named
  <2>1. \A u \in Plain : u \in Unit \ {g}
    BY DEF Unit
  <2>2. \A u \in Plain : new[u].state = un[u].state /\ new[u].names = un[u].names
    BY <2>1
  <2> QED
    BY <2>2, NamedReads
<1>4. Linked(new, i) = L \ {g}
  BY <1>0 DEF Linked, Active
<1>5. named[s].unit # None => Active(new, named[s].unit) = Active(un, named[s].unit)
  BY <1>2 DEF Active
<1>6. Assigned(un, named, s, i) # g
  BY DEF Place
<1> HIDE DEF named, s
<1> DEFINE r == Resolved(un, named, s, i)
<1>7. g \in L => un[g].state = "active"
  BY DEF Linked, Active
<1> HIDE DEF L
<1>8. L = {} => Last(L) # g
  BY LastIn, <1>0
<1>9. r = Last(L) \/ r = None \/ r = named[s].unit
  BY DEF Resolved, L
<1>10. r # g
  <2> SUFFICES ASSUME r = g PROVE FALSE
    OBVIOUS
  <2>1. g # None
    BY <1>0
  <2>2. Last(L) = g
    BY <1>2, <1>9, <2>1
  <2>3. un[g].state = "active"
    BY <1>7, <2>1, <2>2, LastIn
  <2> QED
    BY <1>6, <2>1, <2>3 DEF Assigned, Active
<1>11. Resolved(new, named, s, i) = r
  <2>1. CASE g \in L /\ Last(L) # g
    <3>1. L \ {g} # {} /\ Last(L \ {g}) = Last(L)
      BY <1>0, <2>1, LastStays
    <3> QED
      BY <1>4, <1>5, <2>1, <3>1 DEF Resolved, L
  <2>2. CASE g \notin L
    <3>1. L \ {g} = L
      BY <2>2
    <3> QED
      BY <1>4, <1>5, <3>1 DEF Resolved, L
  <2>3. CASE g \in L /\ Last(L) = g
    <3>1. L # {} /\ g # None
      BY <1>0, <2>3
    <3>2. named[s].confirmed /\ named[s].unit # None
      BY <1>10, <2>3, <3>1 DEF Resolved, L
    <3> QED
      BY <3>2 DEF Resolved
  <2> QED
    BY <2>1, <2>2, <2>3
<1>12. r # None => r \in Unit \ {g}
  <2>1. Last(L) \in Unit \cup {None}
    BY LastIn DEF L, Linked
  <2> QED
    BY <1>2, <1>9, <1>10, <2>1
<1> HIDE DEF r
<1>13. Assigned(new, named, s, i) = Assigned(un, named, s, i)
  BY <1>11, <1>12 DEF Assigned, r, Active
<1> QED
  BY <1>3, <1>13 DEF Place, named, s

LEMMA DissolveStep == ASSUME IInv, Dissolve PROVE IInv' /\ Stays
<1>1. PICK g \in Group :
        /\ Exists(g)
        /\ unit' = [u \in Unit |->
              CASE u = g -> [unit[u] EXCEPT !.state = "off"]
                [] unit[u].parent = g -> [unit[u] EXCEPT !.parent = None]
                [] OTHER -> unit[u]]
        /\ rule' = [r \in DOMAIN rule |-> IF rule[r].unit = g THEN [rule[r] EXCEPT !.state = "off"]
                                          ELSE rule[r]]
        /\ cost' = [n \in DOMAIN cost |-> IF cost[n].unit = g THEN [cost[n] EXCEPT !.unit = None]
                                          ELSE cost[n]]
        /\ owed' = (owed \/ \E i \in Item : item[i].unit = g)
  BY DEF Dissolve
<1>2. sig' = sig /\ item' = item /\ used' = used /\ campaign' = campaign
      /\ pending' = pending /\ creating' = creating
  BY DEF Dissolve, Now, handlers
<1>3. /\ unit \in [Unit -> UnitType] /\ (\A h \in Group : unit[h].parent = None)
      /\ g \in Unit /\ None \notin Group
  BY DEF IInv, UnitInv, Units, Unit
<1>4. ASSUME NEW u \in Unit
      PROVE  /\ unit'[u] \in UnitType /\ unit'[u].links = unit[u].links
             /\ unit'[u].names = unit[u].names
             /\ unit[u].parent = None => unit'[u].parent = None
             /\ unit'[u].state = IF u = g THEN "off" ELSE unit[u].state
  <2>1. unit'[u] = CASE u = g -> [unit[u] EXCEPT !.state = "off"]
                     [] unit[u].parent = g -> [unit[u] EXCEPT !.parent = None]
                     [] OTHER -> unit[u]
    BY <1>1
  <2>2. unit[u] \in UnitType
    BY <1>3
  <2>3. CASE u = g
    BY <1>3, <2>1, <2>2, <2>3 DEF UnitType
  <2>4. CASE u # g /\ unit[u].parent = g
    BY <1>3, <2>1, <2>2, <2>4 DEF UnitType
  <2>5. CASE u # g /\ unit[u].parent # g
    BY <2>1, <2>2, <2>5
  <2> QED
    BY <2>3, <2>4, <2>5
<1>5. UnitInv'
  <2>1. unit' = [u \in Unit |-> unit'[u]]
    BY <1>1
  <2> QED
    BY <1>3, <1>4, <2>1 DEF UnitInv, Units, Unit
<1>6. Grows(unit') /\ \A h \in Group : unit[h].state = "none" => unit'[h].state = "none"
  BY <1>1, <1>4 DEF Grows, Exists, Unit
<1>7. RequestInv'
  BY <1>2, <1>6, RequestsGoOn DEF IInv
<1>8. Mapped(unit, sig, item) /\ Linking(unit, item, Item)
  BY DEF IInv, MappingInv
<1>9. MappingInv'
  <2>1. Mapped(unit', sig, item)
    BY <1>6, <1>8, MappedGrows
  <2>2. Linking(unit', item, Item)
    BY <1>4, <1>8 DEF Linking, Unit
  <2> QED
    BY <1>2, <2>1, <2>2 DEF MappingInv
<1>10. PlaceInv'
  <2>1. owed' \in BOOLEAN
    BY <1>1 DEF IInv, PlaceInv
  <2>2. SUFFICES ASSUME ~owed' PROVE Placed(unit', sig', item')
    BY <2>1 DEF PlaceInv
  <2>3. Placed(unit, sig, item) /\ \A i \in Item : item[i].unit # g
    BY <1>1, <2>2 DEF IInv, PlaceInv
  <2>4. ASSUME NEW i \in Item, item[i].sig # None
        PROVE  Place(unit', sig, item, i) = Place(unit, sig, item, i)
    <3>1. Place(unit, sig, item, i) # g
      BY <2>3, <2>4 DEF Placed
    <3>2. /\ unit'[g].state = "off"
          /\ \A u \in Unit \ {g} :
                /\ unit'[u].state = unit[u].state /\ unit'[u].names = unit[u].names
                /\ unit'[u].links = unit[u].links
      BY <1>3, <1>4
    <3> QED
      BY <1>8, <2>4, <3>1, <3>2, PlaceWithout
  <2> QED
    BY <1>2, <2>3, <2>4 DEF Placed
<1>11. rule' \in Seq(RuleType)
  <2>1. rule \in Seq(RuleType) /\ Len(rule) \in Nat /\ DOMAIN rule = 1..Len(rule)
    BY DEF IInv, AdInv
  <2> DEFINE f(r) == IF rule[r].unit = g THEN [rule[r] EXCEPT !.state = "off"] ELSE rule[r]
  <2>2. rule' = [r \in 1..Len(rule) |-> f(r)]
    BY <1>1, <2>1
  <2>3. ASSUME NEW r \in 1..Len(rule) PROVE f(r) \in RuleType
    <3>1. rule[r] \in RuleType
      BY <2>1
    <3> QED
      BY <3>1 DEF RuleType
  <2> HIDE DEF f
  <2>4. rule' \in [1..Len(rule) -> RuleType]
    BY <2>2, <2>3
  <2> QED
    BY <2>1, <2>4
<1>12. cost' \in [1..MaxUploads -> CostType] /\ \A n \in 1..MaxUploads : cost'[n].state = cost[n].state
  <2>1. cost \in [1..MaxUploads -> CostType]
    BY DEF IInv, AdInv
  <2>2. ASSUME NEW n \in 1..MaxUploads PROVE cost'[n] \in CostType /\ cost'[n].state = cost[n].state
    <3>1. cost[n] \in CostType
      BY <2>1
    <3> QED
      BY <1>1, <2>1, <3>1 DEF CostType
  <2> QED
    BY <1>1, <2>1, <2>2
<1>13. AdInv' /\ CountInv'
  <2>1. cost \in [1..MaxUploads -> CostType] /\ campaign \in CampaignType
    BY DEF IInv, AdInv
  <2>2. Uploads("active")' = Uploads("active") /\ RowsOf(cost') = RowsOf(cost)
    BY <1>12, <2>1 DEF Uploads, RowsOf
  <2>3. AdsBelongToParents'
    BY <1>2, <1>4, <2>1 DEF IInv, AdInv, AdsBelongToParents, CampaignType
  <2>4. Usage(item)' = Usage(item)
    BY <1>2
  <2> QED
    BY <1>2, <1>11, <1>12, <2>2, <2>3, <2>4 DEF IInv, AdInv, CountInv
<1>14. Stays
  BY <1>2 DEF Stays, ConfirmedSig, ConfirmedAd
<1> QED
  BY <1>5, <1>7, <1>9, <1>10, <1>13, <1>14 DEF IInv

-----------------------------------------------------------------------------
(* Order items.                                                            *)

LEMMA AskMapStep == ASSUME IInv, AskMap PROVE IInv' /\ Stays
<1>1. PICK s \in Sig, u \in Unit :
        MayTakeItems(u) /\ Ask([kind |-> "map", sig |-> s, unit |-> u])
  BY DEF AskMap
<1> DEFINE r == [kind |-> "map", sig |-> s, unit |-> u]
<1>2. r \in RequestType
  BY <1>1 DEF RequestType, MayTakeItems, Unit
<1>3. Checked(r, unit, campaign.known)
  BY <1>1 DEF Checked, MayTakeItems, Active
<1> QED
  BY <1>1, <1>2, <1>3, AskStep

LEMMA MapCreatedStep == ASSUME IInv, MapCreated PROVE IInv' /\ Stays
<1>1. PICK c \in creating :
        /\ creating' = creating \ {c}
        /\ pending' = IF MayTakeItems(c.unit)
                      THEN Append(pending, [kind |-> "map", sig |-> c.sig, unit |-> c.unit]) ELSE pending
  BY DEF MapCreated
<1>2. UNCHANGED <<unit, orders, ads>> /\ unit' = unit /\ campaign' = campaign
  BY DEF MapCreated, ads
<1>3. RequestInv'
  <2>1. CASE MayTakeItems(c.unit)
    <3> DEFINE r == [kind |-> "map", sig |-> c.sig, unit |-> c.unit]
    <3>1. c.sig \in Sig /\ c.unit \in Plain /\ unit[c.unit].state # "none"
      BY DEF IInv, RequestInv
    <3>2. r \in RequestType
      BY <3>1 DEF RequestType
    <3>3. Checked(r, unit, campaign.known)
      BY <3>1 DEF Checked
    <3>4. r.kind # "group" /\ pending' = Append(pending, r)
      BY <1>1, <2>1
    <3>5. creating' \subseteq creating /\ UNCHANGED <<unit, campaign>>
      BY <1>1, <1>2
    <3> HIDE DEF r
    <3> QED
      BY <3>2, <3>3, <3>4, <3>5, RequestWaits DEF IInv
  <2>2. CASE ~MayTakeItems(c.unit)
    BY <1>1, <1>2, <2>2, RequestsGoOn DEF IInv, Grows
  <2> QED
    BY <2>1, <2>2
<1> QED
  BY <1>2, <1>3, RequestStep

\* What names make of a signature depends on that signature only.
LEMMA NamedAt ==
    ASSUME NEW un, NEW sg, NEW other, NEW s \in Sig, sg[s] = other[s]
    PROVE  Named(un, sg, Sig)[s] = Named(un, other, Sig)[s]
  BY DEF Named, Automatic, MapTo

\* Items and signatures change, nothing else but their counts.
LEMMA OrderStep ==
    ASSUME IInv, MappingInv', PlaceInv', used' = Usage(item'), RequestInv', UNCHANGED <<unit, ads>>,
           \A s \in Sig : ConfirmedSig(s)
    PROVE  IInv' /\ Stays
<1>1. unit' = unit /\ rule' = rule /\ campaign' = campaign /\ cost' = cost
  BY DEF ads
<1>2. UnitInv' /\ AdInv' /\ campaign'.used = Cardinality(RowsOf(cost'))
  BY <1>1 DEF IInv, UnitInv, Units, AdInv, AdsBelongToParents, CountInv, Uploads, RowsOf
<1> QED
  BY <1>1, <1>2 DEF IInv, CountInv, Stays, ConfirmedAd

LEMMA MapStep == ASSUME IInv, Map PROVE IInv' /\ Stays
<1> DEFINE s == Asked.sig
           u == Asked.unit
           mapped == [unit |-> u, status |-> "MAPPED", confirmed |-> TRUE]
<1>1. /\ Turn("map")
      /\ sig' = [sig EXCEPT ![s] = mapped]
      /\ item' = [i \in Item |-> IF item[i].sig = s THEN [item[i] EXCEPT !.unit = u] ELSE item[i]]
      /\ owed' = (owed \/ ~Active(unit, u))
      /\ used' = used /\ UNCHANGED <<unit, ads>> /\ creating' = creating
      /\ unit' = unit /\ campaign' = campaign
  BY DEF Map, ads, handlers
<1>2. /\ pending # <<>> /\ pending' = Tail(pending)
      /\ Asked \in RequestType /\ Asked.kind = "map" /\ Checked(Asked, unit, campaign.known)
  BY <1>1, TurnIs DEF IInv
<1>3. s \in Sig /\ u \in Plain /\ u \in Unit /\ u \notin Group /\ unit[u].state # "none" /\ u # None
  BY <1>2, KindOfRequest DEF Checked, Unit
<1> HIDE DEF u, s
<1>4. mapped \in SigType /\ mapped.unit = u /\ mapped.status = "MAPPED" /\ mapped.confirmed
  BY <1>3 DEF SigType
<1> HIDE DEF mapped
<1>5. Mapped(unit, sig, item) /\ Linking(unit, item, Item)
      /\ sig \in [Sig -> SigType] /\ item \in [Item -> ItemType]
  BY DEF IInv, MappingInv, Mapped
<1>6. sig' \in [Sig -> SigType] /\ \A t \in Sig : sig'[t] = IF t = s THEN mapped ELSE sig[t]
  BY <1>1, <1>3, <1>4, <1>5
<1>7. ASSUME NEW i \in Item
      PROVE  /\ item'[i] \in ItemType /\ item'[i].sig = item[i].sig
             /\ item'[i].unit = IF item[i].sig = s THEN u ELSE item[i].unit
  <2>1. item[i] \in ItemType
    BY <1>5
  <2>2. item'[i] = IF item[i].sig = s THEN [item[i] EXCEPT !.unit = u] ELSE item[i]
    BY <1>1
  <2> QED
    BY <1>3, <2>1, <2>2 DEF ItemType
<1>8. item' \in [Item -> ItemType]
  BY <1>1, <1>7
<1>9. MappingInv'
  <2>1. ASSUME NEW t \in Sig
        PROVE  /\ sig'[t].unit # None => unit[sig'[t].unit].state # "none"
               /\ sig'[t].confirmed => sig'[t].unit \in Plain \cup {None} /\ sig'[t].status # "none"
               /\ sig'[t].status = "none" => sig'[t].unit = None
    BY <1>3, <1>4, <1>5, <1>6 DEF Mapped
  <2>2. ASSUME NEW i \in Item
        PROVE  /\ item'[i].unit # None => unit[item'[i].unit].state # "none"
               /\ item'[i].sig = None => item'[i].unit = None
               /\ item'[i].sig # None => sig'[item'[i].sig].status # "none"
               /\ item'[i].unit \in Group => unit[item'[i].unit].links # {}
    <3>1. item[i].sig \in Sig \cup {None} /\ s # None
      BY <1>3, <1>5 DEF ItemType
    <3>2. /\ item[i].unit # None => unit[item[i].unit].state # "none"
          /\ item[i].sig = None => item[i].unit = None
          /\ item[i].sig # None => sig[item[i].sig].status # "none"
          /\ item[i].unit \in Group => unit[item[i].unit].links # {}
      BY <1>5 DEF Mapped, Linking
    <3> QED
      BY <1>3, <1>4, <1>6, <1>7, <3>1, <3>2
  <2> QED
    BY <1>1, <1>6, <1>8, <2>1, <2>2 DEF MappingInv, Mapped, Linking
<1>10. PlaceInv'
  <2>1. owed' \in BOOLEAN
    BY <1>1 DEF IInv, PlaceInv
  <2>2. SUFFICES ASSUME ~owed', NEW i \in Item, item'[i].sig # None
                 PROVE  item'[i].unit = Place(unit', sig', item', i)
    BY <2>1 DEF PlaceInv, Placed
  <2>3. Active(unit, u) /\ Placed(unit, sig, item) /\ item[i].sig \in Sig /\ item'[i].sig = item[i].sig
    BY <1>1, <1>5, <1>7, <2>2 DEF IInv, PlaceInv, ItemType
  <2>4. CASE item[i].sig = s
    <3>1. Named(unit, sig', Sig)[s] = mapped
      BY <1>3, <1>4, <1>6 DEF Named, Automatic
    <3>2. Resolved(unit, Named(unit, sig', Sig), s, i) = u
      BY <1>3, <1>4, <3>1 DEF Resolved
    <3>3. Assigned(unit, Named(unit, sig', Sig), s, i) = u
      BY <1>3, <2>3, <3>2 DEF Assigned
    <3> QED
      BY <1>1, <1>7, <2>3, <2>4, <3>3 DEF Place
  <2>5. CASE item[i].sig # s
    <3> DEFINE t == item[i].sig
    <3>1. sig'[t] = sig[t]
      BY <1>6, <2>3, <2>5
    <3>2. Named(unit, sig', Sig)[t] = Named(unit, sig, Sig)[t]
      BY <2>3, <3>1, NamedAt
    <3>3. Assigned(unit, Named(unit, sig', Sig), t, i) = Assigned(unit, Named(unit, sig, Sig), t, i)
      BY <3>2, AssignedReads
    <3> QED
      BY <1>1, <1>7, <2>2, <2>3, <2>5, <3>3 DEF Place, Placed
  <2> QED
    BY <2>4, <2>5
<1>11. used' = Usage(item')
  <2>1. Usage(item') = Usage(item)
    BY <1>7, UsageReads
  <2> QED
    BY <1>1, <2>1 DEF IInv, CountInv
<1>12. RequestInv'
  BY <1>1, <1>2, RequestsGoOn DEF IInv, Grows
<1>13. ASSUME NEW t \in Sig PROVE ConfirmedSig(t)
  BY <1>1, <1>4, <1>6 DEF ConfirmedSig, s, u
<1> QED
  BY <1>1, <1>9, <1>10, <1>11, <1>12, <1>13, OrderStep

LEMMA CreateForStep == ASSUME IInv, CreateFor PROVE IInv' /\ Stays
<1>1. PICK s \in Sig, u \in NextUnit, names \in Names, links \in Links :
        /\ unit' = [unit EXCEPT ![u] = NewUnit(names, links)]
        /\ creating' = creating \cup {[sig |-> s, unit |-> u]}
        /\ owed' = TRUE
        /\ UNCHANGED <<sig, item, used, ads, pending>>
  BY DEF CreateFor
<1> DEFINE v == NewUnit(names, links)
<1>2. u \in Plain /\ u \in Unit /\ u \notin Group /\ unit[u].state = "none"
  BY DEF NextUnit, Unborn, Unit
<1>3. v \in UnitType /\ v.state = "active" /\ v.parent = None
  BY NewUnitType, ListAssumption
<1> HIDE DEF v
<1>4. Units(unit') /\ Grows(unit')
  BY <1>1, <1>2, <1>3, UnitsWith DEF IInv, v
<1>5. sig' = sig /\ item' = item /\ used' = used /\ pending' = pending
      /\ rule' = rule /\ campaign' = campaign /\ cost' = cost
  BY <1>1 DEF ads
<1>6. \A w \in Unit : unit'[w] = IF w = u THEN v ELSE unit[w]
  BY <1>1 DEF IInv, UnitInv, Units, v
<1>7. MappingInv'
  <2>1. Mapped(unit, sig, item) /\ Linking(unit, item, Item)
    BY DEF IInv, MappingInv
  <2>2. Mapped(unit', sig, item)
    BY <1>4, <2>1, MappedGrows
  <2>3. Linking(unit', item, Item)
    BY <1>2, <1>6, <2>1 DEF Linking, Unit
  <2> QED
    BY <1>5, <2>2, <2>3 DEF MappingInv
<1>8. PlaceInv'
  BY <1>1 DEF PlaceInv
<1>9. AdInv' /\ CountInv' /\ ConfirmedAd
  <2>1. \A w \in Unit : unit[w].parent = None => unit'[w].parent = None
    BY <1>3, <1>6
  <2>2. cost' \in [1..MaxUploads -> CostType] /\ \A n \in 1..MaxUploads : cost'[n].state = cost[n].state
    BY <1>5 DEF IInv, AdInv
  <2>3. AdInv' /\ campaign'.used = Cardinality(RowsOf(cost')) /\ ConfirmedAd
    BY <1>5, <2>1, <2>2, AdsStay
  <2> QED
    BY <1>5, <2>3 DEF IInv, CountInv, Usage
<1>10. RequestInv'
  <2>1. RequestInv
    BY DEF IInv
  <2>2. \A n \in 1..Len(pending) : Checked(pending[n], unit', campaign'.known)
    <3> SUFFICES ASSUME NEW n \in 1..Len(pending) PROVE Checked(pending[n], unit', campaign'.known)
      OBVIOUS
    <3>1. pending[n] \in RequestType /\ Checked(pending[n], unit, campaign.known)
      BY <2>1 DEF RequestInv, Requests, Checked
    <3> QED
      BY <1>2, <1>4, <1>5, <1>6, <3>1, KindOfRequest DEF Checked, Grows, Unit
  <2>3. \A c \in creating' : c \in [sig : Sig, unit : Plain] /\ unit'[c.unit].state # "none"
    <3> SUFFICES ASSUME NEW c \in creating'
                 PROVE  c \in [sig : Sig, unit : Plain] /\ unit'[c.unit].state # "none"
      OBVIOUS
    <3>1. CASE c \in creating
      BY <1>4, <2>1, <3>1 DEF RequestInv, Grows, Unit
    <3>2. CASE c = [sig |-> s, unit |-> u]
      BY <1>2, <1>3, <1>6, <3>2
    <3> QED
      BY <1>1, <3>1, <3>2
  <2> QED
    BY <1>5, <2>1, <2>2, <2>3 DEF RequestInv, Requests, Checked
<1>11. \A t \in Sig : ConfirmedSig(t)
  BY <1>5 DEF ConfirmedSig
<1> QED
  BY <1>4, <1>7, <1>8, <1>9, <1>10, <1>11 DEF IInv, UnitInv, Stays

LEMMA FoundIs ==
    ASSUME sig \in [Sig -> SigType], NEW s \in Sig
    PROVE  /\ Found(sig, s) \in [Sig -> SigType]
           /\ \A t \in Sig :
                 /\ Found(sig, s)[t].unit = sig[t].unit
                 /\ Found(sig, s)[t].confirmed = sig[t].confirmed
                 /\ sig[t].status # "none" => Found(sig, s)[t] = sig[t]
                 /\ t # s => Found(sig, s)[t] = sig[t]
           /\ Found(sig, s)[s].status # "none"
<1> DEFINE status == IF sig[s].status = "none" THEN "UNMAPPED" ELSE sig[s].status
           new == [sig[s] EXCEPT !.status = status]
<1>1. Found(sig, s) = [sig EXCEPT ![s] = new]
  BY DEF Found
<1>2. sig[s] \in SigType
  OBVIOUS
<1>3. /\ new \in SigType /\ new.unit = sig[s].unit /\ new.confirmed = sig[s].confirmed
      /\ new.status # "none"
      /\ sig[s].status # "none" => new = sig[s]
  BY <1>2 DEF SigType
<1> HIDE DEF new
<1> QED
  BY <1>1, <1>3

\* An item counts for the signature it has got, and for no other.
LEMMA CountsItems ==
    ASSUME used = Usage(item), NEW i \in Item, NEW s \in Sig, NEW it,
           \A j \in Item : it[j].sig = IF j = i THEN s ELSE item[j].sig
    PROVE  CountedFor(i, s) = Usage(it)
<1> DEFINE Having(t) == {j \in Item : item[j].sig = t}
           Got(t) == {j \in Item : it[j].sig = t}
<1>1. \A t \in Sig : IsFiniteSet(Having(t)) /\ used[t] = Cardinality(Having(t)) /\ used[t] \in Nat
  <2>1. \A t \in Sig : IsFiniteSet(Having(t))
    BY ItemAssumption, FS_Subset
  <2> QED
    BY <2>1, FS_CardinalityType DEF Usage
<1>2. ASSUME NEW t \in Sig PROVE CountedFor(i, s)[t] = Cardinality(Got(t))
  <2>1. CountedFor(i, s)[t] =
          CASE t = s /\ item[i].sig # s -> used[t] + 1
            [] t # s /\ item[i].sig = t -> IF used[t] = 0 THEN 0 ELSE used[t] - 1
            [] OTHER -> used[t]
    BY DEF CountedFor
  <2>2. CASE t = s /\ item[i].sig # s
    <3>1. Got(t) = Having(t) \cup {i} /\ i \notin Having(t)
      BY <2>2
    <3> HIDE DEF Got, Having
    <3>2. Cardinality(Having(t) \cup {i}) = Cardinality(Having(t)) + 1
      BY <1>1, <3>1, FS_AddElement
    <3> QED
      BY <1>1, <2>1, <2>2, <3>1, <3>2
  <2>3. CASE t # s /\ item[i].sig = t
    <3>1. Got(t) = Having(t) \ {i} /\ i \in Having(t)
      BY <2>3
    <3> HIDE DEF Got, Having
    <3>2. Cardinality(Having(t) \ {i}) = Cardinality(Having(t)) - 1
      BY <1>1, <3>1, FS_RemoveElement
    <3>3. used[t] # 0
      BY <1>1, <3>1, FS_EmptySet
    <3> QED
      BY <1>1, <2>1, <2>3, <3>1, <3>2, <3>3
  <2>4. CASE (t = s /\ item[i].sig = s) \/ (t # s /\ item[i].sig # t)
    <3>1. Got(t) = Having(t)
      BY <2>4
    <3> HIDE DEF Got, Having
    <3> QED
      BY <1>1, <2>1, <2>4, <3>1
  <2> QED
    BY <2>2, <2>3, <2>4
<1>3. CountedFor(i, s) = [t \in Sig |-> CountedFor(i, s)[t]]
  BY DEF CountedFor
<1>4. Usage(it) = [t \in Sig |-> Cardinality(Got(t))]
  BY DEF Usage
<1> HIDE DEF Got
<1> QED
  BY <1>2, <1>3, <1>4

LEMMA SaveItemStep == ASSUME IInv, SaveItem PROVE IInv' /\ Stays
<1>1. PICK i \in Item, s \in Sig :
        LET known == Found(sig, s)
            saved == [item EXCEPT ![i] = [sig |-> s, unit |-> None]]
            done == Recalculated(unit, known, saved, {s, item[i].sig}, TouchedItems(i))
        IN  sig' = done.sig /\ item' = done.item /\ used' = CountedFor(i, s)
  BY DEF SaveItem
<1>2. UNCHANGED <<unit, ads>> /\ unit' = unit /\ campaign' = campaign /\ pending' = pending
      /\ creating' = creating /\ owed' = owed
  BY DEF SaveItem, ads, handlers
<1> DEFINE known == Found(sig, s)
           fresh == [sig |-> s, unit |-> None]
           saved == [item EXCEPT ![i] = fresh]
           S == {s, item[i].sig}
           I == {i}
<1>3. Mapped(unit, sig, item) /\ Linking(unit, item, Item)
      /\ sig \in [Sig -> SigType] /\ item \in [Item -> ItemType]
  BY DEF IInv, MappingInv, Mapped
<1>4. /\ known \in [Sig -> SigType]
      /\ \A t \in Sig :
            /\ known[t].unit = sig[t].unit
            /\ known[t].confirmed = sig[t].confirmed
            /\ sig[t].status # "none" => known[t] = sig[t]
            /\ t # s => known[t] = sig[t]
      /\ known[s].status # "none"
  BY <1>3, FoundIs
<1>5. fresh \in ItemType /\ fresh.sig = s /\ fresh.unit = None
  BY DEF ItemType
<1> HIDE DEF known, fresh
<1>6. saved \in [Item -> ItemType] /\ \A j \in Item : saved[j] = IF j = i THEN fresh ELSE item[j]
  BY <1>3, <1>5
<1> HIDE DEF saved
<1>7. Mapped(unit, known, saved)
  <2>1. ASSUME NEW t \in Sig
        PROVE  /\ known[t].unit # None => unit[known[t].unit].state # "none"
               /\ known[t].confirmed => known[t].unit \in Plain \cup {None} /\ known[t].status # "none"
               /\ known[t].status = "none" => known[t].unit = None
    BY <1>3, <1>4 DEF Mapped
  <2>2. ASSUME NEW j \in Item
        PROVE  /\ saved[j].unit # None => unit[saved[j].unit].state # "none"
               /\ saved[j].sig = None => saved[j].unit = None
               /\ saved[j].sig # None => known[saved[j].sig].status # "none"
    <3>1. /\ item[j].unit # None => unit[item[j].unit].state # "none"
          /\ item[j].sig = None => item[j].unit = None
          /\ item[j].sig # None => item[j].sig \in Sig /\ sig[item[j].sig].status # "none"
      BY <1>3 DEF Mapped, ItemType
    <3> QED
      BY <1>4, <1>5, <1>6, <3>1
  <2> QED
    BY <1>4, <1>6, <2>1, <2>2 DEF Mapped
<1>8. /\ sig' = Recalculated(unit, known, saved, S, I).sig
      /\ item' = Recalculated(unit, known, saved, S, I).item
      /\ used' = CountedFor(i, s)
  BY <1>1 DEF TouchedItems, known, saved, fresh
<1>9. /\ I \in SUBSET Item /\ Linking(unit, saved, Item \ I)
      /\ \A j \in I : saved[j].sig # None => saved[j].sig \in S
  BY <1>3, <1>5, <1>6 DEF Linking
<1> HIDE DEF S, I
<1>10. /\ Mapped(unit, sig', item')
       /\ Linking(unit, item', Item)
       /\ Follows(sig', known)
       /\ Named(unit, sig', Sig) = Named(unit, known, Sig)
       /\ \A j \in Item : item'[j].sig = saved[j].sig
       /\ \A j \in Item \ I : item'[j] = saved[j]
       /\ \A j \in I : saved[j].sig # None => item'[j].unit = Place(unit, known, saved, j)
  BY <1>7, <1>8, <1>9, RecalculatedIs
<1>11. MappingInv'
  BY <1>2, <1>10 DEF MappingInv
<1>12. PlaceInv'
  <2>1. owed' \in BOOLEAN
    BY <1>2 DEF IInv, PlaceInv
  <2>2. SUFFICES ASSUME ~owed', NEW j \in Item, item'[j].sig # None
                 PROVE  item'[j].unit = Place(unit', sig', item', j)
    BY <2>1 DEF PlaceInv, Placed
  <2>3. CASE j = i
    <3>1. item'[j].unit = Place(unit, known, saved, j)
      BY <1>10, <2>2, <2>3 DEF I
    <3> QED
      BY <1>2, <1>10, <3>1 DEF Place
  <2>4. CASE j # i
    <3> DEFINE t == item[j].sig
    <3>1. item'[j] = item[j] /\ t # None
      BY <1>6, <1>10, <2>2, <2>4 DEF I
    <3>2. t \in Sig /\ sig[t].status # "none"
      BY <1>3, <3>1 DEF Mapped, ItemType
    <3>3. Named(unit, known, Sig)[t] = Named(unit, sig, Sig)[t]
      BY <1>4, <3>2, NamedAt
    <3>4. Assigned(unit, Named(unit, sig', Sig), t, j) = Assigned(unit, Named(unit, sig, Sig), t, j)
      BY <1>10, <3>3, AssignedReads
    <3>5. item[j].unit = Place(unit, sig, item, j)
      BY <1>2, <2>2, <3>1 DEF IInv, PlaceInv, Placed
    <3> QED
      BY <1>2, <3>1, <3>4, <3>5 DEF Place
  <2> QED
    BY <2>3, <2>4
<1>13. used' = Usage(item')
  <2>1. \A j \in Item : item'[j].sig = IF j = i THEN s ELSE item[j].sig
    BY <1>5, <1>6, <1>10
  <2>2. used = Usage(item)
    BY DEF IInv, CountInv
  <2> QED
    BY <1>8, <2>1, <2>2, CountsItems
<1>14. RequestInv'
  BY <1>2, RequestsGoOn DEF IInv, Grows
<1>15. ASSUME NEW t \in Sig PROVE ConfirmedSig(t)
  BY <1>3, <1>4, <1>10 DEF ConfirmedSig, Follows, Automatic, Mapped
<1> QED
  BY <1>2, <1>11, <1>12, <1>13, <1>14, <1>15, OrderStep

LEMMA RecalculateOrdersStep == ASSUME IInv, RecalculateOrders PROVE IInv' /\ Stays
<1>1. /\ sig' = Everything(unit, sig, item).sig /\ item' = Everything(unit, sig, item).item
      /\ owed' = FALSE /\ used' = used /\ UNCHANGED <<unit, ads>>
      /\ unit' = unit /\ campaign' = campaign /\ pending' = pending /\ creating' = creating
  BY DEF RecalculateOrders, ads, handlers
<1>2. Mapped(unit, sig, item)
  BY DEF IInv, MappingInv
<1>3. /\ Mapped(unit, sig', item') /\ Linking(unit, item', Item) /\ Follows(sig', sig)
      /\ \A i \in Item : item'[i].sig = item[i].sig
      /\ Placed(unit, sig', item')
  BY <1>1, <1>2, EverythingIs
<1>4. MappingInv' /\ PlaceInv'
  BY <1>1, <1>3 DEF MappingInv, PlaceInv
<1>5. used' = Usage(item')
  <2>1. Usage(item') = Usage(item)
    BY <1>3, UsageReads
  <2> QED
    BY <1>1, <2>1 DEF IInv, CountInv
<1>6. RequestInv'
  BY <1>1, RequestsGoOn DEF IInv, Grows
<1>7. \A s \in Sig : ConfirmedSig(s)
  BY <1>3, FollowsStays
<1> QED
  BY <1>1, <1>4, <1>5, <1>6, <1>7, OrderStep

-----------------------------------------------------------------------------
(* Seeds.                                                                  *)

LEMMA SeedClearsStep == ASSUME IInv, SeedClears PROVE IInv' /\ Stays
<1>1. /\ unit' = [u \in Unit |-> IF Exists(u) THEN [NoUnit EXCEPT !.state = "gone"] ELSE unit[u]]
      /\ item' = [i \in Item |-> [item[i] EXCEPT !.unit = None]]
      /\ sig' = [s \in Sig |-> IF Automatic(sig, s) THEN MapTo(sig, s, {}) ELSE sig[s]]
      /\ owed' = FALSE /\ used' = used /\ rule' = rule /\ campaign' = campaign /\ cost' = cost
      /\ pending' = pending /\ creating' = creating
  BY DEF SeedClears, ads
<1>2. Mapped(unit, sig, item) /\ sig \in [Sig -> SigType] /\ item \in [Item -> ItemType]
      /\ unit \in [Unit -> UnitType] /\ \A g \in Group : unit[g].parent = None
  BY DEF IInv, UnitInv, Units, MappingInv, Mapped
<1> DEFINE gone == [NoUnit EXCEPT !.state = "gone"]
<1>3. gone \in UnitType /\ gone.state = "gone" /\ gone.parent = None
  BY DEF NoUnit, UnitType
<1>4. \A u \in Unit : unit'[u] = IF Exists(u) THEN gone ELSE unit[u]
  BY <1>1
<1> HIDE DEF gone
<1>5. ASSUME NEW u \in Unit
      PROVE  /\ unit'[u] \in UnitType /\ unit'[u].state \in {"none", "gone"}
             /\ unit[u].parent = None => unit'[u].parent = None
             /\ unit'[u].state = "none" <=> unit[u].state = "none"
  <2>1. unit[u] \in UnitType
    BY <1>2
  <2> QED
    BY <1>3, <1>4, <2>1 DEF Exists, UnitType
<1>6. Units(unit') /\ Grows(unit') /\ \A g \in Group : unit[g].state = "none" => unit'[g].state = "none"
  <2>1. unit' = [u \in Unit |-> unit'[u]]
    BY <1>1
  <2>2. unit' \in [Unit -> UnitType]
    BY <1>5, <2>1
  <2> QED
    BY <1>2, <1>5, <2>2 DEF Units, Grows, Unit
<1>7. ASSUME NEW i \in Item
      PROVE  item'[i] \in ItemType /\ item'[i].sig = item[i].sig /\ item'[i].unit = None
  <2>1. item[i] \in ItemType
    BY <1>2
  <2> QED
    BY <1>1, <2>1 DEF ItemType
<1>8. item' \in [Item -> ItemType]
  BY <1>1, <1>7
<1>9. ASSUME NEW s \in Sig
      PROVE  /\ sig'[s] \in SigType
             /\ ~Automatic(sig, s) => sig'[s] = sig[s]
             /\ Automatic(sig, s) => ~sig'[s].confirmed /\ sig'[s].status # "none" /\ sig'[s].unit = None
  <2>1. CASE Automatic(sig, s)
    <3>1. sig'[s] = MapTo(sig, s, {})
      BY <1>1, <2>1
    <3>2. /\ MapTo(sig, s, {}) \in SigType
          /\ MapTo(sig, s, {}).unit = The({})
          /\ MapTo(sig, s, {}).status = StatusOf({})
          /\ MapTo(sig, s, {}).confirmed = sig[s].confirmed
      BY <1>2, MapToIs
    <3>3. The({}) = None
      BY TheIn
    <3> QED
      BY <2>1, <3>1, <3>2, <3>3, StatusType DEF Automatic
  <2>2. CASE ~Automatic(sig, s)
    BY <1>1, <1>2, <2>2
  <2> QED
    BY <2>1, <2>2
<1>10. sig' \in [Sig -> SigType]
  BY <1>1, <1>9
<1>11. MappingInv'
  <2>1. ASSUME NEW s \in Sig
        PROVE  /\ sig'[s].unit # None => unit'[sig'[s].unit].state # "none"
               /\ sig'[s].confirmed => sig'[s].unit \in Plain \cup {None} /\ sig'[s].status # "none"
               /\ sig'[s].status = "none" => sig'[s].unit = None
    <3>1. sig[s].unit \in Unit \cup {None}
      BY <1>2 DEF SigType
    <3> QED
      BY <1>2, <1>6, <1>9, <3>1 DEF Mapped, Grows
  <2>2. ASSUME NEW i \in Item
        PROVE  item'[i].sig # None => sig'[item'[i].sig].status # "none"
    <3>1. item[i].sig # None => item[i].sig \in Sig /\ sig[item[i].sig].status # "none"
      BY <1>2 DEF Mapped, ItemType
    <3> QED
      BY <1>7, <1>9, <3>1
  <2>3. None \notin Group
    BY DEF Unit
  <2> QED
    BY <1>7, <1>8, <1>10, <2>1, <2>2, <2>3 DEF MappingInv, Mapped, Linking
<1>12. PlaceInv'
  <2>1. SUFFICES ASSUME NEW i \in Item, item'[i].sig # None
                 PROVE  item'[i].unit = Place(unit', sig', item', i)
    BY <1>1 DEF PlaceInv, Placed
  <2>2. item'[i].sig \in Sig
    BY <1>7, <2>1 DEF ItemType
  <2>3. Named(unit', sig', Sig) \in [Sig -> SigType]
    BY <1>10, NamedIs
  <2> DEFINE p == Assigned(unit', Named(unit', sig', Sig), item'[i].sig, i)
  <2>4. p \in Unit \cup {None} /\ (p # None => unit'[p].state \in {"active", "off"})
    BY <2>2, <2>3, AssignedIs
  <2> HIDE DEF p
  <2>5. p = None
    BY <1>5, <2>4
  <2> QED
    BY <1>7, <2>5 DEF Place, p
<1>13. AdInv' /\ CountInv' /\ ConfirmedAd
  <2>1. cost' \in [1..MaxUploads -> CostType] /\ \A n \in 1..MaxUploads : cost'[n].state = cost[n].state
    BY <1>1 DEF IInv, AdInv
  <2>2. AdInv' /\ campaign'.used = Cardinality(RowsOf(cost')) /\ ConfirmedAd
    BY <1>1, <1>5, <2>1, AdsStay
  <2>3. Usage(item') = Usage(item)
    BY <1>7, UsageReads
  <2> QED
    BY <1>1, <2>2, <2>3 DEF IInv, CountInv
<1>14. RequestInv'
  BY <1>1, <1>6, RequestsGoOn DEF IInv
<1>15. ASSUME NEW s \in Sig PROVE ConfirmedSig(s)
  BY <1>9 DEF ConfirmedSig, Automatic
<1> QED
  BY <1>6, <1>11, <1>12, <1>13, <1>14, <1>15 DEF IInv, UnitInv, Stays

LEMMA SeedCreatesStep == ASSUME IInv, SeedCreates PROVE IInv' /\ Stays
<1>1. PICK into \in Placings(Head(seeding)) : Settle(Seed(into), sig)
  BY DEF SeedCreates
<1>2. UNCHANGED <<rule, cost>> /\ pending' = pending /\ creating' = creating
  BY DEF SeedCreates
<1>3. unit \in [Unit -> UnitType] /\ \A g \in Group : unit[g].parent = None
  BY DEF IInv, UnitInv, Units
<1> DEFINE un == Seed(into)
<1>4. ASSUME NEW u \in Unit
      PROVE  /\ un[u] \in UnitType
             /\ unit[u].parent = None => un[u].parent = None
             /\ unit[u].state # "none" => un[u].state # "none"
             /\ u \in Group /\ unit[u].state = "none" => un[u].state = "none"
  <2> DEFINE ids == ItemsWith({p \in DOMAIN into : into[p] = u})
             v == [unit[u] EXCEPT !.links = @ \cup ids]
  <2>1. un[u] = CASE u \in Unborn /\ ids # {} -> NewUnit({}, ids)
                  [] Exists(u) -> v
                  [] OTHER -> unit[u]
    BY DEF Seed
  <2>2. unit[u] \in UnitType
    BY <1>3
  <2>3. ids \subseteq Item
    BY DEF ItemsWith
  <2> HIDE DEF ids
  <2>4. NewUnit({}, ids) \in UnitType /\ NewUnit({}, ids).state = "active" /\ NewUnit({}, ids).parent = None
    BY <2>3, NewUnitType
  <2>5. v \in UnitType /\ v.state = unit[u].state /\ v.parent = unit[u].parent
    BY <2>2, <2>3 DEF UnitType
  <2> HIDE DEF v
  <2>6. u \in Unborn => u \notin Group /\ unit[u].state = "none"
    BY DEF Unborn
  <2>7. Exists(u) => unit[u].state # "none"
    BY DEF Exists
  <2> HIDE DEF un
  <2>8. CASE u \in Unborn /\ ids # {}
    <3>1. un[u] = NewUnit({}, ids)
      BY <2>1, <2>6, <2>7, <2>8 DEF Exists
    <3> QED
      BY <2>4, <2>6, <2>8, <3>1
  <2>9. CASE Exists(u)
    <3>1. un[u] = v
      BY <2>1, <2>6, <2>7, <2>9
    <3> QED
      BY <2>5, <2>7, <2>9, <3>1
  <2>10. CASE ~(u \in Unborn /\ ids # {}) /\ ~Exists(u)
    <3>1. un[u] = unit[u]
      BY <2>1, <2>10
    <3> QED
      BY <2>2, <3>1
  <2> QED
    BY <2>8, <2>9, <2>10
<1>5. un = [u \in Unit |-> un[u]]
  BY DEF Seed
<1> HIDE DEF un
<1>6. Units(un) /\ Grows(un)
  BY <1>3, <1>4, <1>5 DEF Units, Grows, Unit
<1>7. Mapped(unit, sig, item)
  BY DEF IInv, MappingInv
<1>8. Mapped(un, sig, item)
  BY <1>6, <1>7, MappedGrows
<1>9. Settle(un, sig) /\ unit' = un
  BY <1>1 DEF Settle, un
<1>10. campaign'.known = campaign.known
  BY <1>6, <1>8, <1>9, Settles
<1>11. \A g \in Group : unit[g].state = "none" => unit'[g].state = "none"
  BY <1>4, <1>9 DEF Unit
<1>12. RequestInv'
  BY <1>2, <1>6, <1>9, <1>10, <1>11, RequestsGoOn DEF IInv
<1>13. IInv' /\ Follows(sig', sig) /\ ConfirmedAd
  BY <1>2, <1>6, <1>8, <1>9, <1>12, SettleStep
<1> QED
  BY <1>13, FollowsStays DEF Stays

-----------------------------------------------------------------------------
(* Rules and ads.                                                          *)

\* Only rules change.
LEMMA RuleStep ==
    ASSUME IInv, UNCHANGED <<unit, orders, campaign, cost>>, creating' = creating,
           pending' = pending \/ (pending # <<>> /\ pending' = Tail(pending)),
           rule' \in Seq(RuleType)
    PROVE  IInv' /\ Stays
<1>1. RequestInv'
  BY RequestsGoOn DEF IInv, Grows
<1>2. Uploads("active")' = Uploads("active") /\ RowsOf(cost') = RowsOf(cost)
  BY DEF Uploads, RowsOf
<1>3. AdInv' /\ campaign'.used = Cardinality(RowsOf(cost'))
  BY <1>2 DEF IInv, AdInv, AdsBelongToParents, CountInv
<1>4. IInv' /\ \A s \in Sig : ConfirmedSig(s)
  BY <1>1, <1>3, QuietStep
<1> QED
  BY <1>4 DEF Stays, ConfirmedAd

LEMMA AskRuleStep == ASSUME IInv, AskRule PROVE IInv' /\ Stays
<1>1. PICK u \in Unit : Ask([kind |-> "rule", unit |-> u])
  BY DEF AskRule
<1> DEFINE r == [kind |-> "rule", unit |-> u]
<1>2. r \in RequestType
  BY DEF RequestType
<1>3. Checked(r, unit, campaign.known)
  BY DEF Checked
<1> QED
  BY <1>1, <1>2, <1>3, AskStep

LEMMA CreateRuleStep == ASSUME IInv, CreateRule PROVE IInv' /\ Stays
<1> DEFINE new == [unit |-> Asked.unit, state |-> "on"]
<1>1. /\ Turn("rule") /\ UNCHANGED <<unit, orders, campaign, cost>> /\ creating' = creating
      /\ rule' = IF rule = <<>> THEN <<new>> ELSE [rule EXCEPT ![1] = new]
  BY DEF CreateRule, handlers
<1>2. pending # <<>> /\ pending' = Tail(pending) /\ Asked.unit \in Unit
  BY <1>1, TurnIs, KindOfRequest DEF IInv
<1>3. new \in RuleType
  BY <1>2 DEF RuleType
<1> HIDE DEF new
<1>4. rule \in Seq(RuleType)
  BY DEF IInv, AdInv
<1>5. rule' \in Seq(RuleType)
  BY <1>1, <1>3, <1>4
<1> QED
  BY <1>1, <1>2, <1>5, RuleStep

LEMMA AskUpdateRuleStep == ASSUME IInv, AskUpdateRule PROVE IInv' /\ Stays
<1>1. PICK n \in DOMAIN rule, u \in Unit : Ask([kind |-> "ruleUnit", rule |-> n, unit |-> u])
  BY DEF AskUpdateRule
<1> DEFINE r == [kind |-> "ruleUnit", rule |-> n, unit |-> u]
<1>2. r \in RequestType
  <2>1. rule \in Seq(RuleType)
    BY DEF IInv, AdInv
  <2>2. n \in Nat
    BY <2>1
  <2> QED
    BY <2>2 DEF RequestType
<1>3. Checked(r, unit, campaign.known)
  BY DEF Checked
<1> QED
  BY <1>1, <1>2, <1>3, AskStep

LEMMA RuleWith ==
    ASSUME NEW q \in Seq(RuleType), NEW n, NEW v, n \in 1..Len(q) => v \in RuleType
    PROVE  [q EXCEPT ![n] = v] \in Seq(RuleType)
<1>1. q \in [1..Len(q) -> RuleType] /\ Len(q) \in Nat
  OBVIOUS
<1>2. [q EXCEPT ![n] = v] \in [1..Len(q) -> RuleType]
  BY <1>1
<1> QED
  BY <1>1, <1>2

LEMMA UpdateRuleStep == ASSUME IInv, UpdateRule PROVE IInv' /\ Stays
<1> DEFINE n == Asked.rule
           v == [rule[n] EXCEPT !.unit = Asked.unit]
<1>1. /\ Turn("ruleUnit") /\ UNCHANGED <<unit, orders, campaign, cost>> /\ creating' = creating
      /\ rule' = [rule EXCEPT ![n] = v]
  BY DEF UpdateRule, handlers
<1>2. pending # <<>> /\ pending' = Tail(pending) /\ Asked.unit \in Unit
  BY <1>1, TurnIs, KindOfRequest DEF IInv
<1>3. rule \in Seq(RuleType)
  BY DEF IInv, AdInv
<1>4. n \in 1..Len(rule) => v \in RuleType
  <2> SUFFICES ASSUME n \in 1..Len(rule) PROVE v \in RuleType
    OBVIOUS
  <2>1. rule[n] \in RuleType
    BY <1>3
  <2> QED
    BY <1>2, <2>1 DEF RuleType
<1> HIDE DEF v
<1>5. rule' \in Seq(RuleType)
  BY <1>1, <1>3, <1>4, RuleWith
<1> QED
  BY <1>1, <1>2, <1>5, RuleStep

LEMMA SwitchRuleStep == ASSUME IInv, SwitchRule PROVE IInv' /\ Stays
<1>1. PICK n \in DOMAIN rule, state \in {"on", "off"} :
        rule' = [rule EXCEPT ![n] = [rule[n] EXCEPT !.state = state]]
  BY DEF SwitchRule
<1>2. UNCHANGED <<unit, orders, campaign, cost>> /\ creating' = creating /\ pending' = pending
  BY DEF SwitchRule, Now, handlers
<1>3. rule \in Seq(RuleType)
  BY DEF IInv, AdInv
<1> DEFINE v == [rule[n] EXCEPT !.state = state]
<1>4. v \in RuleType
  <2>1. rule[n] \in RuleType
    BY <1>3
  <2> QED
    BY <2>1 DEF RuleType
<1> HIDE DEF v
<1>5. rule' \in Seq(RuleType)
  BY <1>1, <1>3, <1>4, RuleWith DEF v
<1> QED
  BY <1>2, <1>5, RuleStep

LEMMA AskMapAdStep == ASSUME IInv, AskMapAd PROVE IInv' /\ Stays
<1>1. PICK u \in Unit : campaign.known /\ Ask([kind |-> "mapAd", unit |-> u])
  BY DEF AskMapAd
<1> DEFINE r == [kind |-> "mapAd", unit |-> u]
<1>2. r \in RequestType
  BY DEF RequestType
<1>3. Checked(r, unit, campaign.known)
  BY <1>1 DEF Checked
<1> QED
  BY <1>1, <1>2, <1>3, AskStep

LEMMA AskUploadStep == ASSUME IInv, AskUpload PROVE IInv' /\ Stays
<1> DEFINE r == [kind |-> "upload"]
<1>1. Ask(r)
  BY DEF AskUpload
<1>2. r \in RequestType
  BY DEF RequestType
<1>3. Checked(r, unit, campaign.known)
  BY DEF Checked
<1> QED
  BY <1>1, <1>2, <1>3, AskStep

\* Only the campaign and its costs change.
LEMMA AdStep ==
    ASSUME IInv, UNCHANGED <<unit, orders, rule>>, creating' = creating,
           pending' = pending \/ (pending # <<>> /\ pending' = Tail(pending)),
           campaign' \in CampaignType, cost' \in [1..MaxUploads -> CostType],
           campaign.known => campaign'.known,
           ~campaign'.known => campaign'.unit = None /\ ~campaign'.confirmed /\ RowsOf(cost') = {},
           campaign'.used = Cardinality(RowsOf(cost')),
           ~campaign'.confirmed /\ campaign'.unit # None => unit[campaign'.unit].parent = None,
           ConfirmedAd
    PROVE  IInv' /\ Stays
<1>1. RequestInv'
  BY RequestsGoOn DEF IInv, Grows
<1>2. Uploads("active")' = RowsOf(cost')
  BY DEF Uploads, RowsOf
<1>3. AdsBelongToParents'
  BY DEF AdsBelongToParents
<1>4. AdInv'
  BY <1>2, <1>3 DEF IInv, AdInv
<1>5. IInv' /\ \A s \in Sig : ConfirmedSig(s)
  BY <1>1, <1>4, QuietStep
<1> QED
  BY <1>5 DEF Stays

LEMMA RecalculateAdsStep == ASSUME IInv, RecalculateAds PROVE IInv' /\ Stays
<1>1. /\ campaign' = AdRecalculated(unit, rule, campaign) /\ cost' = Applied(campaign', cost)
      /\ UNCHANGED <<unit, orders, rule>> /\ creating' = creating /\ pending' = pending
  BY DEF RecalculateAds, handlers
<1>2. /\ campaign \in CampaignType /\ cost \in [1..MaxUploads -> CostType] /\ rule \in Seq(RuleType)
      /\ Units(unit) /\ campaign.used = Cardinality(RowsOf(cost))
      /\ ~campaign.known => campaign.unit = None /\ ~campaign.confirmed /\ Uploads("active") = {}
  BY DEF IInv, AdInv, UnitInv, CountInv
<1>3. /\ campaign' \in CampaignType
      /\ campaign'.known = campaign.known /\ campaign'.confirmed = campaign.confirmed
      /\ campaign'.used = campaign.used
      /\ campaign.confirmed \/ ~campaign.known => campaign'.unit = campaign.unit
      /\ ~campaign'.confirmed /\ campaign'.unit # None => unit[campaign'.unit].parent = None
  BY <1>1, <1>2, AdRecalculatedIs
<1>4. /\ cost' \in [1..MaxUploads -> CostType]
      /\ \A n \in 1..MaxUploads : cost'[n].state = cost[n].state
  BY <1>1, <1>2, <1>3, AppliedIs
<1>5. RowsOf(cost') = RowsOf(cost) /\ RowsOf(cost) = Uploads("active")
  BY <1>2, <1>4 DEF RowsOf, Uploads
<1>6. ConfirmedAd
  BY <1>3 DEF ConfirmedAd
<1> QED
  BY <1>1, <1>2, <1>3, <1>4, <1>5, <1>6, AdStep

LEMMA MapAdStep == ASSUME IInv, MapAd PROVE IInv' /\ Stays
<1>1. /\ Turn("mapAd") /\ campaign' = [campaign EXCEPT !.unit = Asked.unit, !.confirmed = TRUE]
      /\ cost' = Applied(campaign', cost)
      /\ UNCHANGED <<unit, orders, rule>> /\ creating' = creating
  BY DEF MapAd, handlers
<1>2. pending # <<>> /\ pending' = Tail(pending) /\ Asked.unit \in Unit /\ campaign.known
  BY <1>1, TurnIs, KindOfRequest DEF IInv, Checked
<1>3. /\ campaign \in CampaignType /\ cost \in [1..MaxUploads -> CostType]
      /\ campaign.used = Cardinality(RowsOf(cost))
  BY DEF IInv, AdInv, CountInv
<1>4. /\ campaign' \in CampaignType /\ campaign'.unit = Asked.unit /\ campaign'.confirmed
      /\ campaign'.known /\ campaign'.used = campaign.used
  BY <1>1, <1>2, <1>3 DEF CampaignType
<1>5. /\ cost' \in [1..MaxUploads -> CostType]
      /\ \A n \in 1..MaxUploads : cost'[n].state = cost[n].state
  BY <1>1, <1>3, <1>4, AppliedIs
<1>6. RowsOf(cost') = RowsOf(cost)
  BY <1>3, <1>5 DEF RowsOf
<1>7. ConfirmedAd
  BY <1>1, <1>4 DEF ConfirmedAd
<1> QED
  BY <1>1, <1>2, <1>3, <1>4, <1>5, <1>6, <1>7, AdStep

LEMMA UnmapAdStep == ASSUME IInv, commands \in Nat, UnmapAd PROVE IInv' /\ Stays
<1>1. /\ campaign.known /\ campaign' = [campaign EXCEPT !.unit = None, !.confirmed = TRUE]
      /\ cost' = Applied(campaign', cost)
      /\ UNCHANGED <<unit, orders, rule>> /\ creating' = creating /\ pending' = pending
      /\ commands' = commands + 1
  BY DEF UnmapAd, Now, handlers
<1>2. /\ campaign \in CampaignType /\ cost \in [1..MaxUploads -> CostType]
      /\ campaign.used = Cardinality(RowsOf(cost))
  BY DEF IInv, AdInv, CountInv
<1>3. /\ campaign' \in CampaignType /\ campaign'.unit = None /\ campaign'.confirmed
      /\ campaign'.known /\ campaign'.used = campaign.used
  BY <1>1, <1>2 DEF CampaignType
<1>4. /\ cost' \in [1..MaxUploads -> CostType]
      /\ \A n \in 1..MaxUploads : cost'[n].state = cost[n].state
  <2>1. /\ Applied(campaign', cost) \in [1..MaxUploads -> CostType]
        /\ \A n \in 1..MaxUploads : Applied(campaign', cost)[n].state = cost[n].state
    BY <1>2, <1>3, AppliedIs
  <2> QED
    BY <1>1, <2>1
<1>5. RowsOf(cost') = RowsOf(cost)
  BY <1>2, <1>4 DEF RowsOf
<1>6. ConfirmedAd
  BY <1>1, <1>3 DEF ConfirmedAd
<1> QED
  BY <1>1, <1>2, <1>3, <1>4, <1>5, <1>6, AdStep

LEMMA UploadStep == ASSUME IInv, Upload PROVE IInv' /\ Stays
<1> DEFINE ca == Recognised(campaign)
<1>1. PICK n \in Uploads("none") :
        /\ Turn("upload") /\ campaign' = AdRecalculated(unit, rule, ca)
        /\ cost' = Applied(campaign', [cost EXCEPT ![n].state = "active"])
        /\ UNCHANGED <<unit, orders, rule>> /\ creating' = creating
  BY DEF Upload, handlers
<1>2. pending # <<>> /\ pending' = Tail(pending)
  BY <1>1 DEF Turn
<1>3. /\ campaign \in CampaignType /\ cost \in [1..MaxUploads -> CostType] /\ rule \in Seq(RuleType)
      /\ Units(unit) /\ campaign.used = Cardinality(RowsOf(cost))
  BY DEF IInv, AdInv, UnitInv, CountInv
<1>4. /\ ca \in CampaignType /\ ca.known /\ ca.used = campaign.used + 1
      /\ ca.unit = campaign.unit /\ ca.confirmed = campaign.confirmed
  <2> DEFINE count == campaign.used + 1
  <2>1. campaign.used \in Nat /\ count \in Nat
    BY <1>3 DEF CampaignType
  <2>2. ca = [campaign EXCEPT !.known = TRUE, !.used = count]
    BY <1>3 DEF Recognised, CampaignType
  <2> HIDE DEF count, ca
  <2>3. /\ ca \in CampaignType /\ ca.known /\ ca.used = count
        /\ ca.unit = campaign.unit /\ ca.confirmed = campaign.confirmed
    BY <1>3, <2>1, <2>2 DEF CampaignType
  <2> QED
    BY <2>3 DEF count
<1> HIDE DEF ca
<1>5. /\ campaign' \in CampaignType
      /\ campaign'.known /\ campaign'.confirmed = campaign.confirmed
      /\ campaign'.used = campaign.used + 1
      /\ campaign.confirmed => campaign'.unit = campaign.unit
      /\ ~campaign'.confirmed /\ campaign'.unit # None => unit[campaign'.unit].parent = None
  BY <1>1, <1>3, <1>4, AdRecalculatedIs
<1>6. n \in 1..MaxUploads /\ cost[n].state = "none"
  BY DEF Uploads
<1> DEFINE v == [cost[n] EXCEPT !.state = "active"]
           co == [cost EXCEPT ![n] = v]
<1>7. v \in CostType /\ v.state = "active"
  <2>1. cost[n] \in CostType
    BY <1>3, <1>6
  <2> QED
    BY <2>1 DEF CostType
<1>8. cost' = Applied(campaign', co)
  BY <1>1, <1>3, <1>6
<1> HIDE DEF v
<1>9. co \in [1..MaxUploads -> CostType]
      /\ \A m \in 1..MaxUploads : co[m].state = IF m = n THEN "active" ELSE cost[m].state
  BY <1>3, <1>7
<1> HIDE DEF co
<1>10. /\ cost' \in [1..MaxUploads -> CostType]
       /\ \A m \in 1..MaxUploads : cost'[m].state = co[m].state
  BY <1>5, <1>8, <1>9, AppliedIs
<1>11. RowsOf(cost') = RowsOf(cost) \cup {n} /\ n \notin RowsOf(cost)
  BY <1>3, <1>6, <1>9, <1>10 DEF RowsOf
<1>12. IsFiniteSet(RowsOf(cost))
  <2>1. RowsOf(cost) \subseteq 1..MaxUploads
    BY <1>3 DEF RowsOf
  <2>2. IsFiniteSet(1..MaxUploads)
    BY FS_Interval, ItemAssumption
  <2> QED
    BY <2>1, <2>2, FS_Subset
<1>13. campaign'.used = Cardinality(RowsOf(cost'))
  <2>1. Cardinality(RowsOf(cost) \cup {n}) = Cardinality(RowsOf(cost)) + 1
    BY <1>11, <1>12, FS_AddElement
  <2> QED
    BY <1>3, <1>5, <1>11, <2>1
<1>14. ConfirmedAd
  BY <1>5 DEF ConfirmedAd
<1> QED
  BY <1>1, <1>2, <1>5, <1>10, <1>13, <1>14, AdStep

LEMMA DeleteUploadStep == ASSUME IInv, DeleteUpload PROVE IInv' /\ Stays
<1> DEFINE v == [state |-> "deleted", unit |-> None]
<1>1. PICK n \in Uploads("active") :
        cost' = [cost EXCEPT ![n] = v] /\ campaign' = Recounted(campaign, cost')
  BY DEF DeleteUpload
<1>2. UNCHANGED <<unit, orders, rule>> /\ creating' = creating /\ pending' = pending
  BY DEF DeleteUpload, Now, handlers
<1>3. /\ campaign \in CampaignType /\ cost \in [1..MaxUploads -> CostType]
      /\ ~campaign.known => campaign.unit = None /\ ~campaign.confirmed /\ Uploads("active") = {}
      /\ ~campaign.confirmed /\ campaign.unit # None => unit[campaign.unit].parent = None
  BY DEF IInv, AdInv, AdsBelongToParents
<1>4. v \in CostType
  BY DEF CostType
<1>5. cost' \in [1..MaxUploads -> CostType]
  BY <1>1, <1>3, <1>4
<1> DEFINE count == Cardinality(RowsOf(cost'))
<1>6. count \in Nat
  <2>1. RowsOf(cost') \subseteq 1..MaxUploads
    BY <1>5 DEF RowsOf
  <2>2. IsFiniteSet(RowsOf(cost'))
    BY <2>1, FS_Interval, FS_Subset, ItemAssumption
  <2> QED
    BY <2>2, FS_CardinalityType
<1>7. campaign' = [campaign EXCEPT !.used = count]
  BY <1>1 DEF Recounted
<1>8. campaign.known
  BY <1>1, <1>3
<1> HIDE DEF count
<1>9. /\ campaign' \in CampaignType /\ campaign'.known = campaign.known
      /\ campaign'.unit = campaign.unit /\ campaign'.confirmed = campaign.confirmed
      /\ campaign'.used = count
  BY <1>3, <1>6, <1>7 DEF CampaignType
<1>10. ConfirmedAd
  BY <1>9 DEF ConfirmedAd
<1> QED
  BY <1>2, <1>3, <1>5, <1>8, <1>9, <1>10, AdStep DEF count

-----------------------------------------------------------------------------
(* Restarts.                                                               *)

LEMMA RecountedIs ==
    ASSUME NEW ca \in CampaignType, NEW co \in [1..MaxUploads -> CostType]
    PROVE  /\ Recounted(ca, co) \in CampaignType
           /\ Recounted(ca, co).known = ca.known /\ Recounted(ca, co).confirmed = ca.confirmed
           /\ Recounted(ca, co).unit = ca.unit
           /\ Recounted(ca, co).used = Cardinality(RowsOf(co))
<1> DEFINE count == Cardinality(RowsOf(co))
<1>1. count \in Nat
  <2>1. RowsOf(co) \subseteq 1..MaxUploads
    BY DEF RowsOf
  <2>2. IsFiniteSet(RowsOf(co))
    BY <2>1, FS_Interval, FS_Subset, ItemAssumption
  <2> QED
    BY <2>2, FS_CardinalityType
<1>2. Recounted(ca, co) = [ca EXCEPT !.used = count]
  BY DEF Recounted
<1> HIDE DEF count
<1>3. /\ Recounted(ca, co) \in CampaignType
      /\ Recounted(ca, co).known = ca.known /\ Recounted(ca, co).confirmed = ca.confirmed
      /\ Recounted(ca, co).unit = ca.unit /\ Recounted(ca, co).used = count
  BY <1>1, <1>2 DEF CampaignType
<1> QED
  BY <1>3 DEF count

\* What is read from the last row does not survive the recalculation.
LEMMA NormalizedIs ==
    ASSUME NEW un, NEW ru, NEW ca \in CampaignType, NEW co, RowsOf(co) # {} => ca.known
    PROVE  AdRecalculated(un, ru, Normalized(ca, co)) = AdRecalculated(un, ru, Recounted(ca, co))
<1> DEFINE x == co[Last(RowsOf(co))].unit
           u == AdTarget(un, ru)
           count == Cardinality(RowsOf(co))
<1>1. CASE ~ca.confirmed /\ RowsOf(co) # {}
  <2>1. Normalized(ca, co) = [[ca EXCEPT !.unit = x] EXCEPT !.used = count]
    BY <1>1 DEF Normalized, Recounted
  <2>2. Recounted(ca, co) = [ca EXCEPT !.used = count]
    BY DEF Recounted
  <2> DEFINE a == [[ca EXCEPT !.unit = x] EXCEPT !.used = count]
             b == [ca EXCEPT !.used = count]
  <2> HIDE DEF x, u, count
  <2>3. a.known /\ ~a.confirmed /\ b.known /\ ~b.confirmed
    BY <1>1 DEF CampaignType
  <2>4. [a EXCEPT !.unit = u] = [b EXCEPT !.unit = u]
    BY DEF CampaignType
  <2> HIDE DEF a, b
  <2> QED
    BY <2>1, <2>2, <2>3, <2>4 DEF AdRecalculated, a, b, u
<1>2. CASE ca.confirmed \/ RowsOf(co) = {}
  BY <1>2 DEF Normalized
<1> QED
  BY <1>1, <1>2

LEMMA RestartStep == ASSUME IInv, Restart PROVE IInv' /\ Stays
<1>1. /\ pending' = <<>> /\ creating' = {}
      /\ sig' = Everything(unit, sig, item).sig /\ item' = Everything(unit, sig, item).item
      /\ owed' = FALSE /\ rule' \in Seeded
      /\ campaign' = AdRecalculated(unit, rule', Normalized(campaign, cost))
      /\ used' = Usage(item)
      /\ unit' = unit /\ cost' = cost
  BY DEF Restart
<1>2. /\ campaign \in CampaignType /\ cost \in [1..MaxUploads -> CostType] /\ rule \in Seq(RuleType)
      /\ Units(unit) /\ Mapped(unit, sig, item)
      /\ ~campaign.known => campaign.unit = None /\ ~campaign.confirmed /\ Uploads("active") = {}
  BY DEF IInv, AdInv, UnitInv, MappingInv
<1>3. /\ Mapped(unit, sig', item') /\ Linking(unit, item', Item) /\ Follows(sig', sig)
      /\ \A i \in Item : item'[i].sig = item[i].sig
      /\ Placed(unit, sig', item')
  BY <1>1, <1>2, EverythingIs
<1>4. UnitInv' /\ MappingInv' /\ PlaceInv'
  BY <1>1, <1>2, <1>3 DEF UnitInv, MappingInv, PlaceInv
<1>5. used' = Usage(item')
  <2>1. Usage(item') = Usage(item)
    BY <1>3, UsageReads
  <2> QED
    BY <1>1, <2>1
<1>6. rule' \in Seq(RuleType)
  <2>1. CASE rule' = rule
    BY <1>2, <2>1
  <2>2. CASE rule' # rule
    <3>1. PICK u \in Unit : rule' = Append(rule, [unit |-> u, state |-> "on"])
      BY <1>1, <2>2 DEF Seeded
    <3>2. [unit |-> u, state |-> "on"] \in RuleType
      BY DEF RuleType
    <3> QED
      BY <1>2, <3>1, <3>2, AppendIs
  <2> QED
    BY <2>1, <2>2
<1> DEFINE ca == Recounted(campaign, cost)
<1>7. /\ ca \in CampaignType
      /\ ca.known = campaign.known /\ ca.confirmed = campaign.confirmed
      /\ ca.unit = campaign.unit /\ ca.used = Cardinality(RowsOf(cost))
  BY <1>2, RecountedIs
<1>8. RowsOf(cost) = Uploads("active")
  BY <1>2 DEF RowsOf, Uploads
<1>9. campaign' = AdRecalculated(unit, rule', ca)
  BY <1>1, <1>2, <1>8, NormalizedIs
<1> HIDE DEF ca
<1>10. ~ca.known => ca.unit = None /\ ~ca.confirmed
  BY <1>2, <1>7
<1>11. /\ campaign' \in CampaignType
       /\ campaign'.known = ca.known /\ campaign'.confirmed = ca.confirmed
       /\ campaign'.used = ca.used
       /\ ca.confirmed \/ ~ca.known => campaign'.unit = ca.unit
       /\ ~campaign'.confirmed /\ campaign'.unit # None => unit[campaign'.unit].parent = None
  BY <1>2, <1>6, <1>7, <1>9, <1>10, AdRecalculatedIs
<1>12. AdInv' /\ CountInv'
  <2>1. Uploads("active")' = Uploads("active") /\ RowsOf(cost') = RowsOf(cost)
    BY <1>1 DEF Uploads, RowsOf
  <2>2. AdsBelongToParents'
    BY <1>1, <1>11 DEF AdsBelongToParents
  <2> QED
    BY <1>1, <1>2, <1>5, <1>6, <1>7, <1>11, <2>1, <2>2 DEF AdInv, CountInv
<1>13. RequestInv'
  BY <1>1, <1>7, <1>11, RequestsGoOn DEF IInv, Grows
<1>14. ConfirmedAd
  BY <1>7, <1>11 DEF ConfirmedAd
<1>15. \A s \in Sig : ConfirmedSig(s)
  BY <1>3, FollowsStays
<1> QED
  BY <1>4, <1>12, <1>13, <1>14, <1>15 DEF IInv, Stays

-----------------------------------------------------------------------------
(* The theorems.                                                           *)

\* Commands are counted.
LEMMA CommandsAreCounted ==
    ASSUME commands \in Nat, [Next]_vars
    PROVE  commands' \in Nat
<1>1. Create => commands' = commands + 1
  BY DEF Create, Now
<1>2. Deactivate => commands' = commands + 1
  BY DEF Deactivate, Now
<1>3. Activate => commands' = commands + 1
  BY DEF Activate, Now
<1>4. Dissolve => commands' = commands + 1
  BY DEF Dissolve, Now
<1>5. SwitchRule => commands' = commands + 1
  BY DEF SwitchRule, Now
<1>6. UnmapAd => commands' = commands + 1
  BY DEF UnmapAd, Now
<1>7. DeleteUpload => commands' = commands + 1
  BY DEF DeleteUpload, Now
<1>8. AskUpdate => commands' = commands + 1
  BY DEF AskUpdate, Ask
<1>9. AskGroup => commands' = commands + 1
  BY DEF AskGroup, Ask
<1>10. AskAttach => commands' = commands + 1
  BY DEF AskAttach, Ask
<1>11. AskDetach => commands' = commands + 1
  BY DEF AskDetach, Ask
<1>12. AskMap => commands' = commands + 1
  BY DEF AskMap, Ask
<1>13. AskRule => commands' = commands + 1
  BY DEF AskRule, Ask
<1>14. AskUpdateRule => commands' = commands + 1
  BY DEF AskUpdateRule, Ask
<1>15. AskMapAd => commands' = commands + 1
  BY DEF AskMapAd, Ask
<1>16. AskUpload => commands' = commands + 1
  BY DEF AskUpload, Ask
<1>17. CASE CreateFor \/ SeedClears
  BY <1>17 DEF CreateFor, SeedClears
<1>18. CASE Update \/ Refused \/ CreateGroup \/ Attach \/ Detach \/ Map
  BY <1>18 DEF Update, Refused, CreateGroup, Attach, Detach, Map, Join
<1>19. CASE MapCreated \/ SaveItem \/ RecalculateOrders \/ SeedCreates
  BY <1>19 DEF MapCreated, SaveItem, RecalculateOrders, SeedCreates
<1>20. CASE CreateRule \/ UpdateRule \/ RecalculateAds \/ MapAd \/ Upload \/ Restart
  BY <1>20 DEF CreateRule, UpdateRule, RecalculateAds, MapAd, Upload, Restart
<1>21. CASE UNCHANGED vars
  BY <1>21 DEF vars
<1> QED
  BY <1>1, <1>2, <1>3, <1>4, <1>5, <1>6, <1>7, <1>8, <1>9, <1>10, <1>11, <1>12,
     <1>13, <1>14, <1>15, <1>16, <1>17, <1>18, <1>19, <1>20, <1>21 DEF Next

LEMMA InitInv == ASSUME Init PROVE IInv /\ commands \in Nat
<1>1. commands \in Nat
  BY DEF Init
<1>2. UnitInv
  <2>1. NewUnit(UNION Names, {}) \in UnitType /\ NewUnit(UNION Names, {}).parent = None
    BY NewUnitType, ListAssumption
  <2>2. NoUnit \in UnitType /\ NoUnit.parent = None
    BY DEF NoUnit, UnitType
  <2> QED
    BY <2>1, <2>2 DEF Init, UnitInv, Units, Unit
<1>3. RequestInv
  BY DEF Init, RequestInv, Requests
<1>4. MappingInv
  BY DEF Init, MappingInv, Mapped, Linking, SigType, ItemType, Unit
<1>5. RowsOf(cost) = {} /\ Uploads("active") = {}
  BY DEF Init, RowsOf, Uploads
<1>6. AdInv
  BY <1>5 DEF Init, AdInv, CampaignType, CostType, AdsBelongToParents
<1>7. CountInv
  <2>1. \A s \in Sig : {i \in Item : item[i].sig = s} = {}
    BY DEF Init
  <2>2. Usage(item) = [s \in Sig |-> 0]
    BY <2>1, FS_EmptySet DEF Usage
  <2> QED
    BY <1>5, <2>2, FS_EmptySet DEF Init, CountInv
<1>8. PlaceInv
  BY DEF Init, PlaceInv, Placed
<1> QED
  BY <1>1, <1>2, <1>3, <1>4, <1>6, <1>7, <1>8 DEF IInv

LEMMA NextStep == ASSUME IInv, commands \in Nat, [Next]_vars PROVE IInv' /\ Stays
<1>1. CASE Create \/ AskUpdate \/ Update \/ Refused \/ Deactivate \/ Activate
  BY <1>1, CreateStep, AskUpdateStep, UpdateStep, RefusedStep, DeactivateStep, ActivateStep
<1>2. CASE AskGroup \/ CreateGroup \/ AskAttach \/ Attach \/ AskDetach \/ Detach \/ Dissolve
  BY <1>2, AskGroupStep, CreateGroupStep, AskAttachStep, AttachStep, AskDetachStep, DetachStep,
     DissolveStep
<1>3. CASE AskMap \/ Map \/ CreateFor \/ MapCreated \/ SaveItem \/ RecalculateOrders
  BY <1>3, AskMapStep, MapStep, CreateForStep, MapCreatedStep, SaveItemStep, RecalculateOrdersStep
<1>4. CASE SeedClears \/ SeedCreates
  BY <1>4, SeedClearsStep, SeedCreatesStep
<1>5. CASE AskRule \/ CreateRule \/ AskUpdateRule \/ UpdateRule \/ SwitchRule
  BY <1>5, AskRuleStep, CreateRuleStep, AskUpdateRuleStep, UpdateRuleStep, SwitchRuleStep
<1>6. CASE RecalculateAds \/ AskMapAd \/ MapAd \/ UnmapAd \/ AskUpload \/ Upload \/ DeleteUpload
  BY <1>6, RecalculateAdsStep, AskMapAdStep, MapAdStep, UnmapAdStep, AskUploadStep, UploadStep,
     DeleteUploadStep
<1>7. CASE Restart
  BY <1>7, RestartStep
<1>8. CASE UNCHANGED vars
  <2>1. /\ UNCHANGED <<unit, orders, ads>> /\ unit' = unit /\ campaign' = campaign
        /\ pending' = pending /\ creating' = creating
    BY <1>8 DEF vars, orders, ads
  <2>2. RequestInv'
    BY <2>1, RequestsGoOn DEF IInv, Grows
  <2> QED
    BY <2>1, <2>2, RequestStep
<1> QED
  BY <1>1, <1>2, <1>3, <1>4, <1>5, <1>6, <1>7, <1>8 DEF Next

\* The invariant holds in every state.
THEOREM Invariance == Spec => [](IInv /\ commands \in Nat)
<1>1. Init => IInv /\ commands \in Nat
  BY InitInv
<1>2. IInv /\ commands \in Nat /\ [Next]_vars => (IInv /\ commands \in Nat)'
  BY NextStep, CommandsAreCounted
<1> QED
  BY <1>1, <1>2, PTL DEF Spec

\* Units, signatures, items, rules and ads keep their shape, and groups are
\* nobody's children: what a request checked before its turn holds in it.
THEOREM TypeCorrect == Spec => []TypeOK
<1>1. IInv => TypeOK
  <2> SUFFICES ASSUME IInv PROVE TypeOK
    OBVIOUS
  <2>1. ASSUME NEW u \in Unit
        PROVE  /\ unit[u].state \in {"none", "active", "off", "gone"}
               /\ unit[u].parent # None => unit[u].parent \in Group /\ u \notin Group
               /\ unit[u].names \subseteq Sig \cup {Campaign} /\ unit[u].links \subseteq Item
    BY DEF IInv, UnitInv, Units, UnitType
  <2>2. \A s \in Sig : sig[s].unit \in Unit \cup {None} /\ sig[s].confirmed \in BOOLEAN
    BY DEF IInv, MappingInv, Mapped, SigType
  <2>3. \A i \in Item : item[i].sig \in Sig \cup {None} /\ item[i].unit \in Unit \cup {None}
    BY DEF IInv, MappingInv, Mapped, ItemType
  <2>4. rule \in Seq(RuleType) /\ campaign \in CampaignType /\ cost \in [1..MaxUploads -> CostType]
    BY DEF IInv, AdInv
  <2>5. \A r \in DOMAIN rule : rule[r].unit \in Unit /\ rule[r].state \in {"on", "off"}
    <3> SUFFICES ASSUME NEW r \in DOMAIN rule
                 PROVE  rule[r].unit \in Unit /\ rule[r].state \in {"on", "off"}
      OBVIOUS
    <3>1. rule[r] \in RuleType
      BY <2>4
    <3> QED
      BY <3>1 DEF RuleType
  <2>6. campaign.unit \in Unit \cup {None} /\ \A n \in 1..MaxUploads : cost[n].unit \in Unit \cup {None}
    BY <2>4 DEF CampaignType, CostType
  <2>7. owed \in BOOLEAN
    BY DEF IInv, PlaceInv
  <2> QED
    BY <2>1, <2>2, <2>3, <2>5, <2>6, <2>7 DEF TypeOK
<1> QED
  BY <1>1, Invariance, PTL

\* What synchronisations, mappings and commits recalculate is what a
\* recalculation of the whole store would change: sales-unit-auto-mapper.ts.
THEOREM NothingIsLeftBehind == Spec => []AsRecalculated
<1>1. IInv => AsRecalculated
  <2> SUFFICES ASSUME IInv PROVE AsRecalculated
    OBVIOUS
  <2>1. item \in [Item -> ItemType]
    BY DEF IInv, MappingInv, Mapped
  <2>2. item = Everything(unit, sig, item).item <=> Placed(unit, sig, item)
    BY <2>1, PlacedIs
  <2> QED
    BY <2>2 DEF IInv, CountInv, PlaceInv, AsRecalculated
<1> QED
  BY <1>1, Invariance, PTL

\* evaluateAdMapping and every join send ads on to the group.
THEOREM AdsGoToGroups == Spec => []AdsBelongToParents
<1>1. IInv => AdsBelongToParents
  BY DEF IInv, AdInv
<1> QED
  BY <1>1, Invariance, PTL

\* Each mapped item is shown in one row: its own if its unit is nobody's child,
\* else the row of the group, which no item of the group itself hides.
LEMMA ItemShownOnce ==
    ASSUME IInv, NEW i \in Item, item[i].unit # None, ~SeededGroup(item[i].unit)
    PROVE  \E k \in RowKeys : ShownIn(i) = {k}
<1> DEFINE u == item[i].unit
           p == unit[u].parent
<1>1. item \in [Item -> ItemType] /\ unit \in [Unit -> UnitType]
  BY DEF IInv, MappingInv, Mapped, UnitInv, Units
<1>2. u \in Unit /\ p \in Group \cup {None}
  BY <1>1 DEF ItemType, UnitType
<1>3. ASSUME NEW j \in Item, item[j].unit \in Group PROVE unit[item[j].unit].links # {}
  BY <1>3 DEF IInv, MappingInv, Linking
<1>4. u \notin Group
  BY <1>3 DEF SeededGroup
<1>5. i \notin Counted
  BY ItemAssumption DEF Counted, Uploads
<1>6. ASSUME NEW k \in RowKeys
      PROVE  /\ i \in ChildRow(k) <=> k.unit = u /\ k.day = PaidOn[i]
             /\ i \in GroupRow(k) <=> k.unit = p /\ k.day = PaidOn[i]
  BY <1>5 DEF ChildRow, GroupRow, ItemsOf
<1>7. None \notin Unit /\ Group \subseteq Unit
  BY DEF Unit
<1>8. CASE p = None
  <2> DEFINE k0 == [day |-> PaidOn[i], unit |-> u]
  <2>1. k0 \in RowKeys
    BY <1>2 DEF RowKeys
  <2>2. \A k \in RowKeys : k = k0 <=> k.unit = u /\ k.day = PaidOn[i]
    BY DEF RowKeys
  <2>3. \A k \in RowKeys : i \notin GroupRow(k)
    BY <1>6, <1>7, <1>8 DEF RowKeys
  <2>4. \A k \in RowKeys : i \in ShownRow(k) <=> k = k0
    <3> SUFFICES ASSUME NEW k \in RowKeys PROVE i \in ShownRow(k) <=> k = k0
      OBVIOUS
    <3>1. CASE k = k0
      <4>1. k.unit = u /\ i \in ChildRow(k)
        BY <1>6, <2>2, <3>1
      <4> QED
        BY <1>8, <3>1, <4>1 DEF ShownRow
    <3>2. CASE k # k0
      <4>1. i \notin ChildRow(k)
        BY <1>6, <2>2, <3>2
      <4> QED
        BY <2>3, <3>2, <4>1 DEF ShownRow
    <3> QED
      BY <3>1, <3>2
  <2>5. ShownIn(i) = {k0}
    BY <2>1, <2>4 DEF ShownIn
  <2> QED
    BY <2>1, <2>5
<1>9. CASE p # None
  <2> DEFINE k0 == [day |-> PaidOn[i], unit |-> p]
  <2>1. k0 \in RowKeys
    BY <1>2, <1>7, <1>9 DEF RowKeys
  <2>2. \A k \in RowKeys : k = k0 <=> k.unit = p /\ k.day = PaidOn[i]
    BY DEF RowKeys
  <2>3. ChildRow(k0) = {}
    <3>1. \A j \in Item : item[j].unit # p
      BY <1>2, <1>3, <1>9 DEF SeededGroup
    <3> QED
      BY <1>2, <1>9, <3>1 DEF ChildRow, ItemsOf
  <2>4. \A k \in RowKeys : i \in ShownRow(k) <=> k = k0
    <3> SUFFICES ASSUME NEW k \in RowKeys PROVE i \in ShownRow(k) <=> k = k0
      OBVIOUS
    <3>1. CASE k = k0
      <4>1. i \in GroupRow(k)
        BY <1>6, <2>2, <3>1
      <4> QED
        BY <2>3, <3>1, <4>1 DEF ShownRow
    <3>2. CASE k # k0
      <4>1. i \notin GroupRow(k)
        BY <1>6, <2>2, <3>2
      <4>2. k.unit = u => unit[k.unit].parent # None
        BY <1>9
      <4> QED
        BY <1>6, <3>2, <4>1, <4>2 DEF ShownRow
    <3> QED
      BY <3>1, <3>2
  <2>5. ShownIn(i) = {k0}
    BY <2>1, <2>4 DEF ShownIn
  <2> QED
    BY <2>1, <2>5
<1> QED
  BY <1>8, <1>9

LEMMA CostShownOnce ==
    ASSUME IInv, NEW n \in Counted, ~SeededGroup(cost[n].unit)
    PROVE  \E k \in RowKeys : ShownIn(n) = {k}
<1> DEFINE v == cost[n].unit
           w == Promoted(unit, v)
           k0 == [day |-> Today, unit |-> w]
<1>1. /\ unit \in [Unit -> UnitType]
      /\ cost \in [1..MaxUploads -> CostType]
      /\ \A g \in Group : unit[g].parent = None
  BY DEF IInv, UnitInv, Units, AdInv
<1>2. n \in 1..MaxUploads /\ n \notin Item /\ v # None
  BY ItemAssumption DEF Counted, Uploads
<1>3. v \in Unit /\ unit[v].parent \in Group \cup {None}
  BY <1>1, <1>2 DEF CostType, UnitType
<1>4. w \in Unit /\ w \in {v, unit[v].parent} /\ unit[w].parent = None
  BY <1>1, <1>2, <1>3 DEF Promoted, Unit
<1>5. k0 \in RowKeys
  BY <1>4 DEF RowKeys
<1>6. AdKey(n) = k0
  BY DEF AdKey
<1>7. \A k \in RowKeys :
        /\ n \in ChildRow(k) <=> k = k0 /\ k.unit \notin Group
        /\ n \in GroupRow(k) <=> k = k0 /\ k.unit \in Group
  BY <1>2, <1>6 DEF ChildRow, GroupRow, ItemsOf
<1>8. w \in Group => ChildRow(k0) = {}
  <2>1. ASSUME w \in Group, NEW i \in Item, item[i].unit = w PROVE FALSE
    <3>1. unit[w].links # {}
      BY <2>1 DEF IInv, MappingInv, Linking
    <3> QED
      BY <1>4, <2>1, <3>1 DEF SeededGroup
  <2> QED
    BY <2>1 DEF ChildRow, ItemsOf
<1>9. k0.unit = w
  OBVIOUS
<1> HIDE DEF k0, w
<1>10. n \in ShownRow(k0)
  <2>1. CASE w \in Group
    BY <1>5, <1>7, <1>8, <1>9, <2>1 DEF ShownRow
  <2>2. CASE w \notin Group
    <3>1. n \in ChildRow(k0)
      BY <1>5, <1>7, <1>9, <2>2
    <3> QED
      BY <1>4, <1>9, <3>1 DEF ShownRow
  <2> QED
    BY <2>1, <2>2
<1>11. \A k \in RowKeys : n \in ShownRow(k) => k = k0
  BY <1>7 DEF ShownRow
<1>12. ShownIn(n) = {k0}
  BY <1>5, <1>10, <1>11 DEF ShownIn
<1> QED
  BY <1>5, <1>12

\* The rows of children and groups neither drop nor repeat an item or a cost:
\* DailyProfitService's rows.
THEOREM ShownOnce == Spec => []CountedOnce
<1>1. IInv => CountedOnce
  <2> SUFFICES ASSUME IInv, NEW x \in Item \cup Counted,
                      UnitOf(x) # None, ~SeededGroup(UnitOf(x))
               PROVE  Cardinality(ShownIn(x)) = 1
    BY DEF CountedOnce
  <2>1. \E k \in RowKeys : ShownIn(x) = {k}
    <3>1. CASE x \in Item
      BY <3>1, ItemShownOnce DEF UnitOf
    <3>2. CASE x \notin Item
      BY <3>2, CostShownOnce DEF UnitOf
    <3> QED
      BY <3>1, <3>2
  <2> QED
    BY <2>1, FS_Singleton
<1> QED
  BY <1>1, Invariance, PTL

\* No recalculation, upload, seed or restart undoes what a user decided.
THEOREM DecisionsStay == Spec => ConfirmedStays
<1>1. IInv /\ commands \in Nat /\ [Next]_vars =>
        [/\ \A s \in Sig : sig[s].confirmed =>
              /\ sig'[s].confirmed
              /\ \/ sig'[s].unit = sig[s].unit
                 \/ sig'[s].unit = None /\ unit'[sig[s].unit].state = "off"
                 \/ Turn("map") /\ Asked.sig = s /\ sig'[s].unit = Asked.unit
         /\ campaign.confirmed =>
              /\ campaign'.confirmed
              /\ \/ campaign'.unit = campaign.unit
                 \/ Turn("mapAd") /\ campaign'.unit = Asked.unit
                 \/ campaign'.unit = None /\ commands' # commands]_vars
  BY NextStep DEF Stays, ConfirmedSig, ConfirmedAd
<1> QED
  BY <1>1, Invariance, PTL DEF Spec, ConfirmedStays
=============================================================================
