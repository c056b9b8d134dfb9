----------------------------- MODULE PlanProofs -----------------------------
(***************************************************************************)
(* The lemmas the proofs about planners and executor rest on: induction in *)
(* the form the provers can use, what name resolution guarantees for every *)
(* hierarchy, what the executor does to a configuration, what a teardown   *)
(* plan does to references once applied, what the cascade of emptied       *)
(* groups collects, and sequences without duplicates.                      *)
(***************************************************************************)
EXTENDS TeardownPlans, RenamePlans, PromotePlans, SequenceTheorems, FiniteSetTheorems, TLAPS

-----------------------------------------------------------------------------
(* Induction over the numbers as facts about sets of numbers.              *)

(* Every non-empty set of numbers has a least one.                         *)
LEMMA LeastNumber ==
    ASSUME NEW S \in SUBSET Nat, S # {}
    PROVE  \E n \in S : \A m \in S : n <= m
<1> DEFINE Less == {s \in Nat \X Nat : s[1] < s[2]}
<1>1. IsWellFoundedOn(Less, Nat)
  BY NatLessThanWellFounded DEF OpToRel
<1>2. \A n, m \in Nat : <<m, n>> \notin Less => n <= m
  OBVIOUS
<1> HIDE DEF Less
<1>3. PICK n \in S : \A m \in S : ~(<<m, n>> \in Less)
  BY <1>1, WFMin
<1> QED
  BY <1>2, <1>3

(* A set with zero and the successors of its members holds every number.   *)
LEMMA Induction ==
    ASSUME NEW S \in SUBSET Nat, 0 \in S, \A n \in S : n + 1 \in S
    PROVE  S = Nat
<1> SUFFICES ASSUME Nat \ S # {} PROVE FALSE
  OBVIOUS
<1>1. PICK n \in Nat \ S : \A m \in Nat \ S : n <= m
  BY LeastNumber
<1> QED
  BY <1>1

(* The minimum of a non-empty set of numbers is one of them, the smallest. *)
LEMMA MinProperties ==
    ASSUME NEW S \in SUBSET Nat, S # {}
    PROVE  Min(S) \in S /\ \A k \in S : Min(S) <= k
<1>1. PICK n \in S : \A m \in S : n <= m
  BY LeastNumber
<1> QED
  BY <1>1 DEF Min

-----------------------------------------------------------------------------
(* Name resolution.                                                        *)

(* A name resolves exactly when some location of the chain defines it, and *)
(* then to one of those definitions.                                       *)
LEMMA ResolveProperties ==
    ASSUME NEW live, NEW space \in Spaces, NEW name \in Names, NEW loc \in Locs
    PROVE  /\ Resolve(live, space, name, loc) = Nil
                <=> \A i \in DOMAIN Chain[loc] : Slot(space, name, Chain[loc][i]) \notin live
           /\ Resolve(live, space, name, loc) # Nil
                => /\ Resolve(live, space, name, loc) \in live
                   /\ Resolve(live, space, name, loc) \in Ids
                   /\ Resolve(live, space, name, loc).space = space
                   /\ Resolve(live, space, name, loc).name = name
<1> DEFINE hits == {i \in DOMAIN Chain[loc] : Slot(space, name, Chain[loc][i]) \in live}
           id(i) == Slot(space, name, Chain[loc][i])
<1>1. Chain[loc] \in Seq(Locs)
  BY ChainAssumption
<1>2. \A i \in DOMAIN Chain[loc] : Chain[loc][i] \in Locs /\ i \in Nat
  BY <1>1
<1>3. \A i \in DOMAIN Chain[loc] : id(i) \in Ids /\ id(i) # Nil
  BY <1>2, NamesAssumption DEF Ids, Slot
<1>4. hits # {} => Min(hits) \in hits
  BY <1>2, MinProperties
<1>5. CASE hits = {}
  BY <1>5 DEF Resolve
<1>6. CASE hits # {}
  <2>1. Resolve(live, space, name, loc) = id(Min(hits))
    BY <1>6 DEF Resolve
  <2>2. id(Min(hits)) \in live /\ id(Min(hits)) \in Ids /\ id(Min(hits)) # Nil
    BY <1>3, <1>4, <1>6
  <2>3. id(Min(hits)).space = space /\ id(Min(hits)).name = name
    BY DEF Slot
  <2>4. ~\A i \in DOMAIN Chain[loc] : Slot(space, name, Chain[loc][i]) \notin live
    BY <1>6
  <2> HIDE DEF hits, id
  <2> QED
    BY <2>1, <2>2, <2>3, <2>4
<1> QED
  BY <1>5, <1>6

(* Removing more never makes a name resolve.                               *)
LEMMA ResolveMonotone ==
    ASSUME NEW live, NEW more, live \subseteq more,
           NEW space \in Spaces, NEW name \in Names, NEW loc \in Locs,
           Resolve(more, space, name, loc) = Nil
    PROVE  Resolve(live, space, name, loc) = Nil
BY ResolveProperties

(* A definition that is not removed keeps its name resolving.              *)
LEMMA ResolveSurvivor ==
    ASSUME NEW live, NEW gone, NEW space \in Spaces, NEW name \in Names, NEW loc \in Locs,
           Resolve(live, space, name, loc) # Nil,
           Resolve(live, space, name, loc) \notin gone
    PROVE  /\ Resolve(live \ gone, space, name, loc) # Nil
           /\ Resolve(live \ gone, space, name, loc) = Resolve(live, space, name, loc)
<1> DEFINE hits(s) == {i \in DOMAIN Chain[loc] : Slot(space, name, Chain[loc][i]) \in s}
           id(i) == Slot(space, name, Chain[loc][i])
<1>1. \A s : hits(s) \in SUBSET Nat
  BY ChainAssumption
<1>2. hits(live) # {}
  BY DEF Resolve
<1>3. Resolve(live, space, name, loc) = id(Min(hits(live)))
  BY <1>2 DEF Resolve
<1>4. Min(hits(live)) \in hits(live) /\ \A k \in hits(live) : Min(hits(live)) <= k
  BY <1>1, <1>2, MinProperties
<1>5. Min(hits(live)) \in hits(live \ gone)
  BY <1>3, <1>4
<1>6. hits(live \ gone) \subseteq hits(live)
  OBVIOUS
<1>7. Min(hits(live \ gone)) \in hits(live \ gone)
      /\ \A k \in hits(live \ gone) : Min(hits(live \ gone)) <= k
  BY <1>1, <1>5, MinProperties
<1>8. Min(hits(live \ gone)) = Min(hits(live))
  <2> HIDE DEF hits
  <2> QED
    BY <1>1, <1>4, <1>5, <1>6, <1>7
<1>9. Resolve(live \ gone, space, name, loc) = id(Min(hits(live \ gone)))
  BY <1>5 DEF Resolve
<1>10. Resolve(live, space, name, loc) # Nil
  OBVIOUS
<1> QED
  BY <1>3, <1>8, <1>9, <1>10

(* The namespace of a field, and who carries a reference in it.            *)
LEMMA NsOfFacts ==
    \A f : /\ NsOf(f) \in ObjectSpaces
           /\ f \in {"static", "source", "destination", "translation", "nexthop"}
                => NsOf(f) = "address"
           /\ f \in {"members", "service"} => NsOf(f) = "service"
           /\ f = "tag" => NsOf(f) = "tag"
BY Zenon DEF NsOf, ObjectSpaces

LEMMA WalkedFacts ==
    \A k : /\ k = "address-group" => Walked(k) = {"static", "tag"}
           /\ k = "service-group" => Walked(k) = {"members"}
           /\ k \in {"address", "dynamic-group", "service"} => Walked(k) = {"tag"}
           /\ k = "tag" => Walked(k) = {}
           /\ k = "security-rule" => Walked(k) = {"source", "destination", "service", "tag"}
           /\ k = "nat-rule" => Walked(k) = {"source", "destination", "translation", "service", "tag"}
           /\ k = "policy-rule" => Walked(k) = {"source", "destination", "service", "tag", "nexthop"}
BY Zenon DEF Walked

LEMMA SpaceOfFacts ==
    \A k : /\ k \in {"address", "address-group", "dynamic-group"} => SpaceOf(k) = "address"
           /\ k \in {"service", "service-group"} => SpaceOf(k) = "service"
           /\ k \in RuleSpaces \cup {"tag"} => SpaceOf(k) = k
BY Zenon DEF SpaceOf, RuleSpaces

(* What it takes to be a reference of a configuration.                     *)
LEMMA RefsMembership ==
    ASSUME NEW cfg
    PROVE  Refs(cfg) = {r \in [by : DOMAIN cfg, field : Fields, name : Names] :
                           /\ r.field \in Walked(cfg[r.by].kind)
                           /\ r.name \in cfg[r.by].fields[r.field]}
<1>1. \A kind : Walked(kind) \subseteq Fields
  BY Zenon DEF Walked, Fields
<1>. QED
  BY <1>1 DEF Refs, RefsIn

(* The references of a well-formed configuration are resolved in an object *)
(* namespace, from a location of the hierarchy.                            *)
LEMMA RefsType ==
    ASSUME NEW cfg, IsConfig(cfg), NEW r \in Refs(cfg)
    PROVE  /\ r = [by |-> r.by, field |-> r.field, name |-> r.name]
           /\ r.by \in DOMAIN cfg /\ r.by \in Ids /\ r.by.loc \in Locs
           /\ r.field \in Fields /\ r.name \in Names
           /\ r.field \in Walked(cfg[r.by].kind)
           /\ r.name \in cfg[r.by].fields[r.field]
           /\ NsOf(r.field) \in ObjectSpaces /\ NsOf(r.field) \in Spaces
BY NsOfFacts, RefsMembership DEF IsConfig, Ids, ObjectSpaces, Spaces

(* A reference that a removal breaks names something that is removed.      *)
LEMMA BreaksTarget ==
    ASSUME NEW cfg, IsConfig(cfg), NEW gone, NEW r \in Refs(cfg), Breaks(cfg, r, gone)
    PROVE  /\ Target(DOMAIN cfg, r) \in gone
           /\ Target(DOMAIN cfg, r) \in DOMAIN cfg
           /\ Target(DOMAIN cfg, r).space = NsOf(r.field)
<1>1. /\ r.by.loc \in Locs /\ r.name \in Names /\ NsOf(r.field) \in Spaces
  BY RefsType
<1> QED
  BY <1>1, ResolveProperties, ResolveSurvivor DEF Breaks, Target

(* What a smaller removal breaks, a larger one breaks.                     *)
LEMMA BreaksMonotone ==
    ASSUME NEW cfg, NEW some, NEW more, some \subseteq more,
           NEW r, r.by.loc \in Locs, r.name \in Names, NsOf(r.field) \in Spaces,
           Breaks(cfg, r, some)
    PROVE  Breaks(cfg, r, more)
<1>1. DOMAIN cfg \ more \subseteq DOMAIN cfg \ some
  OBVIOUS
<1> QED
  BY <1>1, ResolveMonotone DEF Breaks, Target

-----------------------------------------------------------------------------
(* A well-formed configuration is determined by its entries.               *)
LEMMA ConfigEntry ==
    ASSUME NEW cfg, IsConfig(cfg), NEW i \in DOMAIN cfg
    PROVE  /\ cfg[i] \in Entry /\ i \in Ids
           /\ cfg[i].kind \in Kinds /\ SpaceOf(cfg[i].kind) = i.space
           /\ cfg[i].fields \in [Fields -> SUBSET Members]
BY DEF IsConfig, Entry

(* No upsert: the first step of the executor changes nothing.              *)
LEMMA UpsertedNone ==
    ASSUME NEW cfg, IsConfig(cfg), NEW upserts, DOMAIN upserts = {}
    PROVE  Upserted(cfg, upserts) = cfg
<1>1. Upserted(cfg, upserts) = [i \in DOMAIN cfg |-> cfg[i]]
  BY DEF Upserted
<1> QED
  BY <1>1 DEF IsConfig

(* No rename: every entry keeps its identity.                              *)
LEMMA RenamedNone ==
    ASSUME NEW cfg, cfg = [i \in DOMAIN cfg |-> cfg[i]], NEW renames, DOMAIN renames = {}
    PROVE  Renamed(cfg, renames) = cfg
<1>1. \A i : Moved(renames, i) = i
  BY DEF Moved
<1>2. {Moved(renames, i) : i \in DOMAIN cfg} = DOMAIN cfg
  BY <1>1
<1>3. \A j \in DOMAIN cfg : (CHOOSE i \in DOMAIN cfg : Moved(renames, i) = j) = j
  BY <1>1
<1>4. Renamed(cfg, renames) = [j \in DOMAIN cfg |-> cfg[j]]
  BY <1>2, <1>3 DEF Renamed
<1> QED
  BY <1>4

(* The list an entry holds once the edits are written.                     *)
NewList(cfg, edits, i, f) ==
    IF Writers(cfg, edits, i, f) = {} THEN cfg[i].fields[f]
    ELSE edits[CHOOSE k \in Writers(cfg, edits, i, f) : TRUE]

(* The edits rewrite lists and leave kinds, values and identities alone.   *)
LEMMA EditedShape ==
    ASSUME NEW cfg, IsConfig(cfg), NEW edits,
           \A k \in DOMAIN edits : edits[k] \in SUBSET Members
    PROVE  /\ IsConfig(Edited(cfg, edits))
           /\ DOMAIN Edited(cfg, edits) = DOMAIN cfg
           /\ \A i \in DOMAIN cfg :
                /\ Edited(cfg, edits)[i].kind = cfg[i].kind
                /\ \A f \in Fields : Edited(cfg, edits)[i].fields[f] = NewList(cfg, edits, i, f)
<1> DEFINE new == Edited(cfg, edits)
           entry(i) == [cfg[i] EXCEPT !.fields = [f \in Fields |-> NewList(cfg, edits, i, f)]]
<1>1. new = [i \in DOMAIN cfg |-> entry(i)]
  BY DEF Edited, NewList
<1>2. ASSUME NEW i \in DOMAIN cfg
      PROVE  [f \in Fields |-> NewList(cfg, edits, i, f)] \in [Fields -> SUBSET Members]
  <2>1. ASSUME NEW f \in Fields
        PROVE  NewList(cfg, edits, i, f) \in SUBSET Members
    <3>1. CASE Writers(cfg, edits, i, f) = {}
      BY <3>1, ConfigEntry DEF NewList
    <3>2. CASE Writers(cfg, edits, i, f) # {}
      <4>1. (CHOOSE k \in Writers(cfg, edits, i, f) : TRUE) \in DOMAIN edits
        BY <3>2 DEF Writers
      <4> QED
        BY <3>2, <4>1 DEF NewList
    <3> QED
      BY <3>1, <3>2
  <2> QED
    BY <2>1
<1>3. ASSUME NEW i \in DOMAIN cfg
      PROVE  /\ entry(i) \in Entry
             /\ entry(i).kind = cfg[i].kind
             /\ entry(i).fields = [f \in Fields |-> NewList(cfg, edits, i, f)]
  <2>1. cfg[i] \in Entry
    BY ConfigEntry
  <2> QED
    BY <1>2, <2>1 DEF Entry
<1> HIDE DEF entry
<1>4. IsConfig(new)
  BY <1>1, <1>3, ConfigEntry, ZenonT(60) DEF IsConfig
<1>5. ASSUME NEW i \in DOMAIN cfg
      PROVE  /\ new[i].kind = cfg[i].kind
             /\ \A f \in Fields : new[i].fields[f] = NewList(cfg, edits, i, f)
  <2>1. new[i] = entry(i)
    BY <1>1
  <2>2. new[i].kind = cfg[i].kind /\ new[i].fields = [f \in Fields |-> NewList(cfg, edits, i, f)]
    BY <2>1, <1>3
  <2> QED
    BY <2>2
<1>6. DOMAIN new = DOMAIN cfg
  BY <1>1
<1> QED
  BY <1>4, <1>5, <1>6

(* Deleting entries leaves a well-formed configuration.                    *)
LEMMA WithoutShape ==
    ASSUME NEW cfg, IsConfig(cfg), NEW gone
    PROVE  /\ IsConfig(Without(cfg, gone))
           /\ DOMAIN Without(cfg, gone) = DOMAIN cfg \ gone
           /\ \A i \in DOMAIN cfg \ gone : Without(cfg, gone)[i] = cfg[i]
BY DEF Without, IsConfig

(* Reading back only ever adds the name that names no object.              *)
LEMMA ReadBackShape ==
    ASSUME NEW cfg, IsConfig(cfg)
    PROVE  /\ IsConfig(ReadBack(cfg))
           /\ DOMAIN ReadBack(cfg) = DOMAIN cfg
           /\ \A i \in DOMAIN cfg :
                /\ ReadBack(cfg)[i].kind = cfg[i].kind
                /\ \A f \in Fields :
                    ReadBack(cfg)[i].fields[f]
                        = IF f \in AnyFields(cfg[i].kind) /\ cfg[i].fields[f] = {}
                          THEN {AnyName} ELSE cfg[i].fields[f]
<1> DEFINE lists(i) == [f \in Fields |->
              IF f \in AnyFields(cfg[i].kind) /\ cfg[i].fields[f] = {}
              THEN {AnyName} ELSE cfg[i].fields[f]]
           entry(i) == [cfg[i] EXCEPT !.fields = lists(i)]
<1>1. ReadBack(cfg) = [i \in DOMAIN cfg |-> entry(i)]
  BY DEF ReadBack
<1>2. ASSUME NEW i \in DOMAIN cfg
      PROVE  lists(i) \in [Fields -> SUBSET Members]
  BY ConfigEntry, NamesAssumption DEF Members
<1>3. ASSUME NEW i \in DOMAIN cfg
      PROVE  /\ entry(i) \in Entry
             /\ entry(i).kind = cfg[i].kind
             /\ entry(i).fields = lists(i)
  <2>1. cfg[i] \in Entry
    BY ConfigEntry
  <2> HIDE DEF lists
  <2> QED
    BY <1>2, <2>1 DEF Entry
<1>4. ASSUME NEW i \in DOMAIN cfg, NEW f \in Fields
      PROVE  entry(i).fields[f] = IF f \in AnyFields(cfg[i].kind) /\ cfg[i].fields[f] = {}
                                  THEN {AnyName} ELSE cfg[i].fields[f]
  BY <1>3
<1> HIDE DEF entry, lists
<1>5. IsConfig(ReadBack(cfg))
  BY <1>1, <1>3, ConfigEntry DEF IsConfig
<1> QED
  BY <1>1, <1>3, <1>4, <1>5

(* A plan that only edits and deletes: what is left of the configuration,  *)
(* and the names its lists hold.                                           *)
LEMMA ApplyShape ==
    ASSUME NEW cfg, IsConfig(cfg), NEW plan,
           DOMAIN plan.upserts = {}, DOMAIN plan.renames = {},
           \A k \in DOMAIN plan.edits : plan.edits[k] \in SUBSET Members
    PROVE  /\ IsConfig(Apply(cfg, plan))
           /\ DOMAIN Apply(cfg, plan) = DOMAIN cfg \ (plan.ruleDeletes \cup plan.deletes)
           /\ \A i \in DOMAIN Apply(cfg, plan) :
                /\ Apply(cfg, plan)[i].kind = cfg[i].kind
                /\ \A f \in Fields :
                    Apply(cfg, plan)[i].fields[f] \cap Names
                        = NewList(cfg, plan.edits, i, f) \cap Names
<1> DEFINE edited  == Edited(cfg, plan.edits)
           trimmed == Without(edited, plan.ruleDeletes)
           left    == Without(trimmed, plan.deletes)
<1>1. Upserted(cfg, plan.upserts) = cfg
  BY UpsertedNone
<1>2. /\ IsConfig(edited) /\ DOMAIN edited = DOMAIN cfg
      /\ \A i \in DOMAIN cfg :
            /\ edited[i].kind = cfg[i].kind
            /\ \A f \in Fields : edited[i].fields[f] = NewList(cfg, plan.edits, i, f)
  BY EditedShape
<1> HIDE DEF edited
<1>3. /\ IsConfig(trimmed) /\ DOMAIN trimmed = DOMAIN cfg \ plan.ruleDeletes
      /\ \A i \in DOMAIN trimmed : trimmed[i] = edited[i]
  <2>1. /\ IsConfig(trimmed) /\ DOMAIN trimmed = DOMAIN edited \ plan.ruleDeletes
        /\ \A i \in DOMAIN edited \ plan.ruleDeletes : trimmed[i] = edited[i]
    BY <1>2, WithoutShape
  <2> HIDE DEF trimmed
  <2> QED
    BY <2>1, <1>2
<1> HIDE DEF trimmed
<1>4. Renamed(trimmed, plan.renames) = trimmed
  BY <1>3, RenamedNone DEF IsConfig
<1>5. /\ IsConfig(left) /\ DOMAIN left = DOMAIN cfg \ (plan.ruleDeletes \cup plan.deletes)
      /\ \A i \in DOMAIN left : left[i] = edited[i]
  <2>1. /\ IsConfig(left) /\ DOMAIN left = DOMAIN trimmed \ plan.deletes
        /\ \A i \in DOMAIN trimmed \ plan.deletes : left[i] = trimmed[i]
    BY <1>3, WithoutShape
  <2> HIDE DEF left
  <2> QED
    BY <2>1, <1>3
<1>6. Apply(cfg, plan) = ReadBack(left)
  BY <1>1, <1>4 DEF Apply, edited, trimmed
<1> HIDE DEF left
<1>7. ASSUME NEW i \in DOMAIN left, NEW f \in Fields
      PROVE  ReadBack(left)[i].fields[f] \cap Names = left[i].fields[f] \cap Names
  BY <1>5, ReadBackShape, NamesAssumption
<1> QED
  BY <1>2, <1>5, <1>6, <1>7, ReadBackShape
(* Writing entries: new ones are what the plan gives, old ones keep their  *)
(* kind.                                                                   *)
LEMMA UpsertedShape ==
    ASSUME NEW cfg, IsConfig(cfg), NEW plan, IsPlan(plan)
    PROVE  /\ IsConfig(Upserted(cfg, plan.upserts))
           /\ DOMAIN Upserted(cfg, plan.upserts) = DOMAIN cfg \cup DOMAIN plan.upserts
<1> DEFINE up == plan.upserts
           new == Upserted(cfg, up)
           lists(i) == [f \in Fields |-> IF Gives(up[i], f) THEN up[i].fields[f] ELSE cfg[i].fields[f]]
           kept(i) == IF up[i].value = Nil THEN cfg[i].value ELSE up[i].value
           over(i) == [cfg[i] EXCEPT !.value = kept(i), !.fields = lists(i)]
<1>1. new = [i \in DOMAIN cfg \cup DOMAIN up |->
                IF i \notin DOMAIN up THEN cfg[i] ELSE IF i \notin DOMAIN cfg THEN up[i] ELSE over(i)]
  BY DEF Upserted
<1>2. \A i \in DOMAIN up : i \in Ids /\ up[i] \in Entry /\ SpaceOf(up[i].kind) = i.space
  BY DEF IsPlan
<1>3. ASSUME NEW i \in DOMAIN cfg, i \in DOMAIN up
      PROVE  over(i) \in Entry /\ over(i).kind = cfg[i].kind
  <2>1. cfg[i] \in Entry /\ cfg[i].fields \in [Fields -> SUBSET Members] /\ cfg[i].value \in Values \cup {Nil}
    BY ConfigEntry DEF Entry
  <2>2. up[i].fields \in [Fields -> SUBSET Members] /\ up[i].value \in Values \cup {Nil}
    BY <1>2, <1>3 DEF Entry
  <2>3. lists(i) \in [Fields -> SUBSET Members]
    BY <2>1, <2>2
  <2>4. kept(i) \in Values \cup {Nil}
    BY <2>1, <2>2
  <2> HIDE DEF lists, kept
  <2> QED
    BY <2>1, <2>3, <2>4 DEF Entry
<1> HIDE DEF over, up
<1>4. DOMAIN new = DOMAIN cfg \cup DOMAIN up /\ new = [i \in DOMAIN new |-> new[i]]
  BY <1>1
<1>5. ASSUME NEW i \in DOMAIN new PROVE i \in Ids /\ new[i] \in Entry /\ SpaceOf(new[i].kind) = i.space
  <2>1. CASE i \notin DOMAIN up
    BY <2>1, <1>1, ConfigEntry
  <2>2. CASE i \in DOMAIN up /\ i \notin DOMAIN cfg
    BY <2>2, <1>1, <1>2
  <2>3. CASE i \in DOMAIN up /\ i \in DOMAIN cfg
    <3>1. new[i] = over(i)
      BY <2>3, <1>1
    <3> QED
      BY <3>1, <2>3, <1>3, ConfigEntry
  <2> QED
    BY <2>1, <2>2, <2>3, <1>4
<1> HIDE DEF new
<1> QED
  BY <1>4, <1>5 DEF IsConfig, new, up

(* Renaming moves entries to identities of their space.                    *)
LEMMA RenamedShape ==
    ASSUME NEW cfg, IsConfig(cfg), NEW renames,
           \A i \in DOMAIN renames : renames[i] \in Names
    PROVE  IsConfig(Renamed(cfg, renames))
<1> DEFINE moved(i) == Moved(renames, i)
           new == Renamed(cfg, renames)
           from(j) == CHOOSE i \in DOMAIN cfg : moved(i) = j
           ids == {moved(i) : i \in DOMAIN cfg}
<1>1. new = [j \in ids |-> cfg[from(j)]]
  BY DEF Renamed
<1>2. ASSUME NEW i \in DOMAIN cfg PROVE moved(i) \in Ids /\ moved(i).space = i.space
  BY ConfigEntry DEF Ids, Moved, Slot
<1>3. ASSUME NEW j \in ids PROVE from(j) \in DOMAIN cfg /\ moved(from(j)) = j
  BY <1>3
<1> HIDE DEF moved, from
<1>4. ASSUME NEW j \in ids
      PROVE  j \in Ids /\ cfg[from(j)] \in Entry /\ SpaceOf(cfg[from(j)].kind) = j.space
  BY <1>2, <1>3, ConfigEntry
<1> HIDE DEF ids
<1>5. DOMAIN new = ids /\ \A j \in ids : new[j] = cfg[from(j)]
  BY <1>1
<1> QED
  BY <1>1, <1>4, <1>5 DEF IsConfig

(* The executor keeps configurations well formed, for every plan over      *)
(* well-formed data.                                                       *)
LEMMA ApplyTyped ==
    ASSUME NEW cfg, IsConfig(cfg), NEW plan, IsPlan(plan)
    PROVE  IsConfig(Apply(cfg, plan))
<1> DEFINE upserted == Upserted(cfg, plan.upserts)
           edited   == Edited(upserted, plan.edits)
           trimmed  == Without(edited, plan.ruleDeletes)
           moved    == Renamed(trimmed, plan.renames)
           left     == Without(moved, plan.deletes)
<1>1. IsConfig(upserted)
  BY UpsertedShape
<1> HIDE DEF upserted
<1>2. IsConfig(edited)
  BY <1>1, EditedShape DEF IsPlan
<1> HIDE DEF edited
<1>3. IsConfig(trimmed)
  BY <1>2, WithoutShape
<1> HIDE DEF trimmed
<1>4. IsConfig(moved)
  BY <1>3, RenamedShape DEF IsPlan
<1> HIDE DEF moved
<1>5. IsConfig(left)
  BY <1>4, WithoutShape
<1>6. Apply(cfg, plan) = ReadBack(left)
  BY DEF Apply, upserted, edited, trimmed, moved
<1> HIDE DEF left
<1> QED
  BY <1>5, <1>6, ReadBackShape

-----------------------------------------------------------------------------
(* The executor on the two shapes of plan that are pushed: entries that    *)
(* are new, and edits with deletes.                                        *)
LEMMA SameConfig ==
    ASSUME NEW one, IsConfig(one), NEW two, IsConfig(two), DOMAIN one = DOMAIN two,
           \A i \in DOMAIN one :
                /\ one[i].kind = two[i].kind /\ one[i].value = two[i].value
                /\ \A f \in Fields : one[i].fields[f] = two[i].fields[f]
    PROVE  one = two
<1>1. ASSUME NEW i \in DOMAIN one PROVE one[i] = two[i]
  <2>1. one[i] \in Entry /\ two[i] \in Entry
    BY ConfigEntry
  <2>2. /\ one[i] = [kind |-> one[i].kind, value |-> one[i].value, fields |-> one[i].fields]
        /\ two[i] = [kind |-> two[i].kind, value |-> two[i].value, fields |-> two[i].fields]
    BY <2>1 DEF Entry
  <2>3. one[i].fields \in [Fields -> SUBSET Members] /\ two[i].fields \in [Fields -> SUBSET Members]
    BY ConfigEntry
  <2>4. one[i].fields = two[i].fields
    BY <2>3
  <2> QED
    BY <2>2, <2>4
<1> QED
  BY <1>1 DEF IsConfig

LEMMA EditedValue ==
    ASSUME NEW cfg, IsConfig(cfg), NEW edits, NEW i \in DOMAIN cfg
    PROVE  Edited(cfg, edits)[i].value = cfg[i].value
<1>1. cfg[i] \in Entry
  BY ConfigEntry
<1> QED
  BY <1>1 DEF Edited, Entry

(* No edit: the second step of the executor changes nothing.               *)
LEMMA EditedNone ==
    ASSUME NEW cfg, IsConfig(cfg), NEW edits, DOMAIN edits = {}
    PROVE  Edited(cfg, edits) = cfg
<1>1. \A i, f : Writers(cfg, edits, i, f) = {}
  BY DEF Writers
<1>2. /\ IsConfig(Edited(cfg, edits)) /\ DOMAIN Edited(cfg, edits) = DOMAIN cfg
      /\ \A i \in DOMAIN cfg :
            /\ Edited(cfg, edits)[i].kind = cfg[i].kind
            /\ Edited(cfg, edits)[i].value = cfg[i].value
            /\ \A f \in Fields : Edited(cfg, edits)[i].fields[f] = cfg[i].fields[f]
  BY <1>1, EditedShape, EditedValue DEF NewList
<1> QED
  BY <1>2, SameConfig

LEMMA ApplyEdits ==
    ASSUME NEW cfg, IsConfig(cfg), NEW plan,
           DOMAIN plan.upserts = {}, DOMAIN plan.renames = {},
           \A k \in DOMAIN plan.edits : plan.edits[k] \in SUBSET Members
    PROVE  Apply(cfg, plan)
             = ReadBack(Without(Edited(cfg, plan.edits), plan.ruleDeletes \cup plan.deletes))
<1> DEFINE edited  == Edited(cfg, plan.edits)
           trimmed == Without(edited, plan.ruleDeletes)
<1>1. Upserted(cfg, plan.upserts) = cfg
  BY UpsertedNone
<1>2. IsConfig(edited)
  BY EditedShape
<1> HIDE DEF edited
<1>3. IsConfig(trimmed)
  BY <1>2, WithoutShape
<1>4. Renamed(trimmed, plan.renames) = trimmed
  BY <1>3, RenamedNone DEF IsConfig
<1>5. Without(trimmed, plan.deletes) = Without(edited, plan.ruleDeletes \cup plan.deletes)
  <2>1. DOMAIN trimmed \ plan.deletes = DOMAIN edited \ (plan.ruleDeletes \cup plan.deletes)
    BY DEF Without
  <2> QED
    BY <2>1 DEF Without
<1> QED
  BY <1>1, <1>4, <1>5 DEF Apply, edited

LEMMA ApplyUpserts ==
    ASSUME NEW cfg, IsConfig(cfg), NEW plan,
           DOMAIN plan.edits = {}, DOMAIN plan.renames = {},
           plan.ruleDeletes = {}, plan.deletes = {},
           DOMAIN plan.upserts \subseteq Ids \ DOMAIN cfg,
           \A i \in DOMAIN plan.upserts :
                plan.upserts[i] \in Entry /\ SpaceOf(plan.upserts[i].kind) = i.space
    PROVE  LET new == [i \in DOMAIN cfg \cup DOMAIN plan.upserts |->
                          IF i \in DOMAIN cfg THEN cfg[i] ELSE plan.upserts[i]]
           IN  IsConfig(new) /\ Apply(cfg, plan) = ReadBack(new)
<1> DEFINE new == [i \in DOMAIN cfg \cup DOMAIN plan.upserts |->
                      IF i \in DOMAIN cfg THEN cfg[i] ELSE plan.upserts[i]]
<1>1. IsConfig(new)
  <2>1. DOMAIN new \subseteq Ids
    BY DEF IsConfig
  <2>2. ASSUME NEW i \in DOMAIN new PROVE new[i] \in Entry /\ SpaceOf(new[i].kind) = i.space
    BY <2>2, ConfigEntry
  <2> QED
    BY <2>1, <2>2 DEF IsConfig
<1>2. Upserted(cfg, plan.upserts) = new
  BY DEF Upserted
<1> HIDE DEF new
<1>3. Edited(new, plan.edits) = new
  BY <1>1, EditedNone
<1>4. Without(new, {}) = new
  BY <1>1 DEF Without, IsConfig
<1>5. Renamed(new, plan.renames) = new
  BY <1>1, RenamedNone DEF IsConfig
<1> QED
  BY <1>1, <1>2, <1>3, <1>4, <1>5 DEF Apply, new

-----------------------------------------------------------------------------
(* The planner as seen by one command: a well-formed configuration, the    *)
(* command and a delete set of existing objects.                           *)
Planning(c, cm, dead) ==
    /\ IsConfig(c)
    /\ cm \in Commands
    /\ dead \subseteq ObjectIds
    /\ dead \subseteq DOMAIN c

LEMMA LeafFacts ==
    \A k, f :
        /\ k \in {"address-group", "dynamic-group"} => Leaf(k, f) = "static"
        /\ k = "service-group" => Leaf(k, f) = "members"
        /\ k \in RuleSpaces \cup {"address", "service", "tag"} => Leaf(k, f) = f
BY Zenon DEF Leaf, RuleSpaces

-----------------------------------------------------------------------------
(* The edits of a scrub: one per touched field that is not an object's own *)
(* tag list, holding what was there without the names that go.             *)
LEMMA ScrubEditsShape ==
    ASSUME NEW c, NEW cm, NEW touched, IsConfig(c), touched \subseteq Refs(c)
    PROVE  LET edits == ScrubEdits(c, cm, touched) IN
           /\ \A k \in DOMAIN edits : edits[k] \in SUBSET Members
           /\ \A k \in DOMAIN edits : \E r \in touched : ~OwnTag(c, r) /\ k = <<r.by, r.field>>
           /\ \A k \in DOMAIN edits : edits[k] \subseteq c[k[1]].fields[k[2]]
           /\ \A r \in touched : ~OwnTag(c, r) =>
                /\ <<r.by, r.field>> \in DOMAIN edits
                /\ Scrubbable(c, cm, r) => r.name \notin edits[<<r.by, r.field>>]
<1> DEFINE keys == {<<r.by, r.field>> : r \in {t \in touched : ~OwnTag(c, t)}}
           drop(k) == {r.name : r \in {t \in touched :
                          t.by = k[1] /\ t.field = k[2] /\ Scrubbable(c, cm, t)}}
           edits == ScrubEdits(c, cm, touched)
<1>1. edits = [k \in keys |-> c[k[1]].fields[k[2]] \ drop(k)]
  BY DEF ScrubEdits
<1>2. ASSUME NEW k \in keys
      PROVE  /\ \E r \in touched : ~OwnTag(c, r) /\ k = <<r.by, r.field>>
             /\ c[k[1]].fields[k[2]] \in SUBSET Members
  <2>1. PICK r \in touched : ~OwnTag(c, r) /\ k = <<r.by, r.field>>
    OBVIOUS
  <2>2. r.by \in DOMAIN c /\ r.field \in Fields
    BY RefsType
  <2> QED
    BY <2>1, <2>2, ConfigEntry
<1>3. ASSUME NEW r \in touched, ~OwnTag(c, r)
      PROVE  /\ <<r.by, r.field>> \in keys
             /\ Scrubbable(c, cm, r) => r.name \in drop(<<r.by, r.field>>)
  BY <1>3
<1> HIDE DEF keys, drop
<1>4. DOMAIN edits = keys /\ \A k \in keys : edits[k] = c[k[1]].fields[k[2]] \ drop(k)
  BY <1>1
<1> HIDE DEF edits
<1>5. \A k \in DOMAIN edits : edits[k] \in SUBSET Members /\ edits[k] \subseteq c[k[1]].fields[k[2]]
  BY <1>2, <1>4
<1>6. ASSUME NEW r \in touched, ~OwnTag(c, r)
      PROVE  /\ <<r.by, r.field>> \in DOMAIN edits
             /\ Scrubbable(c, cm, r) => r.name \notin edits[<<r.by, r.field>>]
  BY <1>3, <1>4, <1>6
<1> QED
  BY <1>2, <1>4, <1>5, <1>6 DEF edits

LEMMA TouchedRefs ==
    ASSUME NEW c, NEW cm, NEW dead
    PROVE  Touched(c, cm, dead) \subseteq Refs(c)
BY DEF Touched, RefsInto

-----------------------------------------------------------------------------
(* The plan edits and deletes, nothing else; a blocked plan does nothing.  *)
LEMMA DraftShape ==
    ASSUME NEW c, NEW cm, NEW dead, Planning(c, cm, dead)
    PROVE  LET d     == Draft(c, cm, dead)
               edits == ScrubEdits(c, cm, Touched(c, cm, dead)) IN
           /\ d.upserts = <<>> /\ d.renames = <<>>
           /\ d.deletes = IF cm.keepGroups THEN {} ELSE dead
           /\ d.ruleDeletes \subseteq {i \in DOMAIN c : c[i].kind \in RuleSpaces}
           /\ \A k \in DOMAIN d.edits : k \in DOMAIN edits /\ d.edits[k] = edits[k]
           /\ \A k \in DOMAIN edits : k[1] \notin dead => k \in DOMAIN d.edits
           /\ d.edits \in [DOMAIN d.edits -> SUBSET Members]
<1> DEFINE d == Draft(c, cm, dead)
           edits == ScrubEdits(c, cm, Touched(c, cm, dead))
           orphans == IF cm.keepRules THEN {} ELSE Orphaned(c, cm, edits)
           kept == {k \in DOMAIN edits : c[k[1]].kind \in RuleSpaces \/ k[1] \notin dead}
<1>1. /\ d.upserts = <<>> /\ d.renames = <<>>
      /\ d.deletes = IF cm.keepGroups THEN {} ELSE dead
      /\ d.ruleDeletes = orphans
      /\ d.edits = [k \in kept |-> edits[k]]
  <2> HIDE DEF edits
  <2> QED
    BY DEF Draft, EmptyPlan, edits
<1>2. /\ \A k \in DOMAIN edits : edits[k] \in SUBSET Members
      /\ \A k \in DOMAIN edits : \E r \in Touched(c, cm, dead) : k = <<r.by, r.field>>
  BY TouchedRefs, ScrubEditsShape DEF Planning
<1>3. orphans \subseteq {i \in DOMAIN c : c[i].kind \in RuleSpaces}
  <2>1. \A k \in DOMAIN edits : k[1] \in DOMAIN c
    BY <1>2, TouchedRefs, RefsType DEF Planning
  <2> HIDE DEF edits
  <2> QED
    BY <2>1 DEF Orphaned
<1> HIDE DEF d, edits, orphans
<1>4. /\ \A k \in DOMAIN d.edits : k \in DOMAIN edits /\ d.edits[k] = edits[k]
      /\ \A k \in DOMAIN edits : k[1] \notin dead => k \in DOMAIN d.edits
      /\ d.edits \in [DOMAIN d.edits -> SUBSET Members]
  BY <1>1, <1>2
<1> QED
  BY <1>1, <1>3, <1>4 DEF d, edits

LEMMA PlanShape ==
    ASSUME NEW c, NEW cm, NEW dead, Planning(c, cm, dead)
    PROVE  LET p == PlanTeardown(c, cm, dead)
               d == Draft(c, cm, dead) IN
           /\ p.upserts = <<>> /\ p.renames = <<>>
           /\ p.blocked \in BOOLEAN
           /\ \/ p.edits = <<>> /\ p.deletes = {} /\ p.ruleDeletes = {}
              \/ /\ ~p.blocked /\ ~Blocked(c, cm, dead)
                 /\ p.edits = d.edits /\ p.deletes = d.deletes /\ p.ruleDeletes = d.ruleDeletes
                 /\ p.notes = d.notes
<1> DEFINE d == Draft(c, cm, dead)
           p == PlanTeardown(c, cm, dead)
           b == Blocked(c, cm, dead)
           sealed == [d EXCEPT !.blocked = b]
<1>1. CASE Matched(c, cm) = {}
  <2>1. p = [EmptyPlan EXCEPT !.blocked = (cm.op = "purge" /\ cm.targets # {})]
    BY <1>1 DEF PlanTeardown
  <2> QED
    BY <2>1 DEF EmptyPlan
<1>2. CASE Matched(c, cm) # {}
  <2>1. p = Sealed(sealed)
    BY <1>2 DEF PlanTeardown
  <2>2. /\ d.upserts = <<>> /\ d.renames = <<>>
    BY DraftShape
  <2>3. /\ sealed.upserts = <<>> /\ sealed.renames = <<>> /\ sealed.edits = d.edits
        /\ sealed.deletes = d.deletes /\ sealed.ruleDeletes = d.ruleDeletes
        /\ sealed.notes = d.notes /\ sealed.blocked = b
    BY <2>2 DEF Draft, EmptyPlan
  <2>4. b \in BOOLEAN
    BY DEF Blocked
  <2> HIDE DEF b, d, p, sealed
  <2>5. CASE b
    <3>1. p = [EmptyPlan EXCEPT !.notes = sealed.notes, !.blocked = TRUE]
      BY <2>1, <2>3, <2>5 DEF Sealed
    <3> QED
      BY <3>1 DEF EmptyPlan, p, d
  <2>6. CASE ~b
    <3>1. b = FALSE
      BY <2>4, <2>6
    <3>2. p = sealed
      BY <2>1, <2>3, <3>1 DEF Sealed
    <3>3. p.blocked = FALSE
      BY <3>2, <2>3, <3>1
    <3>4. /\ p.upserts = <<>> /\ p.renames = <<>>
          /\ p.edits = d.edits /\ p.deletes = d.deletes /\ p.ruleDeletes = d.ruleDeletes
          /\ p.notes = d.notes
      BY <3>2, <2>2, <2>3
    <3> QED
      BY <3>3, <3>4, <2>6 DEF p, d, b
  <2> QED
    BY <2>4, <2>5, <2>6
<1> QED
  BY <1>1, <1>2

-----------------------------------------------------------------------------
(* A walked list is written by the scrub of that very list, if by any.     *)
LEMMA ScrubWriters ==
    ASSUME NEW c, NEW cm, NEW dead, Planning(c, cm, dead), NEW e,
           DOMAIN e \subseteq DOMAIN ScrubEdits(c, cm, Touched(c, cm, dead)),
           NEW i \in DOMAIN c, NEW f \in Walked(c[i].kind)
    PROVE  Writers(c, e, i, f)
             = IF <<i, f>> \in DOMAIN e /\ Mappable(c[i].kind, f) THEN {<<i, f>>} ELSE {}
<1>1. ASSUME NEW k \in DOMAIN e, k[1] = i
      PROVE  /\ k = <<i, k[2]>>
             /\ Leaf(c[i].kind, k[2]) = k[2]
  <2>1. PICK r \in Touched(c, cm, dead) : ~OwnTag(c, r) /\ k = <<r.by, r.field>>
    BY TouchedRefs, ScrubEditsShape DEF Planning
  <2>2. r.field \in Walked(c[i].kind) /\ c[i].kind \in Kinds
    BY <1>1, <2>1, TouchedRefs, RefsType, ConfigEntry DEF Planning
  <2>3. r.field = "tag" => c[i].kind \in RuleSpaces
    BY <1>1, <2>1 DEF OwnTag
  <2>4. Leaf(c[i].kind, r.field) = r.field
    BY <2>2, <2>3, LeafFacts, WalkedFacts DEF Kinds, RuleSpaces
  <2> QED
    BY <1>1, <2>1, <2>4
<1> QED
  BY <1>1 DEF Writers

(* What a survivor of an executed teardown still names.                    *)
LEMMA SurvivingList ==
    ASSUME NEW c, NEW cm, NEW dead, Planning(c, cm, dead),
           NEW r \in Refs(Apply(c, PlanTeardown(c, cm, dead)))
    PROVE  LET p == PlanTeardown(c, cm, dead) IN
           /\ r \in Refs(c)
           /\ r.by \in DOMAIN Apply(c, p)
           /\ <<r.by, r.field>> \in DOMAIN p.edits /\ Mappable(c[r.by].kind, r.field)
                => r.name \in p.edits[<<r.by, r.field>>]
<1> DEFINE p == PlanTeardown(c, cm, dead)
           new == Apply(c, p)
           edits == ScrubEdits(c, cm, Touched(c, cm, dead))
<1>1. /\ DOMAIN p.upserts = {} /\ DOMAIN p.renames = {}
      /\ \A k \in DOMAIN p.edits : p.edits[k] \in SUBSET Members
      /\ DOMAIN p.edits \subseteq DOMAIN edits
      /\ \A k \in DOMAIN p.edits : p.edits[k] = edits[k]
  BY PlanShape, DraftShape
<1>2. /\ IsConfig(new) /\ DOMAIN new \subseteq DOMAIN c
      /\ \A i \in DOMAIN new :
            /\ new[i].kind = c[i].kind
            /\ \A f \in Fields :
                  new[i].fields[f] \cap Names = NewList(c, p.edits, i, f) \cap Names
  <2> HIDE DEF p
  <2>1. IsConfig(c)
    BY DEF Planning
  <2>2. DOMAIN new = DOMAIN c \ (p.ruleDeletes \cup p.deletes)
    BY <1>1, <2>1, ApplyShape
  <2> QED
    BY <1>1, <2>1, <2>2, ApplyShape
<1> HIDE DEF new, p
<1>3. /\ r.by \in DOMAIN new /\ r.by \in DOMAIN c /\ r.field \in Fields /\ r.name \in Names
      /\ r = [by |-> r.by, field |-> r.field, name |-> r.name]
      /\ r.field \in Walked(c[r.by].kind)
      /\ r.name \in NewList(c, p.edits, r.by, r.field)
  BY <1>2, RefsType DEF new, p
<1>4. Writers(c, p.edits, r.by, r.field)
        = IF <<r.by, r.field>> \in DOMAIN p.edits /\ Mappable(c[r.by].kind, r.field)
          THEN {<<r.by, r.field>>} ELSE {}
  BY <1>1, <1>3, ScrubWriters
<1>5. <<r.by, r.field>> \in DOMAIN p.edits /\ Mappable(c[r.by].kind, r.field)
        => r.name \in p.edits[<<r.by, r.field>>]
  BY <1>3, <1>4 DEF NewList
<1>6. \A k \in DOMAIN p.edits : p.edits[k] \subseteq c[k[1]].fields[k[2]]
  BY <1>1, TouchedRefs, ScrubEditsShape DEF Planning
<1>7. r.name \in c[r.by].fields[r.field]
  BY <1>3, <1>4, <1>5, <1>6 DEF NewList
<1> QED
  BY <1>3, <1>5, <1>7, RefsMembership DEF new, p

(* The scrub sees every field that can name what a command deletes.        *)
LEMMA TargetInReach ==
    ASSUME NEW c, NEW cm, NEW dead, Planning(c, cm, dead),
           cm.op \in {"decommission", "purge"},
           cm.op = "decommission" => \A g \in dead : g.space = "address",
           NEW r \in Refs(c),
           Target(DOMAIN c, r) \in dead, Target(DOMAIN c, r).space = NsOf(r.field)
    PROVE  InReach(c, cm, r)
<1>1. /\ r.by \in DOMAIN c /\ c[r.by].kind \in Kinds /\ r.field \in Walked(c[r.by].kind)
  BY RefsType, ConfigEntry DEF Planning
<1>2. CASE cm.op = "decommission"
  <2>1. NsOf(r.field) = "address"
    BY <1>2
  <2>2. r.field \notin {"members", "service", "tag"}
    BY <2>1, NsOfFacts
  <2>3. r.field \in {"static", "source", "destination", "translation", "nexthop"}
    BY <1>1, <2>2, WalkedFacts DEF Kinds, RuleSpaces
  <2> QED
    BY <1>2, <2>3 DEF InReach, Scrubbable, NestedFields
<1>3. CASE cm.op = "purge"
  <2>1. CASE c[r.by].kind \in RuleSpaces
    <3>1. r.field \in RuleFlatFields \cup NestedFields
      BY <1>1, <2>1, WalkedFacts DEF RuleSpaces, RuleFlatFields, NestedFields
    <3> QED
      BY <1>3, <2>1, <3>1 DEF InReach, Scrubbable
  <2>2. CASE c[r.by].kind \notin RuleSpaces
    <3>1. r.field \in {"static", "members", "tag"}
      BY <1>1, <2>2, WalkedFacts DEF Kinds
    <3> QED
      BY <1>3, <2>2, <3>1 DEF InReach, Scrubbable, OwnTag
  <2> QED
    BY <2>1, <2>2
<1> QED
  BY <1>2, <1>3

(* The heart of the matter: a reference whose target an unblocked plan     *)
(* deletes under it is scrubbed, or its referrer goes too.                 *)
LEMMA BrokenReferencesGo ==
    ASSUME NEW c, NEW cm, NEW dead, Planning(c, cm, dead), ~Blocked(c, cm, dead),
           cm.op \in {"decommission", "purge"},
           cm.op = "decommission" => \A g \in dead : g.space = "address",
           cm.keepGroups = FALSE,
           NEW r \in Refs(c), Breaks(c, r, dead), r.by \notin dead
    PROVE  /\ <<r.by, r.field>> \in DOMAIN Draft(c, cm, dead).edits
           /\ Mappable(c[r.by].kind, r.field)
           /\ r.name \notin Draft(c, cm, dead).edits[<<r.by, r.field>>]
<1> DEFINE touched == Touched(c, cm, dead)
           edits == ScrubEdits(c, cm, touched)
           d == Draft(c, cm, dead)
           k == <<r.by, r.field>>
<1>1. /\ r.by \in DOMAIN c /\ c[r.by].kind \in Kinds /\ r.field \in Walked(c[r.by].kind)
  BY RefsType, ConfigEntry DEF Planning
<1>2. /\ Target(DOMAIN c, r) \in dead
      /\ Target(DOMAIN c, r).space = NsOf(r.field)
  BY BreaksTarget DEF Planning
<1>3. InReach(c, cm, r)
  BY <1>2, TargetInReach
<1>4. r \in touched
  BY <1>2, <1>3 DEF Touched, RefsInto
<1>5. ~OwnTag(c, r)
  BY <1>4 DEF Blocked, TagBlocks
<1>6. k \in DOMAIN edits /\ (Scrubbable(c, cm, r) => r.name \notin edits[k])
  BY <1>4, <1>5, TouchedRefs, ScrubEditsShape DEF Planning
<1>7. k \in DOMAIN d.edits /\ d.edits[k] = edits[k] /\ d.deletes = dead
  <2> HIDE DEF edits, d
  <2> QED
    BY <1>6, DraftShape DEF edits, d
<1>8. Mappable(c[r.by].kind, r.field)
  BY <1>2, <1>7 DEF Blocked, GateBlocks
<1>9. Scrubbable(c, cm, r)
  <2>1. r.field \notin NestedFields
    BY <1>1, <1>8, WalkedFacts DEF Mappable, NestedFields, RuleFlatFields, Kinds, RuleSpaces
  <2> QED
    BY <1>3, <1>5, <2>1 DEF InReach
<1> QED
  BY <1>6, <1>7, <1>8, <1>9

(* A teardown plan, applied, strands nothing.                              *)
LEMMA TeardownStrandsNothing ==
    ASSUME NEW c, NEW cm, NEW dead, Planning(c, cm, dead),
           cm.op \in {"decommission", "purge"},
           cm.op = "decommission" => \A g \in dead : g.space = "address"
    PROVE  Unresolved(Apply(c, PlanTeardown(c, cm, dead))) \subseteq Unresolved(c)
<1> DEFINE p == PlanTeardown(c, cm, dead)
           d == Draft(c, cm, dead)
           new == Apply(c, p)
<1> SUFFICES ASSUME NEW r \in Unresolved(new), r \notin Unresolved(c)
             PROVE  FALSE
  OBVIOUS
<1>1. /\ r \in Refs(c) /\ r.by \in DOMAIN new
      /\ <<r.by, r.field>> \in DOMAIN p.edits /\ Mappable(c[r.by].kind, r.field)
            => r.name \in p.edits[<<r.by, r.field>>]
  BY SurvivingList DEF Unresolved
<1>2. Target(DOMAIN new, r) = Nil /\ Target(DOMAIN c, r) # Nil
  BY <1>1 DEF Unresolved
<1>3. DOMAIN new = DOMAIN c \ (p.ruleDeletes \cup p.deletes)
  <2>1. /\ DOMAIN p.upserts = {} /\ DOMAIN p.renames = {}
        /\ \A k \in DOMAIN p.edits : p.edits[k] \in SUBSET Members
    BY PlanShape, DraftShape
  <2> HIDE DEF p
  <2> QED
    BY <2>1, ApplyShape DEF Planning
<1>4. /\ r.by.loc \in Locs /\ r.name \in Names /\ NsOf(r.field) \in ObjectSpaces
      /\ NsOf(r.field) \in Spaces
  BY <1>1, RefsType DEF Planning
<1>5. Target(DOMAIN c, r) \in DOMAIN c /\ Target(DOMAIN c, r).space = NsOf(r.field)
  BY <1>2, <1>4, ResolveProperties DEF Target
<1>6. Target(DOMAIN c, r) \in p.deletes \cup p.ruleDeletes
  <2> DEFINE taken == p.ruleDeletes \cup p.deletes
  <2>1. Target(DOMAIN c \ taken, r) = Nil
    BY <1>2, <1>3
  <2> HIDE DEF taken
  <2>2. Target(DOMAIN c, r) \in taken
    BY <1>2, <1>4, <2>1, ResolveSurvivor DEF Target
  <2> QED
    BY <2>2 DEF taken
<1>7. /\ ~Blocked(c, cm, dead) /\ p.edits = d.edits
      /\ p.deletes = d.deletes /\ p.ruleDeletes = d.ruleDeletes
  BY <1>6, PlanShape
<1>8. \A i \in d.ruleDeletes : i \in DOMAIN c /\ i.space \in RuleSpaces
  <2>1. d.ruleDeletes \subseteq {i \in DOMAIN c : c[i].kind \in RuleSpaces}
    BY DraftShape
  <2> QED
    BY <2>1, ConfigEntry, SpaceOfFacts DEF Planning
<1>9. Target(DOMAIN c, r) \notin d.ruleDeletes
  BY <1>4, <1>5, <1>8 DEF ObjectSpaces, RuleSpaces
<1>10. cm.keepGroups = FALSE /\ d.deletes = dead
  <2>1. d.deletes = IF cm.keepGroups THEN {} ELSE dead
    BY DraftShape
  <2>2. cm.keepGroups \in BOOLEAN
    BY DEF Planning, Commands
  <2> QED
    BY <1>6, <1>7, <1>9, <2>1, <2>2
<1>11. Breaks(c, r, dead)
  <2>1. ASSUME NEW i \in DOMAIN Chain[r.by.loc],
               Slot(NsOf(r.field), r.name, Chain[r.by.loc][i]) \in DOMAIN c \ dead
        PROVE  FALSE
    <3>1. Slot(NsOf(r.field), r.name, Chain[r.by.loc][i]).space \notin RuleSpaces
      BY <1>4 DEF Slot, ObjectSpaces, RuleSpaces
    <3>2. Slot(NsOf(r.field), r.name, Chain[r.by.loc][i]) \in DOMAIN new
      BY <1>3, <1>7, <1>8, <1>10, <2>1, <3>1
    <3> QED
      BY <1>2, <1>4, <3>2, ResolveProperties DEF Target
  <2>2. Target(DOMAIN c \ dead, r) = Nil
    BY <1>4, <2>1, ResolveProperties DEF Target
  <2> QED
    BY <1>2, <2>2 DEF Breaks
<1>12. r.by \notin dead
  BY <1>1, <1>3, <1>7, <1>10
<1> HIDE DEF p, d, new
<1>13. /\ <<r.by, r.field>> \in DOMAIN d.edits
       /\ Mappable(c[r.by].kind, r.field)
       /\ r.name \notin d.edits[<<r.by, r.field>>]
  BY <1>1, <1>7, <1>10, <1>11, <1>12, BrokenReferencesGo DEF d
<1> QED
  BY <1>1, <1>7, <1>13

-----------------------------------------------------------------------------
(* The other direction: what a scrub takes out was touched.                *)
LEMMA ScrubLoss ==
    ASSUME NEW c, NEW cm, NEW touched, NEW k \in DOMAIN ScrubEdits(c, cm, touched),
           NEW m \in c[k[1]].fields[k[2]], m \notin ScrubEdits(c, cm, touched)[k]
    PROVE  \E r \in touched : r.by = k[1] /\ r.field = k[2] /\ r.name = m
<1> DEFINE keys == {<<r.by, r.field>> : r \in {t \in touched : ~OwnTag(c, t)}}
           drop(l) == {r.name : r \in {t \in touched :
                          t.by = l[1] /\ t.field = l[2] /\ Scrubbable(c, cm, t)}}
<1>1. ScrubEdits(c, cm, touched) = [l \in keys |-> c[l[1]].fields[l[2]] \ drop(l)]
  BY DEF ScrubEdits
<1> HIDE DEF keys, drop
<1>2. m \in drop(k)
  BY <1>1
<1> QED
  BY <1>2 DEF drop

(* A survivor was there, and is what it was.                               *)
LEMMA SurvivorKind ==
    ASSUME NEW c, NEW cm, NEW dead, Planning(c, cm, dead),
           NEW i \in DOMAIN Apply(c, PlanTeardown(c, cm, dead))
    PROVE  i \in DOMAIN c /\ Apply(c, PlanTeardown(c, cm, dead))[i].kind = c[i].kind
<1> DEFINE p == PlanTeardown(c, cm, dead)
<1>1. /\ DOMAIN p.upserts = {} /\ DOMAIN p.renames = {}
      /\ \A k \in DOMAIN p.edits : p.edits[k] \in SUBSET Members
  BY PlanShape, DraftShape
<1>2. i \in DOMAIN Apply(c, p)
  OBVIOUS
<1> HIDE DEF p
<1>3. /\ DOMAIN Apply(c, p) = DOMAIN c \ (p.ruleDeletes \cup p.deletes)
      /\ \A j \in DOMAIN Apply(c, p) : Apply(c, p)[j].kind = c[j].kind
  <2>1. IsConfig(c)
    BY DEF Planning
  <2> QED
    BY <1>1, <2>1, ApplyShape
<1> QED
  BY <1>2, <1>3 DEF p

(* A name a survivor loses means nothing any more.                         *)
LEMMA LostMember ==
    ASSUME NEW c, NEW cm, NEW dead, Planning(c, cm, dead), ~cm.keepGroups,
           NEW i \in DOMAIN Apply(c, PlanTeardown(c, cm, dead)),
           NEW f \in Walked(c[i].kind), NEW m \in c[i].fields[f],
           m \notin Apply(c, PlanTeardown(c, cm, dead))[i].fields[f]
    PROVE  /\ \E r \in Refs(c) : r.by = i /\ r.field = f /\ r.name = m /\ Breaks(c, r, dead)
           /\ DOMAIN Apply(c, PlanTeardown(c, cm, dead)) \subseteq DOMAIN c \ dead
<1> DEFINE p == PlanTeardown(c, cm, dead)
           new == Apply(c, p)
           edits == ScrubEdits(c, cm, Touched(c, cm, dead))
           edited == Edited(c, p.edits)
           left == Without(edited, p.ruleDeletes \cup p.deletes)
<1>1. /\ DOMAIN p.upserts = {} /\ DOMAIN p.renames = {}
      /\ \A k \in DOMAIN p.edits : p.edits[k] \in SUBSET Members
      /\ DOMAIN p.edits \subseteq DOMAIN edits
      /\ \A k \in DOMAIN p.edits : p.edits[k] = edits[k]
  BY PlanShape, DraftShape
<1>2. f \in Fields
  BY Zenon DEF Walked, Fields
<1> HIDE DEF p, edits
<1>3. new = ReadBack(left)
  BY <1>1, ApplyEdits DEF Planning
<1>4. /\ IsConfig(edited) /\ DOMAIN edited = DOMAIN c
      /\ \A j \in DOMAIN c : edited[j].fields[f] = NewList(c, p.edits, j, f)
  BY <1>1, <1>2, EditedShape DEF Planning
<1> HIDE DEF edited
<1>5. /\ IsConfig(left) /\ DOMAIN left = DOMAIN edited \ (p.ruleDeletes \cup p.deletes)
      /\ \A j \in DOMAIN edited \ (p.ruleDeletes \cup p.deletes) : left[j] = edited[j]
  BY <1>4, WithoutShape
<1> HIDE DEF left, new
<1>6. i \in DOMAIN left /\ m \notin ReadBack(left)[i].fields[f]
  BY <1>3, <1>5, ReadBackShape DEF p, new
<1>7. i \in DOMAIN c /\ left[i].fields[f] = NewList(c, p.edits, i, f)
  BY <1>4, <1>5, <1>6
<1>8. m \notin NewList(c, p.edits, i, f)
  BY <1>2, <1>5, <1>6, <1>7, ReadBackShape
<1>9. <<i, f>> \in DOMAIN p.edits /\ m \notin p.edits[<<i, f>>]
  <2>1. Writers(c, p.edits, i, f)
          = IF <<i, f>> \in DOMAIN p.edits /\ Mappable(c[i].kind, f) THEN {<<i, f>>} ELSE {}
    BY <1>1, <1>7, ScrubWriters DEF edits
  <2> QED
    BY <1>8, <2>1 DEF NewList
<1>10. PICK r \in Touched(c, cm, dead) : r.by = i /\ r.field = f /\ r.name = m
  <2> DEFINE k == <<i, f>>
  <2>1. k[1] = i /\ k[2] = f
    OBVIOUS
  <2>2. k \in DOMAIN edits /\ m \notin edits[k]
    BY <1>1, <1>9
  <2> HIDE DEF k
  <2> QED
    BY <2>1, <2>2, ScrubLoss DEF edits
<1>11. p.deletes = dead
  BY <1>9, PlanShape, DraftShape DEF p
<1>12. DOMAIN new \subseteq DOMAIN c \ dead
  BY <1>3, <1>4, <1>5, <1>11, ReadBackShape
<1>13. r \in Refs(c) /\ Breaks(c, r, dead)
  BY <1>10, TouchedRefs DEF Touched
<1> QED
  BY <1>10, <1>12, <1>13 DEF new, p

(* A name a survivor keeps, with another meaning, is in the notes.         *)
LEMMA RebindNoted ==
    ASSUME NEW c, NEW cm, NEW dead, Planning(c, cm, dead),
           cm.op \in {"decommission", "purge"},
           cm.op = "decommission" => \A g \in dead : g.space = "address",
           NEW r \in Refs(c), r \in Refs(Apply(c, PlanTeardown(c, cm, dead))),
           Target(DOMAIN c, r) # Target(DOMAIN Apply(c, PlanTeardown(c, cm, dead)), r)
    PROVE  r \in PlanTeardown(c, cm, dead).notes
<1> DEFINE p == PlanTeardown(c, cm, dead)
           d == Draft(c, cm, dead)
           taken == p.ruleDeletes \cup p.deletes
           new == Apply(c, p)
<1>1. DOMAIN new = DOMAIN c \ taken
  <2>1. /\ DOMAIN p.upserts = {} /\ DOMAIN p.renames = {}
        /\ \A k \in DOMAIN p.edits : p.edits[k] \in SUBSET Members
    BY PlanShape, DraftShape
  <2> HIDE DEF p
  <2> QED
    BY <2>1, ApplyShape DEF Planning
<1>2. /\ r.by.loc \in Locs /\ r.name \in Names /\ NsOf(r.field) \in ObjectSpaces
      /\ NsOf(r.field) \in Spaces
  BY RefsType DEF Planning
<1>3. /\ r.by \in DOMAIN new
      /\ <<r.by, r.field>> \in DOMAIN p.edits /\ Mappable(c[r.by].kind, r.field)
            => r.name \in p.edits[<<r.by, r.field>>]
  BY SurvivingList
<1> HIDE DEF taken, new
<1>4. Target(DOMAIN c, r) # Nil /\ Target(DOMAIN c, r) \in taken
  <2>1. Target(DOMAIN c, r) # Target(DOMAIN c \ taken, r)
    BY <1>1 DEF new
  <2>2. Target(DOMAIN c, r) = Nil => Target(DOMAIN c \ taken, r) = Nil
    <3>1. DOMAIN c \ taken \subseteq DOMAIN c
      OBVIOUS
    <3> QED
      BY <1>2, <3>1, ResolveMonotone DEF Target
  <2>3. Target(DOMAIN c, r) # Nil
    BY <2>1, <2>2
  <2>4. Target(DOMAIN c, r) \in taken
    BY <1>2, <2>1, <2>3, ResolveSurvivor DEF Target
  <2> QED
    BY <2>3, <2>4
<1>5. Target(DOMAIN c, r).space = NsOf(r.field)
  BY <1>2, <1>4, ResolveProperties DEF Target
<1>6. /\ ~Blocked(c, cm, dead) /\ p.edits = d.edits /\ p.notes = d.notes
      /\ p.deletes = d.deletes /\ p.ruleDeletes = d.ruleDeletes
  BY <1>4, PlanShape DEF taken
<1>7. Target(DOMAIN c, r) \in d.deletes
  <2>1. d.ruleDeletes \subseteq {i \in DOMAIN c : c[i].kind \in RuleSpaces}
    BY DraftShape
  <2>2. \A i \in d.ruleDeletes : i.space \in RuleSpaces
    BY <2>1, ConfigEntry, SpaceOfFacts DEF Planning
  <2> QED
    BY <1>2, <1>4, <1>5, <1>6, <2>2 DEF taken, ObjectSpaces, RuleSpaces
<1>8. cm.keepGroups = FALSE /\ d.deletes = dead
  <2>1. d.deletes = IF cm.keepGroups THEN {} ELSE dead
    BY DraftShape
  <2>2. cm.keepGroups \in BOOLEAN
    BY DEF Planning, Commands
  <2> QED
    BY <1>7, <2>1, <2>2
<1>9. r.by \notin d.deletes \cup d.ruleDeletes
  BY <1>1, <1>3, <1>6 DEF taken
<1>10. ~Breaks(c, r, dead)
  <2> HIDE DEF d, p
  <2> QED
    BY <1>3, <1>6, <1>8, <1>9, BrokenReferencesGo DEF d
<1>11. r \in FallThrough(c, cm, dead)
  <2>1. InReach(c, cm, r)
    BY <1>5, <1>7, <1>8, TargetInReach
  <2> QED
    BY <1>7, <1>8, <1>10, <2>1 DEF FallThrough, RefsInto
<1>12. d.notes = {q \in FallThrough(c, cm, dead) : q.by \notin d.ruleDeletes \cup d.deletes}
  BY DEF Draft, EmptyPlan
<1> QED
  BY <1>6, <1>9, <1>11, <1>12

-----------------------------------------------------------------------------
(* A member that breaks is a name objects may have.                        *)
LEMMA MemberRefFacts ==
    ASSUME NEW c, IsConfig(c), NEW g \in DOMAIN c,
           c[g].kind \in {"address-group", "service-group"},
           NEW dead, NEW r \in MemberRefs(c, g), Breaks(c, r, dead)
    PROVE  r.name \in Names /\ r.by.loc \in Locs /\ r \in Refs(c)
           /\ NsOf(r.field) \in Spaces /\ NsOf(r.field) = g.space
<1>1. /\ r.by = g /\ g \in Ids /\ g.loc \in Locs
      /\ r = [by |-> g, field |-> ListField(c[g].kind), name |-> r.name]
      /\ r.name \in c[g].fields[r.field]
  BY ConfigEntry DEF MemberRefs, Ids
<1>2. \/ r.field = "static" /\ c[g].kind = "address-group" /\ g.space = "address"
      \/ r.field = "members" /\ c[g].kind = "service-group" /\ g.space = "service"
  BY <1>1, ConfigEntry, SpaceOfFacts DEF ListField
<1>3. NsOf(r.field) \in Spaces /\ NsOf(r.field) = g.space
  BY <1>2, NsOfFacts DEF Spaces, ObjectSpaces
<1>4. PICK i \in DOMAIN Chain[g.loc] :
        Slot(NsOf(r.field), r.name, Chain[g.loc][i]) \in DOMAIN c
  BY <1>1 DEF Breaks, Target, Resolve
<1>5. Slot(NsOf(r.field), r.name, Chain[g.loc][i]) \in Ids
  BY <1>4 DEF IsConfig
<1>6. r.name \in Names
  BY <1>5 DEF Slot, Ids
<1>7. r.field \in Walked(c[g].kind) /\ r.field \in Fields
  BY <1>2, WalkedFacts DEF Fields
<1> QED
  BY <1>1, <1>3, <1>6, <1>7, RefsMembership

(* A group the cascade finds is an object of the namespace of what         *)
(* emptied it.                                                             *)
LEMMA NewlyEmptyFacts ==
    ASSUME NEW c, IsConfig(c), NEW dead, NEW g \in NewlyEmptyGroups(c, dead)
    PROVE  /\ g \in DOMAIN c /\ g \in ObjectIds
           /\ \E t \in dead : t.space = g.space
<1>1. /\ g \in DOMAIN c /\ g \in Ids /\ c[g].kind \in {"address-group", "service-group"}
      /\ \E r \in MemberRefs(c, g) : Breaks(c, r, dead)
  BY ConfigEntry DEF NewlyEmptyGroups
<1>2. g.space \in ObjectSpaces
  BY <1>1, ConfigEntry, SpaceOfFacts DEF ObjectSpaces
<1>3. PICK r \in MemberRefs(c, g) : Breaks(c, r, dead)
  BY <1>1
<1>4. Target(DOMAIN c, r) \in dead /\ Target(DOMAIN c, r).space = g.space
  BY <1>1, <1>3, MemberRefFacts, BreaksTarget
<1> QED
  BY <1>1, <1>2, <1>4 DEF Ids, ObjectIds

(* What a smaller delete set empties, a larger one empties.                *)
LEMMA NewlyEmptyMonotone ==
    ASSUME NEW c, IsConfig(c), NEW some, NEW more, some \subseteq more,
           NEW g \in NewlyEmptyGroups(c, some), g \notin more
    PROVE  g \in NewlyEmptyGroups(c, more)
<1>1. /\ g \in DOMAIN c /\ c[g].kind \in {"address-group", "service-group"}
      /\ MemberRefs(c, g) # {}
      /\ \A r \in MemberRefs(c, g) : Breaks(c, r, some)
  BY DEF NewlyEmptyGroups
<1>2. \A r \in MemberRefs(c, g) : Breaks(c, r, more)
  BY <1>1, MemberRefFacts, BreaksMonotone
<1> QED
  BY <1>1, <1>2 DEF NewlyEmptyGroups
-----------------------------------------------------------------------------
(* The lists a rule's next parse may read as "any", and what a plan leaves *)
(* in the lists of a survivor.                                             *)
LEMMA AnyFieldFacts ==
    \A k : /\ AnyFields(k) \subseteq Fields
           /\ AnyFields(k) \subseteq {"source", "destination", "service", "application"}
           /\ k \notin RuleSpaces => AnyFields(k) = {}
BY Zenon DEF AnyFields, Fields, RuleSpaces

LEMMA ReadBackList ==
    ASSUME NEW cfg, IsConfig(cfg), NEW i \in DOMAIN cfg, NEW f \in Fields
    PROVE  \/ /\ f \in AnyFields(cfg[i].kind) /\ cfg[i].fields[f] = {}
              /\ ReadBack(cfg)[i].fields[f] = {AnyName}
           \/ /\ f \notin AnyFields(cfg[i].kind) \/ cfg[i].fields[f] # {}
              /\ ReadBack(cfg)[i].fields[f] = cfg[i].fields[f]
BY ReadBackShape

(* The lists of a survivor: as written, and read back.                     *)
LEMMA SurvivorList ==
    ASSUME NEW c, NEW cm, NEW dead, Planning(c, cm, dead),
           NEW p, p = PlanTeardown(c, cm, dead),
           NEW i \in DOMAIN Apply(c, p), NEW f \in Fields
    PROVE  /\ i \in DOMAIN c /\ i \notin p.ruleDeletes \cup p.deletes
           /\ \/ /\ f \in AnyFields(c[i].kind) /\ NewList(c, p.edits, i, f) = {}
                 /\ Apply(c, p)[i].fields[f] = {AnyName}
              \/ /\ f \notin AnyFields(c[i].kind) \/ NewList(c, p.edits, i, f) # {}
                 /\ Apply(c, p)[i].fields[f] = NewList(c, p.edits, i, f)
<1> DEFINE edited == Edited(c, p.edits)
           left == Without(edited, p.ruleDeletes \cup p.deletes)
<1>1. /\ DOMAIN p.upserts = {} /\ DOMAIN p.renames = {}
      /\ \A k \in DOMAIN p.edits : p.edits[k] \in SUBSET Members
  BY PlanShape, DraftShape
<1>3. Apply(c, p) = ReadBack(left)
  BY <1>1, ApplyEdits DEF Planning
<1>4. /\ IsConfig(edited) /\ DOMAIN edited = DOMAIN c
      /\ \A j \in DOMAIN c : /\ edited[j].kind = c[j].kind
                             /\ edited[j].fields[f] = NewList(c, p.edits, j, f)
  BY <1>1, EditedShape DEF Planning
<1> HIDE DEF edited
<1>5. /\ IsConfig(left) /\ DOMAIN left = DOMAIN edited \ (p.ruleDeletes \cup p.deletes)
      /\ \A j \in DOMAIN edited \ (p.ruleDeletes \cup p.deletes) : left[j] = edited[j]
  BY <1>4, WithoutShape
<1> HIDE DEF left
<1>6. i \in DOMAIN left
  BY <1>3, <1>5, ReadBackShape
<1>7. left[i].kind = c[i].kind /\ left[i].fields[f] = NewList(c, p.edits, i, f)
  BY <1>4, <1>5, <1>6
<1>8. \/ /\ f \in AnyFields(left[i].kind) /\ left[i].fields[f] = {}
         /\ ReadBack(left)[i].fields[f] = {AnyName}
      \/ /\ f \notin AnyFields(left[i].kind) \/ left[i].fields[f] # {}
         /\ ReadBack(left)[i].fields[f] = left[i].fields[f]
  BY <1>5, <1>6, ReadBackList
<1> QED
  BY <1>3, <1>4, <1>5, <1>6, <1>7, <1>8

(* A field that "any" may fill is written by the edit of that very field,  *)
(* which only takes names out of it.                                       *)
LEMMA AnyFieldList ==
    ASSUME NEW c, NEW cm, NEW dead, Planning(c, cm, dead),
           NEW i \in DOMAIN c, NEW f \in AnyFields(c[i].kind)
    PROVE  LET p == PlanTeardown(c, cm, dead) IN
           \/ NewList(c, p.edits, i, f) = c[i].fields[f]
           \/ /\ <<i, f>> \in DOMAIN p.edits /\ Mappable(c[i].kind, f)
              /\ f \in Walked(c[i].kind)
              /\ NewList(c, p.edits, i, f) = p.edits[<<i, f>>]
              /\ p.edits[<<i, f>>] \subseteq c[i].fields[f]
<1> DEFINE p == PlanTeardown(c, cm, dead)
           edits == ScrubEdits(c, cm, Touched(c, cm, dead))
<1>1. /\ DOMAIN p.edits \subseteq DOMAIN edits
      /\ \A k \in DOMAIN p.edits : p.edits[k] = edits[k]
  BY PlanShape, DraftShape
<1>2. c[i].kind \in RuleSpaces /\ f # "tag"
  BY AnyFieldFacts
<1>3. ASSUME NEW k \in Writers(c, p.edits, i, f)
      PROVE  k = <<i, f>> /\ k \in DOMAIN p.edits /\ Mappable(c[i].kind, f) /\ f \in Walked(c[i].kind)
  <2>1. k \in DOMAIN p.edits /\ k[1] = i /\ Mappable(c[i].kind, k[2]) /\ Leaf(c[i].kind, k[2]) = f
    BY DEF Writers
  <2>2. k[2] = f
    BY <1>2, <2>1, LeafFacts
  <2>3. PICK r \in Touched(c, cm, dead) : k = <<r.by, r.field>>
    BY <1>1, <2>1, TouchedRefs, ScrubEditsShape DEF Planning
  <2>4. r.by = i /\ r.field = f
    BY <2>1, <2>2, <2>3
  <2>5. r.field \in Walked(c[r.by].kind)
    BY TouchedRefs, RefsType DEF Planning
  <2> QED
    BY <2>1, <2>2, <2>3, <2>4, <2>5
<1>4. \A k \in DOMAIN edits : edits[k] \subseteq c[k[1]].fields[k[2]]
  BY TouchedRefs, ScrubEditsShape DEF Planning
<1> HIDE DEF p, edits
<1>5. CASE Writers(c, p.edits, i, f) = {}
  BY <1>5 DEF NewList, p
<1>6. CASE Writers(c, p.edits, i, f) # {}
  <2>1. Writers(c, p.edits, i, f) = {<<i, f>>}
    BY <1>3, <1>6
  <2>2. (CHOOSE k \in Writers(c, p.edits, i, f) : TRUE) = <<i, f>>
    BY <2>1
  <2>3. NewList(c, p.edits, i, f) = p.edits[<<i, f>>]
    BY <1>6, <2>2 DEF NewList
  <2> DEFINE k == <<i, f>>
  <2>4. k[1] = i /\ k[2] = f /\ k \in DOMAIN p.edits
    BY <1>3, <2>1
  <2> HIDE DEF k
  <2>5. p.edits[k] \subseteq c[i].fields[f]
    BY <1>1, <1>4, <2>4
  <2> QED
    BY <1>3, <2>1, <2>3, <2>5 DEF p, k
<1> QED
  BY <1>5, <1>6

(* A list that a scrub empties is a required field of its rule.            *)
LEMMA EmptiedOrphans ==
    ASSUME NEW c, NEW cm, NEW dead, Planning(c, cm, dead), ~cm.keepRules,
           cm.op \in {"decommission", "purge"},
           cm.op = "decommission" => \A g \in dead : g.space = "address",
           NEW i \in DOMAIN c, NEW f \in AnyFields(c[i].kind),
           <<i, f>> \in DOMAIN PlanTeardown(c, cm, dead).edits,
           PlanTeardown(c, cm, dead).edits[<<i, f>>] = {}
    PROVE  i \in PlanTeardown(c, cm, dead).ruleDeletes
<1> DEFINE p == PlanTeardown(c, cm, dead)
           d == Draft(c, cm, dead)
           edits == ScrubEdits(c, cm, Touched(c, cm, dead))
           k == <<i, f>>
<1>1. p.edits = d.edits /\ p.ruleDeletes = d.ruleDeletes
  BY PlanShape
<1>2. k \in DOMAIN edits /\ edits[k] = {}
  BY <1>1, DraftShape
<1>3. d.ruleDeletes = IF cm.keepRules THEN {} ELSE Orphaned(c, cm, edits)
  <2> HIDE DEF edits
  <2> QED
    BY DEF Draft, EmptyPlan, edits
<1>4. k[1] = i /\ k[2] = f
  OBVIOUS
<1>5. PICK r \in Touched(c, cm, dead) : r.by = i /\ r.field = f
  BY <1>2, TouchedRefs, ScrubEditsShape DEF Planning
<1>6. c[i].kind \in RuleSpaces /\ f \in {"source", "destination", "service", "application"}
  BY AnyFieldFacts
<1>7. f \in RequiredFields(cm.op)
  <2>1. CASE cm.op = "purge"
    BY <1>6, <2>1 DEF RequiredFields
  <2>2. CASE cm.op = "decommission"
    <3>1. Target(DOMAIN c, r) \in dead /\ r \in Refs(c)
      BY DEF Touched, RefsInto
    <3>2. Target(DOMAIN c, r) # Nil
      BY <3>1, NamesAssumption DEF Planning, ObjectIds, Ids, Spaces
    <3>3. Target(DOMAIN c, r).space = NsOf(f)
      BY <1>5, <3>1, <3>2, RefsType, ResolveProperties DEF Target, Planning
    <3>4. NsOf(f) = "address"
      BY <2>2, <3>1, <3>3
    <3>5. f # "service"
      BY <3>4, NsOfFacts
    <3>6. f # "application"
      BY <1>5, <3>1, RefsType, WalkedFacts, <1>6 DEF Planning, RuleSpaces
    <3> QED
      BY <1>6, <2>2, <3>5, <3>6 DEF RequiredFields
  <2> QED
    BY <2>1, <2>2
<1> HIDE DEF k, edits
<1>8. i \in Orphaned(c, cm, edits)
  BY <1>2, <1>4, <1>6, <1>7 DEF Orphaned
<1> QED
  BY <1>1, <1>3, <1>8

(* A reference-bearing list no planner edits: filters, and the tags of an  *)
(* address.                                                                *)
LEMMA UneditedList ==
    ASSUME NEW c, NEW cm, NEW dead, Planning(c, cm, dead),
           NEW i \in DOMAIN Apply(c, PlanTeardown(c, cm, dead)), NEW f \in Fields,
           \/ c[i].kind = "dynamic-group" /\ f # "static"
           \/ c[i].kind = "address"
    PROVE  i \in DOMAIN c /\ Apply(c, PlanTeardown(c, cm, dead))[i].fields[f] = c[i].fields[f]
<1> DEFINE p == PlanTeardown(c, cm, dead)
<1>1. Writers(c, p.edits, i, f) = {}
  BY LeafFacts DEF Writers, Mappable
<1>2. AnyFields(c[i].kind) = {}
  BY AnyFieldFacts DEF RuleSpaces
<1>3. i \in DOMAIN c
  BY SurvivorList
<1>4. NewList(c, p.edits, i, f) = c[i].fields[f]
  BY <1>1 DEF NewList
<1> QED
  BY <1>2, <1>3, <1>4, SurvivorList

-----------------------------------------------------------------------------
(* The groups a cascade may take: the ones whose members are written out.  *)
Emptiable(c) == {g \in DOMAIN c : c[g].kind \in {"address-group", "service-group"}}

LEMMA EmptiableFacts ==
    ASSUME NEW c, IsConfig(c), NEW cm \in Commands
    PROVE  /\ Matched(c, cm) \subseteq DOMAIN c /\ Matched(c, cm) \subseteq ObjectIds
           /\ Matched(c, cm) \subseteq cm.targets
           /\ Emptiable(c) \subseteq ObjectIds /\ Emptiable(c) \subseteq DOMAIN c
<1>1. Matched(c, cm) \subseteq DOMAIN c /\ Matched(c, cm) \subseteq ObjectIds
      /\ Matched(c, cm) \subseteq cm.targets
  BY DEF Matched, Commands
<1>2. ASSUME NEW g \in Emptiable(c) PROVE g \in ObjectIds /\ g \in DOMAIN c
  <2>1. g \in Ids /\ g.space \in {"address", "service"} /\ g \in DOMAIN c
    BY ConfigEntry, SpaceOfFacts DEF Emptiable
  <2> QED
    BY <2>1 DEF Ids, ObjectIds, ObjectSpaces
<1> QED
  BY <1>1, <1>2

(* The cascade is the least set of the targets and groups that leaves no   *)
(* group emptied.                                                          *)
LEMMA CascadeLeast ==
    ASSUME NEW c, IsConfig(c), NEW cm \in Commands, ~cm.keepGroups
    PROVE  /\ \E gs \in SUBSET Emptiable(c) : Cascade(c, cm) = Matched(c, cm) \cup gs
           /\ NewlyEmptyGroups(c, Cascade(c, cm)) = {}
           /\ \A gs \in SUBSET Emptiable(c) :
                 NewlyEmptyGroups(c, Matched(c, cm) \cup gs) = {} => Cascade(c, cm) \subseteq Matched(c, cm) \cup gs
<1> DEFINE groups == Emptiable(c)
           closed == {Matched(c, cm) \cup gs : gs \in SUBSET groups}
           done(s) == NewlyEmptyGroups(c, s) = {}
           all == Matched(c, cm) \cup groups
           least == {g \in all : \A t \in closed : done(t) => g \in t}
<1>1. \A s : NewlyEmptyGroups(c, s) \subseteq groups
  BY DEF NewlyEmptyGroups, Emptiable
<1>2. Cascade(c, cm) = CHOOSE s \in closed : done(s) /\ \A t \in closed : done(t) => s \subseteq t
  BY DEF Cascade, Emptiable
<1> HIDE DEF groups
<1>3. all \in closed /\ done(all)
  BY <1>1 DEF NewlyEmptyGroups
<1>4. least \in closed /\ Matched(c, cm) \subseteq least
  <2>1. Matched(c, cm) \subseteq least
    OBVIOUS
  <2>2. least = Matched(c, cm) \cup (least \cap groups)
    BY <2>1
  <2> QED
    BY <2>1, <2>2
<1>5. \A t \in closed : done(t) => least \subseteq t
  OBVIOUS
<1>6. done(least)
  <2> SUFFICES ASSUME NEW g \in NewlyEmptyGroups(c, least) PROVE FALSE
    OBVIOUS
  <2>1. g \in all /\ g \notin least
    BY <1>1 DEF NewlyEmptyGroups
  <2>2. PICK t \in closed : done(t) /\ g \notin t
    BY <2>1
  <2>3. least \subseteq t
    BY <1>5, <2>2
  <2> HIDE DEF least, closed, all
  <2>4. g \in NewlyEmptyGroups(c, t)
    BY <2>2, <2>3, NewlyEmptyMonotone
  <2> QED
    BY <2>2, <2>4
<1>7. ASSUME NEW s \in closed, done(s), \A t \in closed : done(t) => s \subseteq t
      PROVE  s = least
  BY <1>4, <1>5, <1>6, <1>7
<1> HIDE DEF least, closed, done
<1>8. Cascade(c, cm) = least
  BY <1>2, <1>4, <1>5, <1>6, <1>7
<1>9. /\ Cascade(c, cm) \in closed /\ done(Cascade(c, cm))
      /\ \A t \in closed : done(t) => Cascade(c, cm) \subseteq t
  BY <1>4, <1>5, <1>6, <1>8
<1> QED
  BY <1>9 DEF closed, done, groups

(* A planner run to its end collects existing objects, and a decommission  *)
(* of addresses nothing but the address namespace.                         *)
LEMMA CascadeFacts ==
    ASSUME NEW c, IsConfig(c), NEW cm \in Commands
    PROVE  /\ Planning(c, cm, Cascade(c, cm))
           /\ (\A t \in cm.targets : t.space = "address")
                => \A g \in Cascade(c, cm) : g.space = "address"
<1> DEFINE dead == Cascade(c, cm)
           near == {g \in dead : g.space = "address"}
<1>1. /\ Matched(c, cm) \subseteq DOMAIN c /\ Matched(c, cm) \subseteq ObjectIds
      /\ Matched(c, cm) \subseteq cm.targets
      /\ Emptiable(c) \subseteq ObjectIds /\ Emptiable(c) \subseteq DOMAIN c
  BY EmptiableFacts
<1>2. cm.keepGroups => dead = Matched(c, cm)
  BY DEF Cascade
<1>3. cm.keepGroups \in BOOLEAN
  BY DEF Commands
<1> HIDE DEF dead
<1>4. ~cm.keepGroups =>
        /\ \E gs \in SUBSET Emptiable(c) : dead = Matched(c, cm) \cup gs
        /\ NewlyEmptyGroups(c, dead) = {}
        /\ \A gs \in SUBSET Emptiable(c) :
              NewlyEmptyGroups(c, Matched(c, cm) \cup gs) = {} => dead \subseteq Matched(c, cm) \cup gs
  BY CascadeLeast DEF dead
<1>5. Planning(c, cm, dead)
  BY <1>1, <1>2, <1>4 DEF Planning
<1>6. ASSUME \A t \in cm.targets : t.space = "address", ~cm.keepGroups PROVE dead \subseteq near
  <2>1. PICK gs \in SUBSET Emptiable(c) : dead = Matched(c, cm) \cup gs
    BY <1>4, <1>6
  <2>2. near = Matched(c, cm) \cup (near \cap gs)
    BY <1>1, <1>6, <2>1
  <2>3. NewlyEmptyGroups(c, near) = {}
    <3> SUFFICES ASSUME NEW g \in NewlyEmptyGroups(c, near) PROVE FALSE
      OBVIOUS
    <3>1. PICK t \in near : t.space = g.space
      BY NewlyEmptyFacts
    <3>2. g \notin near
      BY DEF NewlyEmptyGroups
    <3>3. g \notin dead
      BY <3>1, <3>2
    <3> HIDE DEF near
    <3>4. g \in NewlyEmptyGroups(c, dead)
      <4>1. near \subseteq dead
        BY DEF near
      <4> QED
        BY <3>3, <4>1, NewlyEmptyMonotone
    <3> QED
      BY <3>4, <1>4, <1>6
  <2> HIDE DEF near
  <2>4. near \cap gs \in SUBSET Emptiable(c)
    BY <2>1
  <2> QED
    BY <2>2, <2>3, <2>4, <1>4, <1>6
<1>7. ASSUME \A t \in cm.targets : t.space = "address", cm.keepGroups
      PROVE  \A g \in dead : g.space = "address"
  BY <1>1, <1>2, <1>7
<1> QED
  BY <1>3, <1>5, <1>6, <1>7 DEF dead

-----------------------------------------------------------------------------
(* Every planner plans over well-formed data.                              *)

(* A group made of picked objects is an entry of their namespace.          *)
LEMMA GroupEntry ==
    ASSUME NEW picks \in SUBSET ObjectIds, NEW i \in ObjectIds, i.space # "tag",
           {p.space : p \in picks} = {i.space}
    PROVE  GroupOf(picks, {}) \in Entry /\ SpaceOf(GroupOf(picks, {}).kind) = i.space
<1> DEFINE kind == IF \A p \in picks : p.space = "address" THEN "address-group" ELSE "service-group"
           lists == [NoFields EXCEPT ![Leaf(kind, "members")] = {p.name : p \in picks}, !["tag"] = {}]
<1>1. kind = IF i.space = "address" THEN "address-group" ELSE "service-group"
  OBVIOUS
<1>2. i.space \in {"address", "service"}
  BY DEF ObjectIds, ObjectSpaces
<1>3. kind \in Kinds /\ SpaceOf(kind) = i.space
  BY <1>1, <1>2, SpaceOfFacts DEF Kinds
<1>4. {p.name : p \in picks} \subseteq Members
  BY DEF ObjectIds, Members
<1> HIDE DEF kind
<1>5. lists \in [Fields -> SUBSET Members]
  BY <1>4 DEF NoFields
<1>6. GroupOf(picks, {}) = [kind |-> kind, value |-> Nil, fields |-> lists]
  BY DEF GroupOf, kind
<1> HIDE DEF lists
<1> QED
  BY <1>3, <1>5, <1>6 DEF Entry

(* A refusal, a plan that does nothing, a plan with one entry or one list. *)
LEMMA SimplePlans ==
    /\ IsPlan(EmptyPlan) /\ IsPlan(Refusal) /\ Refusal.blocked
    /\ \A i \in Ids, e \in Entry : SpaceOf(e.kind) = i.space => IsPlan(Putting(i, e))
    /\ \A i, f : \A m \in SUBSET Members : IsPlan(Editing(i, f, m))
<1>1. IsPlan(EmptyPlan)
  BY DEF IsPlan, EmptyPlan
<1>2. IsPlan(Refusal) /\ Refusal.blocked
  BY DEF IsPlan, EmptyPlan, Refusal
<1>3. ASSUME NEW i \in Ids, NEW e \in Entry, SpaceOf(e.kind) = i.space
      PROVE  IsPlan(Putting(i, e))
  <2>1. /\ Putting(i, e).upserts = [j \in {i} |-> e] /\ DOMAIN Putting(i, e).edits = {}
        /\ DOMAIN Putting(i, e).renames = {}
    BY DEF Putting, EmptyPlan
  <2> QED
    BY <1>3, <2>1 DEF IsPlan
<1>4. ASSUME NEW i, NEW f, NEW m \in SUBSET Members PROVE IsPlan(Editing(i, f, m))
  <2>1. /\ Editing(i, f, m).edits = [k \in {<<i, f>>} |-> m] /\ DOMAIN Editing(i, f, m).upserts = {}
        /\ DOMAIN Editing(i, f, m).renames = {}
    BY DEF Editing, EmptyPlan
  <2> QED
    BY <2>1 DEF IsPlan
<1> QED
  BY <1>1, <1>2, <1>3, <1>4

LEMMA PutPlan ==
    ASSUME NEW c, NEW i \in Ids, NEW e \in Entry, SpaceOf(e.kind) = i.space
    PROVE  IsPlan(PlanPut(c, i, e))
BY SimplePlans DEF PlanPut

LEMMA GroupCreatePlan ==
    ASSUME NEW c, NEW i \in ObjectIds, i.space # "tag", NEW picks \in SUBSET ObjectIds
    PROVE  IsPlan(PlanGroupCreate(c, i, picks, {}))
<1>1. {p.space : p \in picks} # {i.space} => PlanGroupCreate(c, i, picks, {}) = Refusal
  BY DEF PlanGroupCreate
<1>2. \/ PlanGroupCreate(c, i, picks, {}) = Refusal
      \/ PlanGroupCreate(c, i, picks, {}) = Putting(i, GroupOf(picks, {}))
  BY DEF PlanGroupCreate
<1>3. i \in Ids
  BY DEF ObjectIds, Ids, Spaces
<1> QED
  BY <1>1, <1>2, <1>3, GroupEntry, SimplePlans

LEMMA RewritePlan ==
    ASSUME NEW c, IsConfig(c), NEW i \in DOMAIN c, NEW f, NEW leaf \in Fields,
           NEW op, NEW m \in Members
    PROVE  IsPlan(PlanRewrite(c, i, f, leaf, op, m))
<1>1. c[i].fields[leaf] \in SUBSET Members
  BY ConfigEntry
<1>2. Rewritten(c[i].fields[leaf], op, m) \in SUBSET Members
  BY <1>1 DEF Rewritten
<1> QED
  BY <1>2, SimplePlans DEF PlanRewrite

LEMMA GroupMemberPlan ==
    ASSUME NEW c, IsConfig(c), NEW name, NEW locs, NEW op, NEW m \in Members
    PROVE  IsPlan(PlanGroupMemberEdit(c, name, locs, op, m))
<1> DEFINE groups == {i \in DOMAIN c : i.name = name /\ i.loc \in locs /\ c[i].kind \in GroupKinds}
           g == CHOOSE i \in groups : TRUE
           p == PlanGroupMemberEdit(c, name, locs, op, m)
<1>1. p = Refusal \/ ( /\ Cardinality(groups) = 1 /\ c[g].kind # "dynamic-group"
                       /\ p = PlanRewrite(c, g, "members", Leaf(c[g].kind, "members"), op, m) )
  BY DEF PlanGroupMemberEdit
<1>2. CASE p = Refusal
  BY <1>2, SimplePlans
<1>3. CASE /\ Cardinality(groups) = 1 /\ c[g].kind # "dynamic-group"
           /\ p = PlanRewrite(c, g, "members", Leaf(c[g].kind, "members"), op, m)
  <2>1. groups # {}
    <3> HIDE DEF groups
    <3> QED
      BY <1>3, FS_EmptySet
  <2>2. g \in DOMAIN c /\ c[g].kind \in {"address-group", "service-group"}
    BY <1>3, <2>1 DEF GroupKinds
  <2> HIDE DEF g, p
  <2>3. Leaf(c[g].kind, "members") \in Fields
    BY <2>2, LeafFacts DEF Fields
  <2> QED
    BY <1>3, <2>2, <2>3, RewritePlan DEF p
<1> QED
  BY <1>1, <1>2, <1>3

LEMMA RuleMemberPlan ==
    ASSUME NEW c, IsConfig(c), NEW name, NEW locs, NEW field, NEW op, NEW m \in Members
    PROVE  IsPlan(PlanRuleMemberEdit(c, name, locs, field, op, m))
<1> DEFINE rules == {i \in DOMAIN c : i.name = name /\ i.loc \in locs /\ i.space \in RuleSpaces}
           rule == FirstRule(rules)
           p == PlanRuleMemberEdit(c, name, locs, field, op, m)
<1>1. p = Refusal \/ ( /\ field \in EditableFields /\ Cardinality({i.loc : i \in rules}) = 1
                       /\ p = PlanRewrite(c, rule, field, field, op, m) )
  BY DEF PlanRuleMemberEdit
<1>2. CASE p = Refusal
  BY <1>2, SimplePlans
<1>3. CASE /\ field \in EditableFields /\ Cardinality({i.loc : i \in rules}) = 1
           /\ p = PlanRewrite(c, rule, field, field, op, m)
  <2>1. rules # {}
    <3> HIDE DEF rules
    <3>1. rules = {} => {i.loc : i \in rules} = {}
      OBVIOUS
    <3> QED
      BY <1>3, <3>1, FS_EmptySet
  <2>2. rule \in rules
    <3> HIDE DEF rules
    <3> QED
      BY <2>1 DEF FirstRule
  <2>3. field \in Fields
    BY <1>3 DEF EditableFields, Fields
  <2>4. rule \in DOMAIN c
    BY <2>2
  <2> HIDE DEF rule, p
  <2> QED
    BY <1>3, <2>3, <2>4, RewritePlan DEF p
<1> QED
  BY <1>1, <1>2, <1>3

LEMMA TeardownPlan ==
    ASSUME NEW c, IsConfig(c), NEW cm \in Commands
    PROVE  IsPlan(PlanTeardown(c, cm, Cascade(c, cm)))
<1> DEFINE p == PlanTeardown(c, cm, Cascade(c, cm))
<1>1. /\ DOMAIN p.upserts = {} /\ DOMAIN p.renames = {}
      /\ \A k \in DOMAIN p.edits : p.edits[k] \in SUBSET Members
  BY CascadeFacts, PlanShape, DraftShape
<1> QED
  BY <1>1 DEF IsPlan

-----------------------------------------------------------------------------
(* Sequences without duplicates.                                           *)

(* The empty sequence repeats nothing.                                     *)
LEMMA EmptyDistinct ==
    ASSUME NEW S
    PROVE  <<>> \in Seq(S) /\ IsInjective(<<>>) /\ ToSet(<<>>) = {}
BY DEF IsInjective, ToSet

(* An element that is not in the sequence can be appended.                 *)
LEMMA AppendDistinct ==
    ASSUME NEW S, NEW s \in Seq(S), IsInjective(s), NEW c \in S, c \notin ToSet(s)
    PROVE  /\ Append(s, c) \in Seq(S) /\ IsInjective(Append(s, c))
           /\ ToSet(Append(s, c)) = ToSet(s) \cup {c}
<1> DEFINE t == Append(s, c)
<1>1. /\ t \in Seq(S) /\ Len(t) = Len(s) + 1 /\ t[Len(s) + 1] = c
      /\ \A i \in 1 .. Len(s) : t[i] = s[i]
  BY AppendProperties
<1>2. DOMAIN s = 1 .. Len(s) /\ DOMAIN t = 1 .. Len(s) + 1 /\ Len(s) \in Nat
  BY <1>1
<1>3. \A i \in 1 .. Len(s) : s[i] # c
  BY <1>2 DEF ToSet
<1> HIDE DEF t
<1>4. IsInjective(t)
  <2> SUFFICES ASSUME NEW a \in DOMAIN t, NEW b \in DOMAIN t, t[a] = t[b] PROVE a = b
    BY DEF IsInjective
  <2>1. a \in 1 .. Len(s) \/ a = Len(s) + 1
    BY <1>2
  <2>2. b \in 1 .. Len(s) \/ b = Len(s) + 1
    BY <1>2
  <2> QED
    BY <2>1, <2>2, <1>1, <1>2, <1>3 DEF IsInjective
<1>5. ToSet(t) = ToSet(s) \cup {c}
  <2>1. DOMAIN t = (1 .. Len(s)) \cup {Len(s) + 1}
    BY <1>2
  <2> QED
    BY <2>1, <1>1, <1>2 DEF ToSet
<1> QED
  BY <1>1, <1>4, <1>5 DEF t

(* What is left where, once one element is removed.                        *)
LEMMA RemoveProperties ==
    ASSUME NEW S, NEW s \in Seq(S), NEW k \in DOMAIN s
    PROVE  /\ RemoveAt(s, k) \in Seq(S) /\ Len(RemoveAt(s, k)) = Len(s) - 1
           /\ \A i \in 1 .. Len(s) - 1 : RemoveAt(s, k)[i] = s[IF i < k THEN i ELSE i + 1]
<1> DEFINE head == SubSeq(s, 1, k - 1)
           tail == SubSeq(s, k + 1, Len(s))
           t == RemoveAt(s, k)
           from(i) == IF i < k THEN i ELSE i + 1
<1>1. DOMAIN s = 1 .. Len(s) /\ Len(s) \in Nat /\ k \in 1 .. Len(s)
      /\ \A i \in 1 .. Len(s) : s[i] \in S
  OBVIOUS
<1>2. head \in Seq(S) /\ Len(head) = k - 1 /\ \A i \in 1 .. k - 1 : head[i] = s[i]
  <2>1. 1 \in Int /\ k - 1 \in Int /\ \A i \in 1 .. k - 1 : s[i] \in S
    BY <1>1
  <2> QED
    BY <1>1, <2>1, SubSeqProperties
<1>3. tail \in Seq(S) /\ Len(tail) = Len(s) - k
      /\ \A i \in 1 .. Len(s) - k : tail[i] = s[k + i]
  <2>1. k + 1 \in Int /\ Len(s) \in Int /\ \A i \in k + 1 .. Len(s) : s[i] \in S
    BY <1>1
  <2>2. /\ tail \in Seq(S)
        /\ Len(tail) = IF k + 1 <= Len(s) THEN Len(s) - (k + 1) + 1 ELSE 0
        /\ \A i \in 1 .. Len(s) - (k + 1) + 1 : tail[i] = s[k + 1 + i - 1]
    BY <2>1, SubSeqProperties
  <2> QED
    BY <1>1, <2>2, SMTT(60)
<1> HIDE DEF head, tail
<1>4. t = head \o tail
  BY DEF RemoveAt, head, tail
<1>5. t \in Seq(S) /\ Len(t) = Len(s) - 1
      /\ \A i \in 1 .. Len(s) - 1 : t[i] = IF i <= k - 1 THEN head[i] ELSE tail[i - (k - 1)]
  <2>1. (k - 1) + (Len(s) - k) = Len(s) - 1
    BY <1>1
  <2> HIDE DEF t
  <2>2. t \in Seq(S) /\ Len(t) = Len(head) + Len(tail)
        /\ \A i \in 1 .. Len(head) + Len(tail) :
              t[i] = IF i <= Len(head) THEN head[i] ELSE tail[i - Len(head)]
    BY <1>2, <1>3, <1>4, ConcatProperties
  <2> QED
    BY <2>1, <2>2, <1>2, <1>3
<1> HIDE DEF t
<1>6. \A i \in 1 .. Len(s) - 1 : t[i] = s[from(i)]
  <2> TAKE i \in 1 .. Len(s) - 1
  <2>1. CASE i < k
    BY <2>1, <1>1, <1>2, <1>5
  <2>2. CASE ~(i < k)
    <3>1. i - (k - 1) \in 1 .. Len(s) - k /\ k + (i - (k - 1)) = i + 1
      BY <2>2, <1>1
    <3>2. t[i] = tail[i - (k - 1)]
      <4>1. ~(i <= k - 1)
        BY <2>2, <1>1
      <4> QED
        BY <4>1, <1>5
    <3>3. tail[i - (k - 1)] = s[i + 1]
      BY <3>1, <1>3
    <3> QED
      BY <2>2, <3>2, <3>3
  <2> QED
    BY <2>1, <2>2
<1> QED
  BY <1>5, <1>6 DEF t

(* Removing one element keeps the others, once each.                       *)
LEMMA RemoveDistinct ==
    ASSUME NEW S, NEW s \in Seq(S), IsInjective(s), NEW k \in DOMAIN s
    PROVE  /\ RemoveAt(s, k) \in Seq(S) /\ IsInjective(RemoveAt(s, k))
           /\ ToSet(RemoveAt(s, k)) = ToSet(s) \ {s[k]}
<1> DEFINE t == RemoveAt(s, k)
           from(i) == IF i < k THEN i ELSE i + 1
<1>1. DOMAIN s = 1 .. Len(s) /\ Len(s) \in Nat /\ k \in 1 .. Len(s)
  OBVIOUS
<1>2. t \in Seq(S) /\ Len(t) = Len(s) - 1
  BY RemoveProperties
<1>3. \A i \in 1 .. Len(s) - 1 : t[i] = s[from(i)]
  BY RemoveProperties
<1> HIDE DEF t
<1>4. DOMAIN t = 1 .. Len(s) - 1
  BY <1>2
<1>5. \A i \in 1 .. Len(s) - 1 : from(i) \in (1 .. Len(s)) \ {k}
  BY <1>1
<1>6. IsInjective(t)
  <2> SUFFICES ASSUME NEW a \in DOMAIN t, NEW b \in DOMAIN t, t[a] = t[b] PROVE a = b
    BY DEF IsInjective
  <2>1. a \in 1 .. Len(s) - 1 /\ b \in 1 .. Len(s) - 1
    BY <1>4
  <2>2. from(a) = from(b)
    BY <2>1, <1>1, <1>3, <1>5 DEF IsInjective
  <2> QED
    BY <2>1, <2>2, <1>1
<1>7. ToSet(t) = ToSet(s) \ {s[k]}
  <2>1. ASSUME NEW i \in DOMAIN t PROVE t[i] \in ToSet(s) \ {s[k]}
    <3>1. from(i) \in DOMAIN s /\ from(i) # k /\ t[i] = s[from(i)]
      BY <1>1, <1>3, <1>4, <1>5
    <3> HIDE DEF from
    <3> QED
      BY <3>1 DEF IsInjective, ToSet
  <2>2. ASSUME NEW j \in DOMAIN s, j # k PROVE s[j] \in ToSet(t)
    <3>1. \E i \in DOMAIN t : from(i) = j
      <4>1. CASE j < k
        BY <4>1, <1>1, <1>4
      <4>2. CASE j > k
        <5>1. j - 1 \in DOMAIN t /\ from(j - 1) = j
          BY <4>2, <1>1, <1>4
        <5> QED
          BY <5>1
      <4> QED
        BY <4>1, <4>2, <2>2, <1>1
    <3> HIDE DEF from
    <3> QED
      BY <3>1, <1>3, <1>4 DEF ToSet
  <2>3. ASSUME NEW c \in ToSet(s) \ {s[k]} PROVE c \in ToSet(t)
    <3>1. PICK j \in DOMAIN s : s[j] = c
      BY <2>3 DEF ToSet
    <3> QED
      BY <3>1, <2>2
  <2>4. ASSUME NEW c \in ToSet(t) PROVE c \in ToSet(s) \ {s[k]}
    <3>1. PICK i \in DOMAIN t : t[i] = c
      BY <2>4 DEF ToSet
    <3> QED
      BY <3>1, <2>1
  <2> QED
    BY <2>3, <2>4
<1> QED
  BY <1>2, <1>6, <1>7 DEF t
-----------------------------------------------------------------------------
(* The hierarchy.                                                          *)

(* The chain of a location on a chain is the rest of that chain.           *)
LEMMA ChainRest ==
    ASSUME NEW l \in Locs, NEW k \in DOMAIN Chain[l]
    PROVE  /\ Chain[l] \in Seq(Locs) /\ Chain[l][k] \in Locs
           /\ k \in 1 .. Len(Chain[l]) /\ Len(Chain[l]) \in Nat
           /\ Len(Chain[Chain[l][k]]) = Len(Chain[l]) - k + 1
           /\ DOMAIN Chain[Chain[l][k]] = 1 .. Len(Chain[l]) - k + 1
           /\ \A n \in 1 .. Len(Chain[l]) - k + 1 : Chain[Chain[l][k]][n] = Chain[l][k + n - 1]
<1> DEFINE s == Chain[l]
           t == Chain[s[k]]
<1>1. s \in Seq(Locs)
  BY ChainAssumption
<1>2. k \in 1 .. Len(s) /\ Len(s) \in Nat /\ \A i \in 1 .. Len(s) : s[i] \in Locs
  BY <1>1
<1>3. t = SubSeq(s, k, Len(s))
  BY BranchAssumption
<1>4. /\ Len(t) = IF k <= Len(s) THEN Len(s) - k + 1 ELSE 0
      /\ \A i \in 1 .. Len(s) - k + 1 : t[i] = s[k + i - 1]
      /\ t \in Seq(Locs)
  <2> HIDE DEF s, t
  <2>1. k \in Int /\ Len(s) \in Int /\ \A i \in k .. Len(s) : s[i] \in Locs
    BY <1>2
  <2> QED
    BY <1>3, <2>1, SubSeqProperties
<1> HIDE DEF s, t
<1>5. Len(t) = Len(s) - k + 1
  BY <1>2, <1>4
<1>6. DOMAIN t = 1 .. Len(s) - k + 1
  BY <1>4, <1>5
<1> QED
  BY <1>1, <1>2, <1>4, <1>5, <1>6 DEF s, t

(* A location sees itself and what the locations it sees see.              *)
LEMMA SeesFacts ==
    /\ \A l \in Locs : Sees(l, l)
    /\ \A low, high : low \in Locs /\ Sees(low, high) => high \in Locs
    /\ \A a, b, c : a \in Locs /\ Sees(a, b) /\ Sees(b, c) => Sees(a, c)
<1>1. \A l \in Locs : Sees(l, l)
  BY ChainSelfAssumption DEF Sees
<1>2. ASSUME NEW low \in Locs, NEW high, Sees(low, high) PROVE high \in Locs
  BY <1>2, ChainRest DEF Sees
<1>3. ASSUME NEW a \in Locs, NEW b, NEW c, Sees(a, b), Sees(b, c) PROVE Sees(a, c)
  <2>1. PICK k \in DOMAIN Chain[a] : Chain[a][k] = b
    BY <1>3 DEF Sees
  <2>2. PICK n \in DOMAIN Chain[b] : Chain[b][n] = c
    BY <1>3 DEF Sees
  <2>3. n \in 1 .. Len(Chain[a]) - k + 1 /\ c = Chain[a][k + n - 1]
    <3>1. /\ DOMAIN Chain[b] = 1 .. Len(Chain[a]) - k + 1
          /\ \A i \in 1 .. Len(Chain[a]) - k + 1 : Chain[b][i] = Chain[a][k + i - 1]
      BY <2>1, ChainRest
    <3> QED
      BY <2>2, <3>1
  <2>4. k + n - 1 \in 1 .. Len(Chain[a]) /\ DOMAIN Chain[a] = 1 .. Len(Chain[a])
    BY <2>3, ChainRest, SMTT(40)
  <2> QED
    BY <2>3, <2>4 DEF Sees
<1> QED
  BY <1>1, <1>2, <1>3

(* Of two locations in sight, the nearer one sees the other.               *)
LEMMA NearerSees ==
    ASSUME NEW l \in Locs, NEW k \in DOMAIN Chain[l], NEW n \in DOMAIN Chain[l], k <= n
    PROVE  Sees(Chain[l][k], Chain[l][n])
<1>1. n - k + 1 \in 1 .. Len(Chain[l]) - k + 1
  <2>1. k \in 1 .. Len(Chain[l]) /\ n \in 1 .. Len(Chain[l]) /\ Len(Chain[l]) \in Nat
    BY ChainRest
  <2> QED
    BY <2>1
<1>2. Chain[Chain[l][k]][n - k + 1] = Chain[l][k + (n - k + 1) - 1]
  BY <1>1, ChainRest
<1>3. k + (n - k + 1) - 1 = n
  BY ChainRest
<1>4. n - k + 1 \in DOMAIN Chain[Chain[l][k]]
  BY <1>1, ChainRest
<1> QED
  BY <1>2, <1>3, <1>4 DEF Sees

(* A location is in sight once.                                            *)
LEMMA SeenOnce ==
    ASSUME NEW l \in Locs, NEW k \in DOMAIN Chain[l], NEW n \in DOMAIN Chain[l],
           Chain[l][k] = Chain[l][n]
    PROVE  k = n
<1>1. Len(Chain[l]) - k + 1 = Len(Chain[l]) - n + 1
  BY ChainRest
<1>2. k \in Int /\ n \in Int /\ Len(Chain[l]) \in Int
  BY ChainRest
<1> QED
  BY <1>1, <1>2

(* What resolves is defined in sight, and what is defined in sight         *)
(* resolves.                                                               *)
LEMMA ResolveSeen ==
    ASSUME NEW live, NEW space \in Spaces, NEW name \in Names, NEW loc \in Locs
    PROVE  /\ \A l : Sees(loc, l) /\ Slot(space, name, l) \in live
                        => Resolve(live, space, name, loc) # Nil
           /\ Resolve(live, space, name, loc) # Nil
                => LET t == Resolve(live, space, name, loc)
                   IN  /\ t = Slot(space, name, t.loc) /\ t \in live /\ t \in Ids
                       /\ Sees(loc, t.loc) /\ t.loc \in Locs
<1>1. ASSUME NEW l, Sees(loc, l), Slot(space, name, l) \in live
      PROVE  Resolve(live, space, name, loc) # Nil
  BY <1>1, ResolveProperties DEF Sees
<1>2. ASSUME Resolve(live, space, name, loc) # Nil
      PROVE  LET t == Resolve(live, space, name, loc)
             IN  /\ t = Slot(space, name, t.loc) /\ t \in live /\ t \in Ids
                 /\ Sees(loc, t.loc) /\ t.loc \in Locs
  <2> DEFINE hits == {i \in DOMAIN Chain[loc] : Slot(space, name, Chain[loc][i]) \in live}
  <2>1. hits # {} /\ Resolve(live, space, name, loc) = Slot(space, name, Chain[loc][Min(hits)])
    BY <1>2 DEF Resolve
  <2>2. hits \in SUBSET Nat
    BY ChainAssumption
  <2>3. Min(hits) \in hits
    <3> HIDE DEF hits
    <3> QED
      BY <2>1, <2>2, MinProperties
  <2>4. Chain[loc][Min(hits)] \in Locs
    BY <2>3, ChainRest
  <2>5. Resolve(live, space, name, loc).loc = Chain[loc][Min(hits)]
    BY <2>1 DEF Slot
  <2> HIDE DEF hits
  <2>6. Sees(loc, Chain[loc][Min(hits)])
    BY <2>3 DEF Sees, hits
  <2>7. Resolve(live, space, name, loc) \in live /\ Resolve(live, space, name, loc) \in Ids
    BY <1>2, ResolveProperties
  <2> QED
    BY <2>1, <2>4, <2>5, <2>6, <2>7
<1> QED
  BY <1>1, <1>2

(* What a reference means is defined in sight of it, under its name.       *)
LEMMA TargetSeen ==
    ASSUME NEW c, IsConfig(c), NEW r \in Refs(c), NEW live, NEW t,
           t = Target(live, r), t # Nil
    PROVE  /\ t = Slot(NsOf(r.field), r.name, t.loc) /\ t \in live /\ t \in Ids
           /\ t.space = NsOf(r.field) /\ t.name = r.name /\ t.loc \in Locs
           /\ Sees(r.by.loc, t.loc)
<1>1. NsOf(r.field) \in Spaces /\ r.name \in Names /\ r.by.loc \in Locs
  BY RefsType
<1>2. /\ t = Slot(NsOf(r.field), r.name, t.loc) /\ t \in live /\ t \in Ids
      /\ Sees(r.by.loc, t.loc) /\ t.loc \in Locs
  BY <1>1, ResolveSeen DEF Target
<1>3. t.space = NsOf(r.field) /\ t.name = r.name
  BY <1>1, ResolveProperties DEF Target
<1> QED
  BY <1>2, <1>3

(* A definition in sight gives a reference a meaning.                      *)
LEMMA SeenTarget ==
    ASSUME NEW c, IsConfig(c), NEW r \in Refs(c), NEW live, NEW l,
           Sees(r.by.loc, l), Slot(NsOf(r.field), r.name, l) \in live
    PROVE  Target(live, r) # Nil
<1>1. NsOf(r.field) \in Spaces /\ r.name \in Names /\ r.by.loc \in Locs
  BY RefsType
<1> QED
  BY <1>1, ResolveSeen DEF Target

(* The definition that a name resolves to is the nearest one.              *)
LEMMA ResolveNearest ==
    ASSUME NEW live, NEW space \in Spaces, NEW name \in Names, NEW loc \in Locs,
           NEW l, Sees(loc, l), Slot(space, name, l) \in live,
           \A x : Sees(loc, x) /\ Slot(space, name, x) \in live /\ x # l => ~Sees(x, l)
    PROVE  Resolve(live, space, name, loc) = Slot(space, name, l)
<1> DEFINE hits == {i \in DOMAIN Chain[loc] : Slot(space, name, Chain[loc][i]) \in live}
<1>1. PICK k \in DOMAIN Chain[loc] : Chain[loc][k] = l
  BY DEF Sees
<1>2. k \in hits
  BY <1>1
<1>3. hits \in SUBSET Nat /\ hits \subseteq DOMAIN Chain[loc]
  BY ChainAssumption
<1>4. Resolve(live, space, name, loc) = Slot(space, name, Chain[loc][Min(hits)])
  BY <1>2 DEF Resolve
<1>5. Min(hits) \in hits /\ Min(hits) <= k
  <2> HIDE DEF hits
  <2> QED
    BY <1>2, <1>3, MinProperties
<1>6. Slot(space, name, Chain[loc][Min(hits)]) \in live /\ Min(hits) \in DOMAIN Chain[loc]
  BY <1>5
<1> HIDE DEF hits
<1>7. Sees(Chain[loc][Min(hits)], l)
  BY <1>1, <1>5, <1>6, NearerSees
<1>8. Sees(loc, Chain[loc][Min(hits)])
  BY <1>6 DEF Sees
<1> QED
  BY <1>4, <1>6, <1>7, <1>8
-----------------------------------------------------------------------------
(* Rewriting references.                                                   *)

(* The references that take another name.                                  *)
Repointed(s, renames) ==
    {r \in WhereUsed(s, DOMAIN renames) : renames[Target(DOMAIN s, r)] # r.name}

(* The ones in a list that both appliers can write.                        *)
WrittenRefs(s, renames) == {r \in Repointed(s, renames) : Mappable(s[r.by].kind, r.field)}

(* The name a reference has afterwards.                                    *)
NewName(s, renames, r) ==
    IF r \in WrittenRefs(s, renames) THEN renames[Target(DOMAIN s, r)] ELSE r.name

RefTo(i, f, n) == [by |-> i, field |-> f, name |-> n]

(* Every list is written under the field's own element.                    *)
Plain(s, renames) == \A r \in WrittenRefs(s, renames) : Leaf(s[r.by].kind, r.field) = r.field

(* What is rewritten is a reference to one of the objects.                 *)
LEMMA RepointedFacts ==
    ASSUME NEW s, IsConfig(s), NEW renames, NEW r \in Repointed(s, renames)
    PROVE  /\ r \in Refs(s) /\ r = RefTo(r.by, r.field, r.name)
           /\ r.by \in DOMAIN s /\ r.field \in Fields /\ r.name \in Names
           /\ Target(DOMAIN s, r) \in DOMAIN renames /\ renames[Target(DOMAIN s, r)] # r.name
<1>1. /\ r \in Refs(s) /\ Target(DOMAIN s, r) \in DOMAIN renames
      /\ renames[Target(DOMAIN s, r)] # r.name
  BY DEF Repointed, WhereUsed
<1>2. /\ r = [by |-> r.by, field |-> r.field, name |-> r.name]
      /\ r.by \in DOMAIN s /\ r.field \in Fields /\ r.name \in Names
  BY <1>1, RefsType
<1> QED
  BY <1>1, <1>2 DEF RefTo

(* The list of a reference afterwards: what was in it, by its new names.   *)
ListRenamed(s, renames, r) ==
    \A n : n \in Repoints(s, renames)[<<r.by, r.field>>]
              <=> \E m \in s[r.by].fields[Leaf(s[r.by].kind, r.field)] :
                      n = NewName(s, renames, RefTo(r.by, r.field, m))

(* Which lists are rewritten, and to what.                                 *)
LEMMA RepointsValue ==
    ASSUME NEW s, IsConfig(s), NEW renames, \A i \in DOMAIN renames : renames[i] \in Names
    PROVE  /\ \A k : k \in DOMAIN Repoints(s, renames)
                        <=> \E r \in Repointed(s, renames) : k = <<r.by, r.field>>
           /\ \A k \in DOMAIN Repoints(s, renames) : Repoints(s, renames)[k] \in SUBSET Members
           /\ \A r \in WrittenRefs(s, renames) : ListRenamed(s, renames, r)
<1> DEFINE refs == {r \in WhereUsed(s, DOMAIN renames) : renames[Target(DOMAIN s, r)] # r.name}
           ref(k, m) == [by |-> k[1], field |-> k[2], name |-> m]
           after(k, m) == IF ref(k, m) \in refs THEN renames[Target(DOMAIN s, ref(k, m))] ELSE m
           old(k) == UNION {FieldMembers(s, k[1], k[2], r.name) : r \in {x \in refs : <<x.by, x.field>> = k}}
           keys == {<<r.by, r.field>> : r \in refs}
           edits == Repoints(s, renames)
<1>1. edits = [k \in keys |-> {after(k, m) : m \in old(k)}]
  BY DEF Repoints
<1>2. refs = Repointed(s, renames)
  BY DEF Repointed
<1>3. \A i, f, m : Mappable(s[i].kind, f) => after(<<i, f>>, m) = NewName(s, renames, RefTo(i, f, m))
  BY <1>2 DEF NewName, RefTo, WrittenRefs
<1>4. ASSUME NEW r \in refs
      PROVE  /\ renames[Target(DOMAIN s, r)] \in Members
             /\ FieldMembers(s, r.by, r.field, r.name) \in SUBSET Members
  <2>1. /\ r.by \in DOMAIN s /\ r.field \in Fields /\ r.name \in Names
        /\ Target(DOMAIN s, r) \in DOMAIN renames
    BY <1>2, RepointedFacts
  <2>2. s[r.by].kind \in GroupKinds \cup RuleSpaces => Leaf(s[r.by].kind, r.field) \in Fields
    BY <2>1, LeafFacts DEF GroupKinds, Fields
  <2> QED
    BY <2>1, <2>2, ConfigEntry DEF FieldMembers, Members
<1>5. ASSUME NEW r \in refs, s[r.by].kind \in GroupKinds \cup RuleSpaces
      PROVE  old(<<r.by, r.field>>) = s[r.by].fields[Leaf(s[r.by].kind, r.field)]
  <2>1. \A x \in refs : <<x.by, x.field>> = <<r.by, r.field>>
            => FieldMembers(s, r.by, r.field, x.name) = s[r.by].fields[Leaf(s[r.by].kind, r.field)]
    BY <1>5 DEF FieldMembers
  <2> HIDE DEF refs
  <2> QED
    BY <2>1
<1>6. ASSUME NEW k \in keys PROVE edits[k] \in SUBSET Members
  <2> HIDE DEF refs
  <2>1. old(k) \in SUBSET Members
    BY <1>4
  <2>2. \A m \in Members : after(k, m) \in Members
    BY <1>4
  <2> HIDE DEF old, after
  <2> QED
    BY <1>1, <2>1, <2>2
<1>7. ASSUME NEW r \in refs, Mappable(s[r.by].kind, r.field), NEW n
      PROVE  n \in edits[<<r.by, r.field>>]
                <=> \E m \in s[r.by].fields[Leaf(s[r.by].kind, r.field)] :
                        n = NewName(s, renames, RefTo(r.by, r.field, m))
  <2>1. <<r.by, r.field>> \in keys
    OBVIOUS
  <2>2. old(<<r.by, r.field>>) = s[r.by].fields[Leaf(s[r.by].kind, r.field)]
    BY <1>5, <1>7 DEF Mappable, GroupKinds, RuleSpaces
  <2> HIDE DEF refs, old, after, keys
  <2> QED
    BY <1>1, <1>3, <1>7, <2>1, <2>2
<1>8. \A k : k \in DOMAIN edits <=> \E r \in refs : k = <<r.by, r.field>>
  <2> HIDE DEF after, old, refs
  <2> QED
    BY <1>1
<1> HIDE DEF refs, keys
<1>9. \A r \in WrittenRefs(s, renames) : ListRenamed(s, renames, r)
  BY <1>2, <1>7 DEF WrittenRefs, ListRenamed
<1> HIDE DEF edits
<1> QED
  BY <1>1, <1>2, <1>6, <1>8, <1>9 DEF edits

(* A walked list afterwards: every name in it stands for a name that was   *)
(* there, and every name that was there for one in it.                     *)
LEMMA RepointedList ==
    ASSUME NEW c, IsConfig(c), NEW s, IsConfig(s), DOMAIN c \subseteq DOMAIN s,
           \A x \in DOMAIN c : s[x] = c[x],
           NEW renames, \A x \in DOMAIN renames : renames[x] \in Names, Plain(s, renames),
           NEW i \in DOMAIN c, NEW f \in Fields
    PROVE  /\ \A n \in NewList(c, Repoints(s, renames), i, f) \cap Names :
                \E m \in c[i].fields[f] \cap Names : n = NewName(s, renames, RefTo(i, f, m))
           /\ \A m \in c[i].fields[f] :
                NewName(s, renames, RefTo(i, f, m)) \in NewList(c, Repoints(s, renames), i, f)
<1> DEFINE edits == Repoints(s, renames)
           new == NewList(c, edits, i, f)
           w == Writers(c, edits, i, f)
<1>1. \A m : m \notin Names => RefTo(i, f, m) \notin WrittenRefs(s, renames)
  BY RepointedFacts DEF RefTo, WrittenRefs
<1>2. \A m : m \notin Names => NewName(s, renames, RefTo(i, f, m)) = m
  BY <1>1 DEF NewName, RefTo
<1>3. \A k \in DOMAIN edits : \E r \in Repointed(s, renames) : k = <<r.by, r.field>>
  BY RepointsValue
<1>4. ASSUME NEW k \in w
      PROVE  k = <<i, f>> /\ k \in DOMAIN edits /\ \E r \in WrittenRefs(s, renames) : r.by = i /\ r.field = f
  <2>1. k \in DOMAIN edits /\ k[1] = i /\ Leaf(c[i].kind, k[2]) = f /\ Mappable(c[i].kind, k[2])
    BY DEF Writers
  <2>2. PICK r \in Repointed(s, renames) : k = <<r.by, r.field>>
    BY <1>3, <2>1
  <2>3. r.by = i /\ r \in WrittenRefs(s, renames)
    BY <2>1, <2>2 DEF WrittenRefs
  <2>4. Leaf(s[r.by].kind, r.field) = r.field
    BY <2>3 DEF Plain
  <2> QED
    BY <2>1, <2>2, <2>3, <2>4
<1>5. CASE w = {}
  <2>1. new = c[i].fields[f]
    BY <1>5 DEF NewList
  <2>2. ASSUME NEW m \in c[i].fields[f] PROVE RefTo(i, f, m) \notin WrittenRefs(s, renames)
    <3> SUFFICES ASSUME RefTo(i, f, m) \in WrittenRefs(s, renames) PROVE FALSE
      OBVIOUS
    <3>1. <<i, f>> \in DOMAIN edits
      BY RepointsValue DEF RefTo, WrittenRefs
    <3>2. Mappable(c[i].kind, f) /\ Leaf(c[i].kind, f) = f
      BY DEF Plain, RefTo, WrittenRefs
    <3> QED
      BY <1>5, <3>1, <3>2 DEF Writers
  <2>3. \A m \in c[i].fields[f] : NewName(s, renames, RefTo(i, f, m)) = m
    BY <2>2 DEF NewName, RefTo
  <2> QED
    BY <2>1, <2>3
<1>6. CASE w # {}
  <2>1. PICK r \in WrittenRefs(s, renames) : r.by = i /\ r.field = f
    BY <1>4, <1>6
  <2>2. Mappable(c[i].kind, f) /\ Leaf(c[i].kind, f) = f
    BY <2>1 DEF Plain, WrittenRefs
  <2>3. c[i].kind \in GroupKinds \cup RuleSpaces
    BY <2>2 DEF Mappable, GroupKinds, RuleSpaces
  <2>4. new = edits[<<i, f>>]
    <3>1. new = edits[CHOOSE k \in w : TRUE]
      BY <1>6 DEF NewList
    <3> HIDE DEF w
    <3> QED
      BY <1>4, <1>6, <3>1
  <2>5. \A n : n \in new <=> \E m \in c[i].fields[f] : n = NewName(s, renames, RefTo(i, f, m))
    <3>1. \A n : n \in edits[<<r.by, r.field>>]
                    <=> \E m \in s[r.by].fields[Leaf(s[r.by].kind, r.field)] :
                            n = NewName(s, renames, RefTo(r.by, r.field, m))
      <4>1. ListRenamed(s, renames, r)
        BY <2>1, RepointsValue
      <4> QED
        BY <4>1 DEF ListRenamed
    <3> HIDE DEF new, edits
    <3>2. s[r.by].fields[Leaf(s[r.by].kind, r.field)] = c[i].fields[f]
      BY <2>1, <2>2
    <3> QED
      BY <2>1, <2>4, <3>1, <3>2
  <2>6. c[i].fields[f] \in SUBSET Members
    BY ConfigEntry
  <2> HIDE DEF new
  <2>7. ASSUME NEW n \in new \cap Names
        PROVE  \E m \in c[i].fields[f] \cap Names : n = NewName(s, renames, RefTo(i, f, m))
    <3>1. PICK m \in c[i].fields[f] : n = NewName(s, renames, RefTo(i, f, m))
      BY <2>5
    <3> QED
      BY <1>2, <3>1
  <2> QED
    BY <2>5, <2>7 DEF new
<1> QED
  BY <1>5, <1>6
-----------------------------------------------------------------------------
(* The executor on the plans of these commands.                            *)

(* What only creates keeps what is there.                                  *)
LEMMA CreatedShape ==
    ASSUME NEW c, IsConfig(c), NEW p, IsPlan(p), DOMAIN p.upserts \cap DOMAIN c = {}
    PROVE  /\ IsConfig(Upserted(c, p.upserts))
           /\ DOMAIN Upserted(c, p.upserts) = DOMAIN c \cup DOMAIN p.upserts
           /\ \A i \in DOMAIN c : Upserted(c, p.upserts)[i] = c[i]
           /\ \A i \in DOMAIN p.upserts : Upserted(c, p.upserts)[i] = p.upserts[i]
<1>1. \A i \in DOMAIN c : i \notin DOMAIN p.upserts
  OBVIOUS
<1>2. /\ \A i \in DOMAIN c : Upserted(c, p.upserts)[i] = c[i]
      /\ \A i \in DOMAIN p.upserts : Upserted(c, p.upserts)[i] = p.upserts[i]
  BY <1>1 DEF Upserted
<1> QED
  BY <1>2, UpsertedShape

(* Creating, editing and deleting: the entries that are left have the      *)
(* lists the edits give them.                                              *)
LEMMA ReplacedShape ==
    ASSUME NEW c, IsConfig(c), NEW p, IsPlan(p), DOMAIN p.upserts \cap DOMAIN c = {},
           p.ruleDeletes = {}, DOMAIN p.renames = {}
    PROVE  LET u == Upserted(c, p.upserts)
           IN  /\ IsConfig(Apply(c, p))
               /\ DOMAIN Apply(c, p) = (DOMAIN c \cup DOMAIN p.upserts) \ p.deletes
               /\ \A i \in DOMAIN Apply(c, p) :
                    /\ Apply(c, p)[i].kind = u[i].kind
                    /\ \A f \in Fields :
                        Apply(c, p)[i].fields[f] \cap Names = NewList(u, p.edits, i, f) \cap Names
<1> DEFINE u == Upserted(c, p.upserts)
           e == Edited(u, p.edits)
           w == Without(e, p.deletes)
<1>1. IsConfig(u) /\ DOMAIN u = DOMAIN c \cup DOMAIN p.upserts
  BY UpsertedShape
<1> HIDE DEF u
<1>2. /\ IsConfig(e) /\ DOMAIN e = DOMAIN u
      /\ \A i \in DOMAIN u : /\ e[i].kind = u[i].kind
                             /\ \A f \in Fields : e[i].fields[f] = NewList(u, p.edits, i, f)
  <2>1. \A k \in DOMAIN p.edits : p.edits[k] \in SUBSET Members
    BY DEF IsPlan
  <2> QED
    BY <1>1, <2>1, EditedShape
<1> HIDE DEF e
<1>3. Without(e, {}) = e
  BY <1>2 DEF Without, IsConfig
<1>4. Renamed(e, p.renames) = e
  BY <1>2, RenamedNone DEF IsConfig
<1>5. /\ IsConfig(w) /\ DOMAIN w = DOMAIN e \ p.deletes
      /\ \A i \in DOMAIN e \ p.deletes : w[i] = e[i]
  BY <1>2, WithoutShape
<1>6. Apply(c, p) = ReadBack(w)
  BY <1>3, <1>4 DEF Apply, u, e
<1> HIDE DEF w
<1>7. /\ IsConfig(ReadBack(w)) /\ DOMAIN ReadBack(w) = DOMAIN w
      /\ \A i \in DOMAIN w :
            /\ ReadBack(w)[i].kind = w[i].kind
            /\ \A f \in Fields : ReadBack(w)[i].fields[f] \cap Names = w[i].fields[f] \cap Names
  BY <1>5, ReadBackShape, NamesAssumption
<1>8. \A i \in DOMAIN w : /\ w[i].kind = u[i].kind
                          /\ \A f \in Fields : w[i].fields[f] = NewList(u, p.edits, i, f)
  BY <1>2, <1>5
<1>9. DOMAIN w = (DOMAIN c \cup DOMAIN p.upserts) \ p.deletes
  BY <1>1, <1>2, <1>5
<1>10. \A i \in DOMAIN ReadBack(w) :
          /\ ReadBack(w)[i].kind = u[i].kind
          /\ \A f \in Fields :
              ReadBack(w)[i].fields[f] \cap Names = NewList(u, p.edits, i, f) \cap Names
  BY <1>7, <1>8
<1> QED
  BY <1>6, <1>7, <1>9, <1>10 DEF u

(* Renames of what is there, to names that are free where they are given.  *)
FreeRenames(c, renames) ==
    \A i \in DOMAIN renames :
        i \in DOMAIN c /\ renames[i] \in Names /\ Moved(renames, i) \notin DOMAIN c

(* No two objects become one.                                              *)
Apart(renames) ==
    \A i, k \in DOMAIN renames : Moved(renames, i) = Moved(renames, k) => i = k

(* Renaming: an entry under a name it had before is the entry it was, and  *)
(* every entry is one of those before.                                     *)
LEMMA RenamedPlanShape ==
    ASSUME NEW c, IsConfig(c), NEW p, IsPlan(p), DOMAIN p.upserts = {},
           p.ruleDeletes = {}, p.deletes = {}, FreeRenames(c, p.renames)
    PROVE  /\ IsConfig(Apply(c, p))
           /\ \A j : j \in DOMAIN Apply(c, p) <=> \E i \in DOMAIN c : j = Moved(p.renames, i)
           /\ \A j \in DOMAIN Apply(c, p) : \E i \in DOMAIN c :
                /\ j = Moved(p.renames, i) /\ (j \in DOMAIN c => i = j)
                /\ Apply(c, p)[j].kind = c[i].kind
                /\ \A f \in Fields :
                    Apply(c, p)[j].fields[f] \cap Names = NewList(c, p.edits, i, f) \cap Names
<1> DEFINE e == Edited(c, p.edits)
           moved(i) == Moved(p.renames, i)
           m == Renamed(e, p.renames)
           from(j) == CHOOSE i \in DOMAIN e : moved(i) = j
           ids == {moved(i) : i \in DOMAIN e}
<1>1. Upserted(c, p.upserts) = c
  BY UpsertedNone
<1>2. /\ IsConfig(e) /\ DOMAIN e = DOMAIN c
      /\ \A i \in DOMAIN c : /\ e[i].kind = c[i].kind
                             /\ \A f \in Fields : e[i].fields[f] = NewList(c, p.edits, i, f)
  <2>1. \A k \in DOMAIN p.edits : p.edits[k] \in SUBSET Members
    BY DEF IsPlan
  <2> QED
    BY <2>1, EditedShape
<1>3. \A i : moved(i) = Moved(p.renames, i)
  OBVIOUS
<1>4. m = [j \in ids |-> e[from(j)]]
  BY DEF Renamed
<1> HIDE DEF moved
<1>5. ASSUME NEW j \in ids PROVE from(j) \in DOMAIN c /\ Moved(p.renames, from(j)) = j
  BY <1>2, <1>3, <1>5
<1>6. \A j : j \in ids <=> \E i \in DOMAIN c : j = Moved(p.renames, i)
  BY <1>2, <1>3
<1> HIDE DEF from, ids, e
<1>7. IsConfig(m) /\ DOMAIN m = ids /\ \A j \in ids : m[j] = e[from(j)]
  BY <1>2, <1>4, RenamedShape DEF IsPlan
<1>8. ASSUME NEW j \in ids, j \in DOMAIN c PROVE from(j) = j
  BY <1>5, <1>8 DEF Moved, FreeRenames
<1> HIDE DEF m
<1>9. Without(e, {}) = e /\ Without(m, {}) = m
  BY <1>2, <1>7 DEF Without, IsConfig
<1>10. Apply(c, p) = ReadBack(m)
  BY <1>1, <1>9 DEF Apply, e, m
<1>11. /\ IsConfig(ReadBack(m)) /\ DOMAIN ReadBack(m) = ids
       /\ \A i \in ids :
            /\ ReadBack(m)[i].kind = m[i].kind
            /\ \A f \in Fields : ReadBack(m)[i].fields[f] \cap Names = m[i].fields[f] \cap Names
  BY <1>7, ReadBackShape, NamesAssumption
<1>12. ASSUME NEW j \in ids
       PROVE  \E i \in DOMAIN c :
                /\ j = Moved(p.renames, i) /\ (j \in DOMAIN c => i = j)
                /\ ReadBack(m)[j].kind = c[i].kind
                /\ \A f \in Fields :
                    ReadBack(m)[j].fields[f] \cap Names = NewList(c, p.edits, i, f) \cap Names
  <2>1. from(j) \in DOMAIN c /\ j = Moved(p.renames, from(j)) /\ (j \in DOMAIN c => from(j) = j)
    BY <1>5, <1>8
  <2>2. m[j].kind = c[from(j)].kind /\ \A f \in Fields : m[j].fields[f] = NewList(c, p.edits, from(j), f)
    BY <1>2, <1>7, <2>1
  <2> QED
    BY <1>11, <2>1, <2>2
<1> QED
  BY <1>6, <1>10, <1>11, <1>12
-----------------------------------------------------------------------------
(* Plans.                                                                  *)

(* A plan without rules and notes.                                         *)
PlanOf(upserts, edits, renames, deletes, blocked) ==
    [upserts |-> upserts, edits |-> edits, ruleDeletes |-> {}, renames |-> renames,
     deletes |-> deletes, notes |-> {}, blocked |-> blocked]

(* What the planners write plans with.                                     *)
LEMMA PlanRecords ==
    ASSUME NEW u, NEW e, NEW n, NEW d, NEW b
    PROVE  /\ [EmptyPlan EXCEPT !.edits = e, !.renames = n] = PlanOf(<<>>, e, n, {}, FALSE)
           /\ [EmptyPlan EXCEPT !.edits = e, !.blocked = b] = PlanOf(<<>>, e, <<>>, {}, b)
           /\ [EmptyPlan EXCEPT !.upserts = u] = PlanOf(u, <<>>, <<>>, {}, FALSE)
           /\ [EmptyPlan EXCEPT !.blocked = b] = PlanOf(<<>>, <<>>, <<>>, {}, b)
           /\ [EmptyPlan EXCEPT !.upserts = u, !.deletes = d, !.blocked = b]
                = PlanOf(u, <<>>, <<>>, d, b)
<1>1. ASSUME NEW p, p = [EmptyPlan EXCEPT !.edits = e, !.renames = n]
      PROVE  p = PlanOf(<<>>, e, n, {}, FALSE)
  BY <1>1 DEF EmptyPlan, PlanOf
<1>2. ASSUME NEW p, p = [EmptyPlan EXCEPT !.edits = e, !.blocked = b]
      PROVE  p = PlanOf(<<>>, e, <<>>, {}, b)
  BY <1>2 DEF EmptyPlan, PlanOf
<1>3. ASSUME NEW p, p = [EmptyPlan EXCEPT !.upserts = u]
      PROVE  p = PlanOf(u, <<>>, <<>>, {}, FALSE)
  BY <1>3 DEF EmptyPlan, PlanOf
<1>4. ASSUME NEW p, p = [EmptyPlan EXCEPT !.blocked = b]
      PROVE  p = PlanOf(<<>>, <<>>, <<>>, {}, b)
  BY <1>4 DEF EmptyPlan, PlanOf
<1>5. ASSUME NEW p, p = [EmptyPlan EXCEPT !.upserts = u, !.deletes = d, !.blocked = b]
      PROVE  p = PlanOf(u, <<>>, <<>>, d, b)
  BY <1>5 DEF EmptyPlan, PlanOf
<1> QED
  BY <1>1, <1>2, <1>3, <1>4, <1>5

(* A plan that is refused holds nothing.                                   *)
Refuses(p) == p.blocked = TRUE /\ IsEmptyPlan(p) /\ IsPlan(p)

(* No group has tags of its own.                                           *)
Untagged(c) ==
    \A i \in DOMAIN c : c[i].kind \in AddressGroupKinds => c[i].fields["tag"] \cap Names = {}

(* What the edits of a plan name. An object has one list that is edited,   *)
(* where no group has tags of its own.                                     *)
Keyed(c, p) ==
    /\ \A k \in DOMAIN p.edits :
        k = <<k[1], k[2]>> /\ k[1] \in DOMAIN c \cup DOMAIN p.upserts /\ k[2] \in Fields
    /\ Untagged(c) =>
        \A k, l \in DOMAIN p.edits : k[1] = l[1] /\ k[1].space \notin RuleSpaces => k = l

(* A plan that renames and rewrites the references.                        *)
Renames(c, p) ==
    /\ p.blocked = FALSE /\ IsPlan(p)
    /\ DOMAIN p.upserts = {} /\ p.ruleDeletes = {} /\ p.deletes = {}
    /\ FreeRenames(c, p.renames) /\ Apart(p.renames)
    /\ p.edits = Repoints(c, p.renames) /\ Keyed(c, p)
    /\ \A k \in DOMAIN p.edits : Mappable(c[k[1]].kind, k[2])

(* A plan that creates copies of objects under identities that are free,   *)
(* edits and deletes.                                                      *)
Replaces(c, p) ==
    /\ p.blocked = FALSE /\ IsPlan(p)
    /\ p.ruleDeletes = {} /\ DOMAIN p.renames = {}
    /\ DOMAIN p.upserts \cap DOMAIN c = {} /\ p.deletes \subseteq DOMAIN c
    /\ \A i \in DOMAIN p.upserts : \E x \in DOMAIN c : p.upserts[i] = c[x]
    /\ Keyed(c, p)

(* An object that is not a group has tags, a group its members.            *)
LEMMA RepointsKeyed ==
    ASSUME NEW c, NEW p, NEW s, IsConfig(s), DOMAIN s \subseteq DOMAIN c \cup DOMAIN p.upserts,
           Untagged(c) => Untagged(s),
           NEW renames, \A i \in DOMAIN renames : renames[i] \in Names,
           p.edits = Repoints(s, renames)
    PROVE  Keyed(c, p)
<1>1. ASSUME NEW k \in DOMAIN p.edits
      PROVE  \E r \in Repointed(s, renames) : k = <<r.by, r.field>>
  BY RepointsValue
<1>2. ASSUME NEW k \in DOMAIN p.edits
      PROVE  k = <<k[1], k[2]>> /\ k[1] \in DOMAIN c \cup DOMAIN p.upserts /\ k[2] \in Fields
  <2>1. PICK r \in Repointed(s, renames) : k = <<r.by, r.field>>
    BY <1>1
  <2>2. r.by \in DOMAIN s /\ r.field \in Fields
    BY RepointedFacts
  <2> QED
    BY <2>1, <2>2
<1>3. ASSUME Untagged(c), NEW k \in DOMAIN p.edits, NEW l \in DOMAIN p.edits, k[1] = l[1],
             k[1].space \notin RuleSpaces
      PROVE  k = l
  <2>1. PICK r \in Repointed(s, renames) : k = <<r.by, r.field>>
    BY <1>1
  <2>2. PICK q \in Repointed(s, renames) : l = <<q.by, q.field>>
    BY <1>1
  <2>3. q.by = r.by /\ r.by \in DOMAIN s /\ r.by.space \notin RuleSpaces
    BY <1>3, <2>1, <2>2, RepointedFacts
  <2> DEFINE kind == s[r.by].kind
  <2>4. kind \in Kinds /\ SpaceOf(kind) \notin RuleSpaces
    BY <2>3, ConfigEntry
  <2>5. /\ r.field \in Walked(kind) /\ r.name \in s[r.by].fields[r.field] /\ r.name \in Names
        /\ q.field \in Walked(kind) /\ q.name \in s[r.by].fields[q.field] /\ q.name \in Names
    BY <2>3, RepointedFacts, RefsType
  <2>6. kind \in AddressGroupKinds => r.field # "tag" /\ q.field # "tag"
    BY <1>3, <2>3, <2>5 DEF Untagged
  <2> HIDE DEF kind
  <2>7. kind \notin RuleSpaces
    BY <2>4, SpaceOfFacts
  <2>8. r.field = q.field
    BY <2>4, <2>5, <2>6, <2>7, WalkedFacts DEF Kinds, AddressGroupKinds
  <2> QED
    BY <2>1, <2>2, <2>3, <2>8
<1> QED
  BY <1>2, <1>3 DEF Keyed

(* Nothing is edited.                                                      *)
LEMMA KeyedNone ==
    ASSUME NEW c, NEW p, DOMAIN p.edits = {}
    PROVE  Keyed(c, p)
BY DEF Keyed

(* A blocked plan is refused, any other is left alone.                     *)
LEMMA SealedShape ==
    ASSUME NEW q
    PROVE  /\ q.blocked = TRUE => Refuses(Sealed(q))
           /\ q.blocked = FALSE => Sealed(q) = q
<1>1. ASSUME q.blocked = TRUE PROVE Refuses(Sealed(q))
  <2> DEFINE s == [EmptyPlan EXCEPT !.notes = q.notes, !.blocked = TRUE]
  <2>1. Sealed(q) = s
    BY <1>1 DEF Sealed
  <2>2. /\ s.upserts = <<>> /\ s.edits = <<>> /\ s.ruleDeletes = {} /\ s.renames = <<>>
        /\ s.deletes = {} /\ s.blocked = TRUE
    BY DEF EmptyPlan
  <2> HIDE DEF s
  <2> QED
    BY <2>1, <2>2 DEF Refuses, IsEmptyPlan, IsPlan
<1>2. ASSUME q.blocked = FALSE PROVE Sealed(q) = q
  BY <1>2 DEF Sealed
<1> QED
  BY <1>1, <1>2

(* A gate refuses a plan or leaves it alone.                               *)
LEMMA GatedShape ==
    ASSUME NEW c, NEW u, NEW e, NEW n, NEW d, NEW b \in BOOLEAN
    PROVE  /\ \/ Refuses(Gated(c, PlanOf(u, e, n, d, b)))
              \/ /\ Gated(c, PlanOf(u, e, n, d, b)) = PlanOf(u, e, n, d, FALSE)
                 /\ b = FALSE /\ ~GateBlocks(c, PlanOf(u, e, n, d, FALSE))
           /\ \/ Refuses(Sealed(PlanOf(u, e, n, d, b)))
              \/ Sealed(PlanOf(u, e, n, d, b)) = PlanOf(u, e, n, d, FALSE) /\ b = FALSE
<1> DEFINE p == PlanOf(u, e, n, d, b)
           x == p.blocked \/ GateBlocks(c, p)
           g == [p EXCEPT !.blocked = x]
<1>1. \A q : q.blocked = TRUE => Refuses(Sealed(q))
  BY SealedShape
<1>2. p.blocked = b /\ PlanOf(u, e, n, d, TRUE).blocked = TRUE
      /\ PlanOf(u, e, n, d, FALSE).blocked = FALSE
  BY DEF PlanOf
<1>3. Gated(c, p) = Sealed(g) /\ g = PlanOf(u, e, n, d, x)
  <2>1. Gated(c, p) = Sealed(g)
    BY Zenon DEF Gated
  <2> HIDE DEF x
  <2>2. ASSUME NEW q, q = g PROVE q = PlanOf(u, e, n, d, x)
    BY <2>2 DEF PlanOf
  <2> QED
    BY <2>1, <2>2
<1>4. x \in BOOLEAN
  BY DEF GateBlocks
<1> HIDE DEF g
<1>5. CASE x
  <2>1. x = TRUE
    BY <1>4, <1>5
  <2> HIDE DEF x, p
  <2>2. Refuses(Gated(c, p))
    BY <1>1, <1>2, <1>3, <2>1
  <2>3. Refuses(Sealed(p)) \/ (Sealed(p) = PlanOf(u, e, n, d, FALSE) /\ b = FALSE)
    <3>1. CASE b = TRUE
      BY <1>1, <1>2, <3>1
    <3>2. CASE b = FALSE
      BY <3>2, <1>2 DEF Sealed, p
    <3> QED
      BY <3>1, <3>2
  <2> QED
    BY <2>2, <2>3 DEF p
<1>6. CASE ~x
  <2>1. x = FALSE /\ b = FALSE /\ ~GateBlocks(c, p)
    BY <1>2, <1>4, <1>6
  <2> HIDE DEF x
  <2>2. p = PlanOf(u, e, n, d, FALSE) /\ g = PlanOf(u, e, n, d, FALSE)
    BY <1>3, <2>1
  <2> HIDE DEF p
  <2>3. Sealed(p) = p /\ Sealed(g) = g
    BY <1>2, <2>1, <2>2 DEF Sealed
  <2> QED
    BY <1>3, <2>1, <2>2, <2>3 DEF p
<1> QED
  BY <1>5, <1>6

(* The empty blocked plan is a refusal.                                     *)
LEMMA RefusalRefuses == Refuses(Refusal)
<1>1. /\ Refusal.upserts = <<>> /\ Refusal.edits = <<>> /\ Refusal.ruleDeletes = {}
      /\ Refusal.renames = <<>> /\ Refusal.deletes = {} /\ Refusal.blocked = TRUE
  BY DEF Refusal, EmptyPlan
<1> QED
  BY <1>1 DEF Refuses, IsEmptyPlan, IsPlan

(* What the gate makes of a plan.                                          *)
LEMMA GateShape ==
    ASSUME NEW c, NEW u, NEW e, NEW n, NEW d, NEW b \in BOOLEAN
    PROVE  \/ Refuses(Gated(c, PlanOf(u, e, n, d, b)))
           \/ /\ Gated(c, PlanOf(u, e, n, d, b)) = PlanOf(u, e, n, d, FALSE)
              /\ b = FALSE /\ ~GateBlocks(c, PlanOf(u, e, n, d, FALSE))
BY GatedShape

(* A name that does not clash is free where it is given.                   *)
LEMMA NoClashFree ==
    ASSUME NEW c, IsConfig(c), NEW i \in DOMAIN c, NEW new \in Names, ~Clashes(c, i, new)
    PROVE  Slot(i.space, new, i.loc) \notin DOMAIN c
<1>1. i.loc \in Locs
  BY ConfigEntry DEF Ids
<1>2. i.loc \in Cone(i.loc)
  BY <1>1, SeesFacts DEF Cone
<1> QED
  BY <1>2 DEF Clashes

(* The plan of renames to free names.                                      *)
LEMMA RenamingShape ==
    ASSUME NEW c, IsConfig(c), NEW renames, FreeRenames(c, renames), Apart(renames)
    PROVE  \/ Refuses(Renaming(c, renames))
           \/ Renames(c, Renaming(c, renames)) /\ Renaming(c, renames).renames = renames
<1> DEFINE edits == Repoints(c, renames)
           d == PlanOf(<<>>, edits, renames, {}, FALSE)
           p == Renaming(c, renames)
<1>1. /\ d.upserts = <<>> /\ d.edits = edits /\ d.ruleDeletes = {} /\ d.renames = renames
      /\ d.deletes = {} /\ d.blocked = FALSE
  BY DEF PlanOf
<1>2. p = Gated(c, d)
  BY PlanRecords DEF Renaming
<1> HIDE DEF edits
<1>3. Refuses(p) \/ (p = d /\ ~GateBlocks(c, d))
  BY <1>2, GatedShape
<1> HIDE DEF d
<1>4. ASSUME p = d, ~GateBlocks(c, d) PROVE Renames(c, p) /\ p.renames = renames
  <2>1. \A i \in DOMAIN renames : renames[i] \in Names
    BY DEF FreeRenames
  <2>2. \A k \in DOMAIN edits : edits[k] \in SUBSET Members
    BY <2>1, RepointsValue DEF edits
  <2>3. IsPlan(d)
    BY <1>1, <2>1, <2>2 DEF IsPlan
  <2>4. ASSUME NEW k \in DOMAIN edits PROVE Mappable(c[k[1]].kind, k[2])
    <3>1. PICK r \in Repointed(c, renames) : k = <<r.by, r.field>>
      BY <2>1, RepointsValue DEF edits
    <3>2. DOMAIN renames # {}
      BY RepointedFacts
    <3> QED
      BY <1>1, <1>4, <3>2 DEF GateBlocks
  <2> HIDE DEF p
  <2>5. /\ p.blocked = FALSE /\ DOMAIN p.upserts = {} /\ p.ruleDeletes = {} /\ p.deletes = {}
        /\ p.edits = edits /\ p.renames = renames /\ IsPlan(p)
    BY <1>1, <1>4, <2>3
  <2>6. Keyed(c, p)
    <3>1. p.edits = Repoints(c, renames)
      BY <2>5 DEF edits
    <3> QED
      BY <2>1, <3>1, RepointsKeyed
  <2> QED
    BY <2>4, <2>5, <2>6 DEF Renames, edits
<1> QED
  BY <1>3, <1>4

(* plan_rename                                                             *)
LEMMA RenameShape ==
    ASSUME NEW c, IsConfig(c), NEW id \in DOMAIN c, NEW new \in Names
    PROVE  LET p == PlanRename(c, id, new)
           IN  Refuses(p) \/ /\ Renames(c, p) /\ ~Clashes(c, id, new)
                             /\ DOMAIN p.renames = {id} /\ p.renames[id] = new
<1> DEFINE renames == [i \in {id} |-> new]
<1>1. CASE Clashes(c, id, new)
  BY <1>1, RefusalRefuses DEF PlanRename
<1>2. CASE ~Clashes(c, id, new)
  <2>1. PlanRename(c, id, new) = Renaming(c, renames)
    BY <1>2 DEF PlanRename
  <2>2. DOMAIN renames = {id} /\ renames[id] = new
    OBVIOUS
  <2>3. Slot(id.space, new, id.loc) \notin DOMAIN c
    BY <1>2, NoClashFree
  <2> HIDE DEF renames
  <2>4. FreeRenames(c, renames)
    BY <2>2, <2>3 DEF FreeRenames, Moved
  <2>5. Apart(renames)
    BY <2>2 DEF Apart
  <2>6. \/ Refuses(Renaming(c, renames))
        \/ Renames(c, Renaming(c, renames)) /\ Renaming(c, renames).renames = renames
    BY <2>4, <2>5, RenamingShape
  <2> QED
    BY <1>2, <2>1, <2>2, <2>6
<1> QED
  BY <1>1, <1>2

(* plan_apply_scheme                                                       *)
LEMMA SchemeShape ==
    ASSUME NEW c, IsConfig(c), NEW scope
    PROVE  Refuses(PlanApplyScheme(c, scope)) \/ Renames(c, PlanApplyScheme(c, scope))
<1> DEFINE renames == [i \in SchemeTargets(c, scope) |-> SchemeName[c[i].value]]
           p == PlanApplyScheme(c, scope)
           clash == \E i \in DOMAIN renames : PlanRename(c, i, renames[i]).blocked
           same == \E i, j \in DOMAIN renames :
                      i # j /\ i.space = j.space /\ i.loc = j.loc /\ renames[i] = renames[j]
<1>1. p = IF clash \/ same THEN Refusal ELSE Renaming(c, renames)
  BY DEF PlanApplyScheme
<1>2. CASE clash \/ same
  BY <1>1, <1>2, RefusalRefuses
<1>3. CASE ~(clash \/ same)
  <2>1. ASSUME NEW i \in DOMAIN renames
        PROVE  i \in DOMAIN c /\ renames[i] \in Names
    <3>1. i \in DOMAIN c /\ SchemeName[c[i].value] # Nil
      BY DEF SchemeTargets
    <3>2. c[i].value \in Values \cup {Nil}
      BY <3>1, ConfigEntry DEF Entry
    <3> QED
      BY <3>1, <3>2, SchemeNameAssumption
  <2>2. ASSUME NEW i \in DOMAIN renames PROVE ~Clashes(c, i, renames[i])
    <3> HIDE DEF renames
    <3>1. ~PlanRename(c, i, renames[i]).blocked
      BY <1>3
    <3> QED
      BY <3>1, RefusalRefuses DEF PlanRename, Refuses
  <2> HIDE DEF renames
  <2>3. FreeRenames(c, renames)
    BY <2>1, <2>2, NoClashFree DEF FreeRenames, Moved
  <2>4. Apart(renames)
    <3> SUFFICES ASSUME NEW i \in DOMAIN renames, NEW k \in DOMAIN renames,
                        Moved(renames, i) = Moved(renames, k)
                 PROVE  i = k
      BY DEF Apart
    <3>1. i.space = k.space /\ i.loc = k.loc /\ renames[i] = renames[k]
      BY DEF Moved, Slot
    <3> QED
      BY <1>3, <3>1
  <2> QED
    BY <1>1, <1>3, <2>3, <2>4, RenamingShape
<1> QED
  BY <1>2, <1>3
-----------------------------------------------------------------------------
(* References that stop resolving.                                         *)

(* An edit of a walked list writes the element of its field, but for the   *)
(* own tags of a group, which it would write among the members.            *)
LEMMA WrittenLists ==
    \A k \in Kinds : \A f \in Walked(k) :
        Mappable(k, f) => Leaf(k, f) = f \/ (k \in AddressGroupKinds /\ f = "tag")
<1> SUFFICES ASSUME NEW k \in Kinds, NEW f \in Walked(k), Mappable(k, f)
             PROVE  Leaf(k, f) = f \/ (k \in AddressGroupKinds /\ f = "tag")
  OBVIOUS
<1>1. CASE k = "address-group"
  BY <1>1, WalkedFacts DEF Leaf, AddressGroupKinds
<1>2. CASE k = "dynamic-group"
  BY <1>2, WalkedFacts DEF Leaf, AddressGroupKinds
<1>3. CASE k = "service-group"
  BY <1>3, WalkedFacts DEF Leaf
<1>4. CASE k \in RuleSpaces
  BY <1>4 DEF Leaf, RuleSpaces
<1>5. CASE k \in {"address", "service", "tag"}
  BY <1>5 DEF Mappable
<1> QED
  BY <1>1, <1>2, <1>3, <1>4, <1>5 DEF Kinds

(* What can be rewritten at all is rewritten plainly, where groups have no *)
(* tags of their own or nothing of the tags is renamed.                    *)
LEMMA PlainFacts ==
    ASSUME NEW s, IsConfig(s), NEW renames, \A i \in DOMAIN renames : i \in Ids /\ renames[i] \in Names,
           Untagged(s) \/ \A i \in DOMAIN renames : i.space # "tag"
    PROVE  Plain(s, renames)
<1> SUFFICES ASSUME NEW r \in WrittenRefs(s, renames) PROVE Leaf(s[r.by].kind, r.field) = r.field
  BY DEF Plain
<1>1. r \in Repointed(s, renames)
  BY DEF WrittenRefs
<1>2. Mappable(s[r.by].kind, r.field)
  BY DEF WrittenRefs
<1>3. r \in Refs(s) /\ Target(DOMAIN s, r) \in DOMAIN renames
  BY <1>1, RepointedFacts
<1>4. /\ r.field \in Walked(s[r.by].kind) /\ r.by \in DOMAIN s /\ s[r.by].kind \in Kinds
      /\ r.name \in s[r.by].fields[r.field] /\ r.name \in Names
      /\ NsOf(r.field) \in Spaces /\ r.by.loc \in Locs
  BY <1>3, RefsType, ConfigEntry
<1>5. ~(s[r.by].kind \in AddressGroupKinds /\ r.field = "tag")
  <2>1. CASE Untagged(s)
    BY <1>4, <2>1 DEF Untagged
  <2>2. CASE \A i \in DOMAIN renames : i.space # "tag"
    <3> SUFFICES ASSUME r.field = "tag" PROVE FALSE
      OBVIOUS
    <3>1. NsOf(r.field) = "tag"
      BY NsOfFacts
    <3>2. Target(DOMAIN s, r) # Nil => Target(DOMAIN s, r).space = "tag"
      BY <1>3, <3>1, TargetSeen
    <3>3. Target(DOMAIN s, r) # Nil
      BY <1>3, NamesAssumption
    <3> QED
      BY <1>3, <2>2, <3>2, <3>3
  <2> QED
    BY <2>1, <2>2
<1> QED
  BY <1>2, <1>4, <1>5, WrittenLists

(* Nothing an entry refers to stops resolving.                             *)
StrandsNothing(c, p) ==
    \A r \in Unresolved(Apply(c, p)) : r.by \in DOMAIN c => r \in Unresolved(c)

(* A rename strands nothing, not even what an object that is renamed       *)
(* refers to.                                                              *)
LEMMA RenameStrandsMoved ==
    ASSUME NEW c, IsConfig(c), Untagged(c), NEW p, Renames(c, p),
           NEW r \in Unresolved(Apply(c, p)), NEW i \in DOMAIN c, r.by = Moved(p.renames, i)
    PROVE  RefTo(i, r.field, r.name) \in Unresolved(c)
<1> DEFINE d == Apply(c, p)
           ren == p.renames
<1>1. /\ IsConfig(d)
      /\ \A j : j \in DOMAIN d <=> \E x \in DOMAIN c : j = Moved(ren, x)
      /\ \A j \in DOMAIN d : \E x \in DOMAIN c :
            /\ j = Moved(ren, x) /\ (j \in DOMAIN c => x = j)
            /\ d[j].kind = c[x].kind
            /\ \A f \in Fields : d[j].fields[f] \cap Names = NewList(c, p.edits, x, f) \cap Names
  BY RenamedPlanShape DEF Renames
<1>2. \A x \in DOMAIN ren : x \in DOMAIN c /\ x \in Ids /\ ren[x] \in Names /\ Moved(ren, x) \notin DOMAIN c
  BY ConfigEntry DEF Renames, FreeRenames
<1>3. p.edits = Repoints(c, ren) /\ Plain(c, ren)
  BY <1>2, PlainFacts DEF Renames
<1>0. Apart(ren)
  BY DEF Renames
<1> HIDE DEF d
<1>4. r \in Refs(d) /\ Target(DOMAIN d, r) = Nil
  BY DEF Unresolved, d
<1>14. r.by = Moved(ren, i)
  OBVIOUS
<1> HIDE DEF ren
<1>5. /\ r = RefTo(r.by, r.field, r.name) /\ r.by \in DOMAIN d /\ r.by.loc \in Locs
      /\ r.field \in Fields /\ r.name \in Names /\ r.field \in Walked(d[r.by].kind)
      /\ r.name \in d[r.by].fields[r.field] /\ NsOf(r.field) \in Spaces
  BY <1>1, <1>4, RefsType DEF RefTo
<1>15. r.by.loc = i.loc
  BY <1>14 DEF Moved, Slot
<1>16. \A k \in DOMAIN c : Moved(ren, k) = r.by => k = i
  <2> SUFFICES ASSUME NEW k \in DOMAIN c, Moved(ren, k) = Moved(ren, i) PROVE k = i
    BY <1>14
  <2>1. CASE i \in DOMAIN ren /\ k \in DOMAIN ren
    BY <1>0, <2>1 DEF Apart
  <2>2. CASE i \notin DOMAIN ren
    BY <1>2, <2>2 DEF Moved
  <2>3. CASE k \notin DOMAIN ren
    BY <1>2, <2>3 DEF Moved
  <2> QED
    BY <2>1, <2>2, <2>3
<1>6. /\ d[r.by].kind = c[i].kind
      /\ r.name \in NewList(c, p.edits, i, r.field) \cap Names
  BY <1>1, <1>5, <1>16
<1>7. PICK m \in c[i].fields[r.field] \cap Names : r.name = NewName(c, ren, RefTo(i, r.field, m))
  BY <1>2, <1>3, <1>5, <1>6, RepointedList
<1> DEFINE q == RefTo(i, r.field, m)
<1>8. q \in Refs(c) /\ q.by = i /\ q.field = r.field /\ q.name = m
  BY <1>5, <1>6, <1>7, RefsMembership DEF RefTo
<1> HIDE DEF q
<1>9. ~\E l : Sees(r.by.loc, l) /\ Slot(NsOf(r.field), r.name, l) \in DOMAIN d
  BY <1>4, <1>5, ResolveSeen DEF Target
<1>10. Target(DOMAIN c, q) # Nil =>
          /\ Target(DOMAIN c, q) = Slot(NsOf(r.field), m, Target(DOMAIN c, q).loc)
          /\ Target(DOMAIN c, q) \in DOMAIN c /\ Sees(r.by.loc, Target(DOMAIN c, q).loc)
  BY <1>8, <1>15, TargetSeen
<1>11. \A x \in Repointed(c, ren) : x \in WrittenRefs(c, ren)
  <2> TAKE x \in Repointed(c, ren)
  <2>1. <<x.by, x.field>> \in DOMAIN p.edits
    BY <1>2, <1>3, RepointsValue
  <2> QED
    BY <2>1 DEF Renames, WrittenRefs
<1>12. CASE q \in Repointed(c, ren)
  <2> DEFINE t == Target(DOMAIN c, q)
  <2>1. r.name = ren[t]
    BY <1>7, <1>12, <1>11 DEF NewName, q
  <2>2. t \in DOMAIN ren /\ t # Nil
    BY <1>2, <1>12, NamesAssumption, RepointedFacts
  <2> HIDE DEF t
  <2>3. Moved(ren, t) = Slot(NsOf(r.field), r.name, t.loc)
    BY <1>10, <2>1, <2>2 DEF Moved, Slot, t
  <2>4. Moved(ren, t) \in DOMAIN d
    BY <1>1, <1>2, <2>2
  <2> QED
    BY <1>9, <1>10, <2>2, <2>3, <2>4 DEF t
<1>13. CASE q \notin Repointed(c, ren)
  <2>1. r.name = m
    BY <1>7, <1>8, <1>13 DEF NewName, q, WrittenRefs
  <2>2. RefTo(i, r.field, r.name) = q
    BY <2>1 DEF q
  <2>3. ASSUME Target(DOMAIN c, q) # Nil PROVE FALSE
    <3> DEFINE t == Target(DOMAIN c, q)
    <3>1. t = Slot(NsOf(r.field), m, t.loc) /\ t \in DOMAIN c /\ Sees(r.by.loc, t.loc)
      BY <1>10, <2>3
    <3>2. t \notin DOMAIN ren
      <4> SUFFICES ASSUME t \in DOMAIN ren PROVE FALSE
        OBVIOUS
      <4>1. ren[t] = q.name
        BY <1>8, <1>13 DEF Repointed, WhereUsed
      <4> HIDE DEF t
      <4>2. Moved(ren, t) = t
        BY <1>8, <3>1, <4>1 DEF Moved, Slot
      <4> QED
        BY <1>2, <3>1, <4>2
    <3> HIDE DEF t
    <3>3. t \in DOMAIN d
      BY <1>1, <3>1, <3>2 DEF Moved
    <3> QED
      BY <1>9, <2>1, <3>1, <3>3
  <2> QED
    BY <1>8, <2>2, <2>3 DEF Unresolved
<1> QED
  BY <1>12, <1>13

LEMMA RenameStrands ==
    ASSUME NEW c, IsConfig(c), Untagged(c), NEW p, Renames(c, p)
    PROVE  StrandsNothing(c, p)
<1> SUFFICES ASSUME NEW r \in Unresolved(Apply(c, p)), r.by \in DOMAIN c PROVE r \in Unresolved(c)
  BY DEF StrandsNothing
<1>1. r \in Refs(Apply(c, p)) /\ IsConfig(Apply(c, p))
  BY RenamedPlanShape DEF Unresolved, Renames
<1>2. r = RefTo(r.by, r.field, r.name) /\ r.by \in DOMAIN Apply(c, p)
  BY <1>1, RefsType DEF RefTo
<1>3. PICK i \in DOMAIN c : r.by = Moved(p.renames, i) /\ i = r.by
  BY <1>2, RenamedPlanShape DEF Renames
<1> QED
  BY <1>2, <1>3, RenameStrandsMoved

(* The edits of a plan give the references the names of `renames`, and     *)
(* these references, like those to what the plan deletes, mean something   *)
(* afterwards.  `s` is the configuration in which they are found.          *)
Left(c, p) == (DOMAIN c \cup DOMAIN p.upserts) \ p.deletes

Reroutes(c, p, s, renames) ==
    /\ IsConfig(s) /\ DOMAIN c \subseteq DOMAIN s /\ \A x \in DOMAIN c : s[x] = c[x]
    /\ \A x \in DOMAIN renames : renames[x] \in Names
    /\ Plain(s, renames)
    /\ p.edits = Repoints(s, renames)
    /\ \A q \in Refs(c) :
        /\ q.by \notin p.deletes /\ q \notin WrittenRefs(s, renames)
        /\ Target(DOMAIN c, q) \in p.deletes
        => Target(Left(c, p), q) # Nil
    /\ \A q \in Refs(c) :
        /\ q.by \notin p.deletes /\ q \in WrittenRefs(s, renames)
        => Resolve(Left(c, p), NsOf(q.field), renames[Target(DOMAIN s, q)], q.by.loc) # Nil

(* Such a plan strands nothing.                                            *)
LEMMA ReplaceStrands ==
    ASSUME NEW c, IsConfig(c), NEW p, Replaces(c, p), NEW s, NEW renames, Reroutes(c, p, s, renames)
    PROVE  StrandsNothing(c, p)
<1> DEFINE after == Left(c, p)
<1>1. /\ IsConfig(s) /\ DOMAIN c \subseteq DOMAIN s /\ \A x \in DOMAIN c : s[x] = c[x]
      /\ \A x \in DOMAIN renames : renames[x] \in Names
      /\ Plain(s, renames) /\ p.edits = Repoints(s, renames)
  BY DEF Reroutes
<1>2. \A q \in Refs(c) :
        /\ q.by \notin p.deletes /\ q \notin WrittenRefs(s, renames)
        /\ Target(DOMAIN c, q) \in p.deletes
        => Target(after, q) # Nil
  BY DEF Reroutes
<1>3. \A q \in Refs(c) :
        /\ q.by \notin p.deletes /\ q \in WrittenRefs(s, renames)
        => Resolve(after, NsOf(q.field), renames[Target(DOMAIN s, q)], q.by.loc) # Nil
  BY DEF Reroutes
<1>4. after = (DOMAIN c \cup DOMAIN p.upserts) \ p.deletes
  BY DEF Left
<1> HIDE DEF after
<1> DEFINE d == Apply(c, p)
           u == Upserted(c, p.upserts)
<1>5. /\ IsConfig(d) /\ DOMAIN d = after
      /\ \A i \in DOMAIN d :
            /\ d[i].kind = u[i].kind
            /\ \A f \in Fields : d[i].fields[f] \cap Names = NewList(u, p.edits, i, f) \cap Names
  BY <1>4, ReplacedShape DEF Replaces
<1>6. \A i \in DOMAIN c : u[i] = c[i]
  BY CreatedShape DEF Replaces
<1> HIDE DEF d, u
<1> SUFFICES ASSUME NEW r \in Unresolved(d), r.by \in DOMAIN c PROVE r \in Unresolved(c)
  BY DEF StrandsNothing, d
<1>7. r \in Refs(d) /\ Target(DOMAIN d, r) = Nil
  BY DEF Unresolved
<1>8. /\ r = RefTo(r.by, r.field, r.name) /\ r.by \in DOMAIN d /\ r.by.loc \in Locs
      /\ r.field \in Fields /\ r.name \in Names /\ r.field \in Walked(d[r.by].kind)
      /\ r.name \in d[r.by].fields[r.field] /\ NsOf(r.field) \in Spaces
  BY <1>5, <1>7, RefsType DEF RefTo
<1>9. NewList(u, p.edits, r.by, r.field) = NewList(c, p.edits, r.by, r.field)
  <2>1. u[r.by] = c[r.by]
    BY <1>6
  <2>2. Writers(u, p.edits, r.by, r.field) = Writers(c, p.edits, r.by, r.field)
    BY <2>1 DEF Writers
  <2> QED
    BY <2>1, <2>2 DEF NewList
<1>10. d[r.by].kind = c[r.by].kind /\ r.name \in NewList(c, p.edits, r.by, r.field) \cap Names
  BY <1>5, <1>6, <1>8, <1>9
<1>11. PICK m \in c[r.by].fields[r.field] \cap Names :
            r.name = NewName(s, renames, RefTo(r.by, r.field, m))
  BY <1>8, <1>10, <1>1, RepointedList
<1> DEFINE q == RefTo(r.by, r.field, m)
<1>12. q \in Refs(c) /\ q.by = r.by /\ q.field = r.field /\ q.name = m
  BY <1>8, <1>10, <1>11, RefsMembership DEF RefTo
<1>13. q.by \notin p.deletes
  BY <1>5, <1>8, <1>12, <1>4
<1> HIDE DEF q
<1>14. CASE q \in WrittenRefs(s, renames)
  <2>1. r.name = renames[Target(DOMAIN s, q)]
    BY <1>11, <1>14 DEF NewName, q
  <2>2. Resolve(after, NsOf(q.field), renames[Target(DOMAIN s, q)], q.by.loc) # Nil
    BY <1>12, <1>13, <1>14, <1>3
  <2> QED
    BY <1>5, <1>7, <1>12, <2>1, <2>2 DEF Target
<1>15. CASE q \notin WrittenRefs(s, renames)
  <2>1. r = q
    BY <1>8, <1>11, <1>12, <1>15 DEF NewName, q
  <2>2. Target(DOMAIN c, q) \notin p.deletes
    BY <1>5, <1>7, <1>12, <1>13, <1>15, <1>2, <2>1
  <2>3. ASSUME Target(DOMAIN c, q) # Nil PROVE FALSE
    <3> DEFINE t == Target(DOMAIN c, q)
    <3>1. t = Slot(NsOf(r.field), r.name, t.loc) /\ t \in DOMAIN c /\ Sees(r.by.loc, t.loc)
      BY <1>8, <2>1, <2>3, ResolveSeen DEF Target
    <3>2. t \in DOMAIN d
      BY <1>5, <1>4, <2>2, <3>1
    <3> HIDE DEF t
    <3> QED
      BY <1>7, <1>8, <3>1, <3>2, ResolveSeen DEF Target
  <2> QED
    BY <1>12, <2>1, <2>3 DEF Unresolved
<1> QED
  BY <1>14, <1>15
-----------------------------------------------------------------------------
(* Merging.                                                                *)

(* The name that every reference to one of the objects takes.              *)
Takes(drops, name) == [x \in drops |-> name]

(* The plan of repoints and deletes.                                       *)
GaveWay(c, keep, drops, live) == [Repointing(c, keep, drops, live) EXCEPT !.deletes = drops]

Unreached(c, keep, drops, live) == \E r \in WhereUsed(c, drops) : ~Reaches(live, r, keep)

LEMMA GivingWayRecord ==
    ASSUME NEW c, NEW keep, NEW drops, NEW live
    PROVE  GaveWay(c, keep, drops, live)
             = PlanOf(<<>>, Repoints(c, Takes(drops, keep.name)), <<>>, drops,
                      Unreached(c, keep, drops, live))
<1> DEFINE edits == Repoints(c, Takes(drops, keep.name))
           b == Unreached(c, keep, drops, live)
<1>1. Repointing(c, keep, drops, live) = [EmptyPlan EXCEPT !.edits = edits, !.blocked = b]
  BY DEF Repointing, Takes, Unreached
<1> HIDE DEF edits, b
<1>2. Repointing(c, keep, drops, live) = PlanOf(<<>>, edits, <<>>, {}, b)
  BY <1>1, PlanRecords
<1>3. ASSUME NEW q, q = [PlanOf(<<>>, edits, <<>>, {}, b) EXCEPT !.deletes = drops]
      PROVE  q = PlanOf(<<>>, edits, <<>>, drops, b)
  BY <1>3 DEF PlanOf
<1> QED
  BY <1>2, <1>3 DEF edits, b, GaveWay

(* Objects give way to one that every reference to them can see.           *)
LEMMA GivingWay ==
    ASSUME NEW c, IsConfig(c), NEW keep \in DOMAIN c, keep.space = "address",
           NEW drops \in SUBSET DOMAIN c, \A x \in drops : x.space = "address",
           NEW renames, DOMAIN renames = drops, \A x \in drops : renames[x] = keep.name,
           NEW edits, edits = Repoints(c, renames), NEW b \in BOOLEAN,
           b = FALSE => \A r \in WhereUsed(c, drops) : Reaches(DOMAIN c \ drops, r, keep),
           NEW p, p = Gated(c, PlanOf(<<>>, edits, <<>>, drops, b))
    PROVE  Refuses(p) \/ (Replaces(c, p) /\ StrandsNothing(c, p))
<1> DEFINE made == PlanOf(<<>>, edits, <<>>, drops, FALSE)
           after == DOMAIN c \ drops
<1>1. DOMAIN renames = drops /\ \A x \in drops : renames[x] = keep.name
  OBVIOUS
<1>2. keep.name \in Names /\ keep \in Ids /\ keep # Nil
  BY ConfigEntry, NamesAssumption DEF Ids
<1>3. \A x \in DOMAIN renames : renames[x] \in Names /\ x \in Ids /\ x.space # "tag"
  BY <1>1, <1>2, ConfigEntry
<1>4. /\ made.upserts = <<>> /\ made.edits = edits /\ made.ruleDeletes = {} /\ made.renames = <<>>
      /\ made.deletes = drops /\ made.blocked = FALSE
  BY DEF PlanOf
<1>5. Refuses(p) \/ (p = made /\ b = FALSE /\ ~GateBlocks(c, made))
  <2> DEFINE g == Gated(c, PlanOf(<<>>, edits, <<>>, drops, b))
  <2>1. Refuses(g) \/ (g = PlanOf(<<>>, edits, <<>>, drops, FALSE) /\ b = FALSE
                        /\ ~GateBlocks(c, PlanOf(<<>>, edits, <<>>, drops, FALSE)))
    BY GateShape, Zenon
  <2>2. g = p
    OBVIOUS
  <2> HIDE DEF g
  <2> QED
    BY <2>1, <2>2, Zenon
<1> SUFFICES ASSUME p = made, b = FALSE, ~GateBlocks(c, made)
             PROVE  Replaces(c, p) /\ StrandsNothing(c, p)
  BY <1>5
<1>6. \A r \in WhereUsed(c, drops) : Resolve(after, "address", keep.name, r.by.loc) = keep
  BY DEF Reaches
<1> HIDE DEF made
<1>7. /\ \A k : k \in DOMAIN edits <=> \E r \in Repointed(c, renames) : k = <<r.by, r.field>>
      /\ \A k \in DOMAIN edits : edits[k] \in SUBSET Members
  BY <1>3, RepointsValue
<1>8. Replaces(c, p)
  <2>1. /\ DOMAIN p.upserts = {} /\ DOMAIN p.renames = {} /\ p.edits = edits
        /\ p.ruleDeletes = {} /\ p.blocked = FALSE
    BY <1>4
  <2>2. IsPlan(p)
    BY <1>7, <2>1 DEF IsPlan
  <2>3. Keyed(c, p)
    BY <1>3, <2>1, RepointsKeyed
  <2> QED
    BY <1>4, <2>1, <2>2, <2>3 DEF Replaces
<1>9. \A k \in DOMAIN edits : Mappable(c[k[1]].kind, k[2])
  <2> TAKE k \in DOMAIN edits
  <2>1. PICK r \in Repointed(c, renames) : k = <<r.by, r.field>>
    BY <1>7
  <2>2. drops # {}
    BY <1>1, RepointedFacts
  <2> QED
    BY <1>4, <2>2 DEF GateBlocks
<1>10. Plain(c, renames)
  BY <1>3, PlainFacts
<1>11. WrittenRefs(c, renames) = Repointed(c, renames)
  <2> SUFFICES ASSUME NEW r \in Repointed(c, renames) PROVE Mappable(c[r.by].kind, r.field)
    BY DEF WrittenRefs
  <2>1. <<r.by, r.field>> \in DOMAIN edits
    BY <1>7
  <2> QED
    BY <1>9, <2>1
<1>12. ASSUME NEW q \in Refs(c), Target(DOMAIN c, q) \in drops
       PROVE  /\ NsOf(q.field) = "address"
              /\ Resolve(after, NsOf(q.field), keep.name, q.by.loc) # Nil
  <2>1. q \in WhereUsed(c, drops)
    BY <1>12 DEF WhereUsed
  <2>2. Target(DOMAIN c, q) # Nil /\ Target(DOMAIN c, q).space = "address"
    BY <1>1, <1>3, <1>12, NamesAssumption
  <2>3. NsOf(q.field) = "address"
    BY <2>2, TargetSeen
  <2> QED
    BY <1>2, <1>6, <2>1, <2>3
<1>13. ASSUME NEW q \in Refs(c), q \notin Repointed(c, renames), Target(DOMAIN c, q) \in drops
       PROVE  Target(after, q) # Nil
  <2>1. renames[Target(DOMAIN c, q)] = q.name
    BY <1>1, <1>13 DEF Repointed, WhereUsed
  <2> QED
    BY <1>1, <1>12, <1>13, <2>1 DEF Target
<1>14. ASSUME NEW q \in Refs(c), q \in Repointed(c, renames)
       PROVE  Resolve(after, NsOf(q.field), renames[Target(DOMAIN c, q)], q.by.loc) # Nil
  <2>1. Target(DOMAIN c, q) \in drops
    BY <1>1, <1>14, RepointedFacts
  <2> QED
    BY <1>1, <1>12, <2>1
<1>15. after = (DOMAIN c \cup DOMAIN p.upserts) \ p.deletes
  BY <1>4
<1>16. p.edits = Repoints(c, renames) /\ p.deletes = drops
  BY <1>4
<1>17. Left(c, p) = after
  BY <1>15 DEF Left
<1> HIDE DEF after
<1>18. Reroutes(c, p, c, renames)
  BY <1>3, <1>10, <1>13, <1>14, <1>16, <1>17, <1>11 DEF Reroutes
<1>19. StrandsNothing(c, p)
  BY <1>8, <1>18, ReplaceStrands
<1> QED
  BY <1>8, <1>19

(* plan_merge, plan_merge_bucket, plan_merge_group                         *)
LEMMA MergeShape ==
    ASSUME NEW c, IsConfig(c), NEW keep, NEW drops, NEW allow
    PROVE  LET p == PlanMerge(c, keep, drops, allow)
           IN  Refuses(p) \/ (Replaces(c, p) /\ StrandsNothing(c, p))
<1> DEFINE renames == Takes(drops, keep.name)
           edits == Repoints(c, renames)
           refused == \/ \E i \in drops \cup {keep} : i \notin DOMAIN c \/ c[i].kind # "address"
                      \/ keep \in drops
                      \/ ~allow /\ \E d \in drops : c[d].value # c[keep].value
           b == Unreached(c, keep, drops, DOMAIN c \ drops)
           merged == PlanOf(<<>>, edits, <<>>, drops, b)
           p == PlanMerge(c, keep, drops, allow)
<1>1. p = IF refused THEN Refusal ELSE Gated(c, merged)
  <2>1. p = IF refused THEN Refusal
            ELSE Gated(c, GaveWay(c, keep, drops, DOMAIN c \ drops))
    BY Zenon DEF PlanMerge, GaveWay
  <2>2. GaveWay(c, keep, drops, DOMAIN c \ drops) = merged
    BY GivingWayRecord
  <2> QED
    BY <2>1, <2>2, Zenon
<1>2. CASE refused
  BY <1>1, <1>2, RefusalRefuses
<1>3. CASE ~refused
  <2>1. \A i \in drops \cup {keep} : i \in DOMAIN c /\ c[i].kind = "address"
    BY <1>3
  <2>2. \A i \in drops \cup {keep} : i.space = "address"
    BY <2>1, ConfigEntry, SpaceOfFacts
  <2>3. p = Gated(c, merged)
    BY <1>1, <1>3
  <2> HIDE DEF p
  <2>4. keep \in DOMAIN c /\ keep.space = "address" /\ drops \in SUBSET DOMAIN c
        /\ \A x \in drops : x.space = "address"
    BY <2>1, <2>2
  <2>5. DOMAIN renames = drops /\ \A x \in drops : renames[x] = keep.name
    BY DEF Takes
  <2>6. b \in BOOLEAN /\ (b = FALSE => \A r \in WhereUsed(c, drops) : Reaches(DOMAIN c \ drops, r, keep))
    BY DEF Unreached
  <2> HIDE DEF renames, b
  <2>7. edits = Repoints(c, renames)
    OBVIOUS
  <2> HIDE DEF edits
  <2>8. Refuses(p) \/ (Replaces(c, p) /\ StrandsNothing(c, p))
    BY <2>3, <2>4, <2>5, <2>6, <2>7, GivingWay
  <2> QED
    BY <2>8 DEF p
<1> QED
  BY <1>2, <1>3

LEMMA MergeGroupShape ==
    ASSUME NEW c, IsConfig(c), NEW keep, NEW drop
    PROVE  LET p == PlanMergeGroup(c, keep, drop)
           IN  Refuses(p) \/ (Replaces(c, p) /\ StrandsNothing(c, p))
<1> DEFINE renames == Takes({drop}, keep.name)
           edits == Repoints(c, renames)
           refused == \/ keep = drop
                      \/ ~({keep, drop} \subseteq AddressGroups(c))
                      \/ ~Equivalent(c, keep, drop)
                      \/ drop \in Contained(c, keep) \/ keep \in Contained(c, drop)
           b == Unreached(c, keep, {drop}, DOMAIN c \ {drop})
           merged == PlanOf(<<>>, edits, <<>>, {drop}, b)
           p == PlanMergeGroup(c, keep, drop)
<1>1. p = IF refused THEN Refusal ELSE Gated(c, merged)
  <2>1. p = IF refused THEN Refusal
            ELSE Gated(c, GaveWay(c, keep, {drop}, DOMAIN c \ {drop}))
    BY Zenon DEF PlanMergeGroup, GaveWay
  <2>2. GaveWay(c, keep, {drop}, DOMAIN c \ {drop}) = merged
    BY GivingWayRecord
  <2> QED
    BY <2>1, <2>2, Zenon
<1>2. CASE refused
  BY <1>1, <1>2, RefusalRefuses
<1>3. CASE ~refused
  <2>1. keep \in AddressGroups(c) /\ drop \in AddressGroups(c)
    BY <1>3
  <2>2. \A i \in {keep, drop} : i \in DOMAIN c /\ i.space = "address"
    BY <2>1, ConfigEntry, SpaceOfFacts DEF AddressGroups, AddressGroupKinds
  <2>3. p = Gated(c, merged)
    BY <1>1, <1>3
  <2> HIDE DEF p
  <2>4. keep \in DOMAIN c /\ keep.space = "address" /\ {drop} \in SUBSET DOMAIN c
        /\ \A x \in {drop} : x.space = "address"
    BY <2>2
  <2>5. DOMAIN renames = {drop} /\ \A x \in {drop} : renames[x] = keep.name
    BY DEF Takes
  <2>6. b \in BOOLEAN /\ (b = FALSE => \A r \in WhereUsed(c, {drop}) : Reaches(DOMAIN c \ {drop}, r, keep))
    BY DEF Unreached
  <2> HIDE DEF renames, b
  <2>7. edits = Repoints(c, renames)
    OBVIOUS
  <2> HIDE DEF edits
  <2>8. Refuses(p) \/ (Replaces(c, p) /\ StrandsNothing(c, p))
    BY <2>3, <2>4, <2>5, <2>6, <2>7, GivingWay
  <2> QED
    BY <2>8 DEF p
<1> QED
  BY <1>2, <1>3
-----------------------------------------------------------------------------
(* Arrivals.                                                               *)

(* A plan that does nothing but create copies under identities that are    *)
(* free.                                                                   *)
Copies(c, p) ==
    /\ p.blocked \in BOOLEAN
    /\ \A i \in DOMAIN p.upserts :
        i \in Ids \ DOMAIN c /\ \E x \in DOMAIN c : x.space = i.space /\ p.upserts[i] = c[x]

(* What arrives is there already or is created.                            *)
LEMMA ArrivalShape ==
    ASSUME NEW c, IsConfig(c), NEW x \in DOMAIN c, NEW id \in Ids, id.space = x.space,
           NEW a, a = Arrival(c, c[x], id)
    PROVE  /\ Copies(c, a)
           /\ \A i \in DOMAIN a.upserts : i = id
           /\ ~a.blocked => id \in DOMAIN c \cup DOMAIN a.upserts
<1>1. CASE Defines(c, c[x].kind, id)
  <2> DEFINE b == ~SameValue(c[x], c[id])
  <2>1. a = [EmptyPlan EXCEPT !.blocked = b]
    BY <1>1 DEF Arrival
  <2>2. b \in BOOLEAN
    OBVIOUS
  <2> HIDE DEF b
  <2>3. a.upserts = <<>> /\ a.blocked = b
    BY <2>1 DEF EmptyPlan
  <2> QED
    BY <1>1, <2>2, <2>3 DEF Defines, Copies
<1>2. CASE ~Defines(c, c[x].kind, id)
  <2>1. a = PlanPut(c, id, c[x])
    BY <1>2 DEF Arrival
  <2>2. CASE a = Refusal
    <3>1. DOMAIN a.upserts = {} /\ a.blocked = TRUE
      BY <2>2, RefusalRefuses DEF Refuses, IsEmptyPlan
    <3> QED
      BY <3>1 DEF Copies
  <2>3. CASE a # Refusal
    <3>1. a = Putting(id, c[x]) /\ ~Taken(c, id, c[x])
      BY <2>1, <2>3 DEF PlanPut
    <3>2. id \notin DOMAIN c
      BY <1>2, <3>1 DEF Taken, Defines
    <3> DEFINE one == [i \in {id} |-> c[x]]
    <3>3. DOMAIN one = {id} /\ one[id] = c[x]
      OBVIOUS
    <3>4. a = [EmptyPlan EXCEPT !.upserts = one]
      BY <3>1 DEF Putting
    <3> HIDE DEF one
    <3>5. a.upserts = one /\ a.blocked = FALSE
      BY <3>4 DEF EmptyPlan
    <3> QED
      BY <3>2, <3>3, <3>5 DEF Copies
  <2> QED
    BY <2>2, <2>3
<1> QED
  BY <1>1, <1>2

(* Several plans that create copies, and a set that is deleted, as one.    *)
OnlyCopies(c, p, d) ==
    /\ Copies(c, p)
    /\ p.edits = <<>> /\ p.renames = <<>> /\ p.ruleDeletes = {} /\ p.deletes = d

(* A plan without edits.                                                   *)
Unedited(p, d) == \E u, b : p = PlanOf(u, <<>>, <<>>, d, b)

Together(c, A, d, p) ==
    /\ OnlyCopies(c, p, d) /\ Unedited(p, d)
    /\ p.blocked = FALSE <=> \A a \in A : ~a.blocked
    /\ \A i : i \in DOMAIN p.upserts <=> \E a \in A : i \in DOMAIN a.upserts

LEMMA PromotingShape ==
    ASSUME NEW c, IsConfig(c), NEW A, \A a \in A : Copies(c, a), NEW d, NEW p, p = Promoting(A, d)
    PROVE  Together(c, A, d, p)
<1> DEFINE from(i) == CHOOSE a \in A : i \in DOMAIN a.upserts
           ids == UNION {DOMAIN a.upserts : a \in A}
           up == [i \in ids |-> from(i).upserts[i]]
           b == \E a \in A : a.blocked
<1>1. p = [EmptyPlan EXCEPT !.upserts = up, !.deletes = d, !.blocked = b]
  BY Zenon DEF Promoting
<1>2. DOMAIN up = ids /\ (\A i \in ids : up[i] = from(i).upserts[i]) /\ b \in BOOLEAN
  OBVIOUS
<1>3. \A i : i \in ids <=> \E a \in A : i \in DOMAIN a.upserts
  OBVIOUS
<1>4. \A i \in ids : from(i) \in A /\ i \in DOMAIN from(i).upserts
  BY <1>3
<1>5. b = FALSE <=> \A a \in A : ~a.blocked
  OBVIOUS
<1> HIDE DEF up, b, ids, from
<1>6. p = PlanOf(up, <<>>, <<>>, d, b)
  BY <1>1 DEF EmptyPlan, PlanOf
<1>7. /\ p.upserts = up /\ p.blocked = b
      /\ p.edits = <<>> /\ p.renames = <<>> /\ p.ruleDeletes = {} /\ p.deletes = d
  BY <1>6 DEF PlanOf
<1>8. Copies(c, p)
  BY <1>2, <1>4, <1>7 DEF Copies
<1> QED
  BY <1>2, <1>3, <1>5, <1>6, <1>7, <1>8 DEF OnlyCopies, Unedited, Together

(* Copies, edits and deletions are a plan that replaces.                   *)
LEMMA CopiesReplace ==
    ASSUME NEW c, IsConfig(c), NEW p, Copies(c, p), p.blocked = FALSE,
           p.ruleDeletes = {}, DOMAIN p.renames = {}, \A k \in DOMAIN p.edits : p.edits[k] \in SUBSET Members,
           p.deletes \subseteq DOMAIN c, Keyed(c, p)
    PROVE  Replaces(c, p)
<1>1. \A i \in DOMAIN p.upserts :
            i \in Ids /\ p.upserts[i] \in Entry /\ SpaceOf(p.upserts[i].kind) = i.space
  BY ConfigEntry DEF Copies
<1>2. IsPlan(p)
  BY <1>1 DEF IsPlan
<1> QED
  BY <1>2 DEF Replaces, Copies

(* What a deleted object is referred to as arrives where the reference     *)
(* falls through to.                                                       *)
HasSuccessor(c, p, d, dest) ==
    d \in DOMAIN c /\ Sees(d.loc, dest) /\ Slot(d.space, d.name, dest) \in Left(c, p)

LEMMA FallsThrough ==
    ASSUME NEW c, IsConfig(c), NEW p, Replaces(c, p), p.edits = <<>>,
           NEW dest, \A d \in p.deletes : HasSuccessor(c, p, d, dest)
    PROVE  StrandsNothing(c, p)
<1>1. Repointed(c, <<>>) = {}
  BY RepointedFacts
<1>2. p.edits = Repoints(c, <<>>)
  BY <1>1 DEF Repoints, Repointed
<1>3. ASSUME NEW q \in Refs(c), Target(DOMAIN c, q) \in p.deletes
      PROVE  Target(Left(c, p), q) # Nil
  <2> DEFINE t == Target(DOMAIN c, q)
  <2>1. t \in DOMAIN c /\ Sees(t.loc, dest) /\ Slot(t.space, t.name, dest) \in Left(c, p)
    BY <1>3 DEF HasSuccessor
  <2>2. t # Nil
    BY <2>1, ConfigEntry, NamesAssumption
  <2>3. t.space = NsOf(q.field) /\ t.name = q.name /\ Sees(q.by.loc, t.loc)
    BY <2>2, TargetSeen
  <2> HIDE DEF t
  <2>4. Sees(q.by.loc, dest)
    BY <2>1, <2>3, RefsType, SeesFacts
  <2> QED
    BY <2>1, <2>3, <2>4, SeenTarget
<1>4. Plain(c, <<>>) /\ WrittenRefs(c, <<>>) = {}
  BY <1>1 DEF Plain, WrittenRefs
<1>5. DOMAIN <<>> = {}
  OBVIOUS
<1>6. Reroutes(c, p, c, <<>>)
  BY <1>1, <1>2, <1>3, <1>4, <1>5 DEF Reroutes
<1> QED
  BY <1>6, ReplaceStrands
-----------------------------------------------------------------------------
(* Moving.                                                                 *)

(* Below the destination is what sees it and is not it.                    *)
LEMMA LocalFacts ==
    ASSUME NEW source \in Locs, NEW dest, Upward(source, dest)
    PROVE  /\ \A l \in Local(source, dest) : l \in Locs /\ l # dest /\ Sees(source, l) /\ Sees(l, dest)
           /\ Sees(source, dest) /\ source # dest /\ dest \in Locs
<1> DEFINE k == CHOOSE n \in DOMAIN Chain[source] : Chain[source][n] = dest
<1>1. k \in DOMAIN Chain[source] /\ Chain[source][k] = dest
  BY DEF Upward
<1>2. Local(source, dest) = {Chain[source][n] : n \in 1 .. (k - 1)}
  BY DEF Local
<1> HIDE DEF k
<1>3. k \in 1 .. Len(Chain[source]) /\ DOMAIN Chain[source] = 1 .. Len(Chain[source])
      /\ Len(Chain[source]) \in Nat
  BY <1>1, ChainAssumption, ChainRest
<1>4. ASSUME NEW n \in 1 .. (k - 1)
      PROVE  /\ Chain[source][n] \in Locs /\ Chain[source][n] # dest
             /\ Sees(source, Chain[source][n]) /\ Sees(Chain[source][n], dest)
  <2>1. n \in DOMAIN Chain[source] /\ n <= k /\ n # k
    BY <1>3
  <2>2. Chain[source][n] # dest
    BY <1>1, <2>1, SeenOnce
  <2>3. Sees(Chain[source][n], dest)
    BY <1>1, <2>1, NearerSees
  <2> QED
    BY <2>1, <2>2, <2>3, ChainRest DEF Sees
<1> QED
  <2>1. Sees(source, dest) /\ source # dest /\ dest \in Locs
    BY <1>1, ChainRest DEF Upward, Sees
  <2> QED
    BY <1>2, <1>4, <2>1

(* Whatever name is looked up, what is found is defined.                   *)
LEMMA ResolveLive ==
    ASSUME NEW live, NEW space, NEW name, NEW loc \in Locs, Resolve(live, space, name, loc) # Nil
    PROVE  Resolve(live, space, name, loc) \in live
<1> DEFINE hits == {i \in DOMAIN Chain[loc] : Slot(space, name, Chain[loc][i]) \in live}
<1>1. hits # {} /\ Resolve(live, space, name, loc) = Slot(space, name, Chain[loc][Min(hits)])
  BY DEF Resolve
<1>2. hits \in SUBSET Nat
  BY ChainAssumption
<1>3. Min(hits) \in hits
  <2> HIDE DEF hits
  <2> QED
    BY <1>1, <1>2, MinProperties
<1> QED
  BY <1>1, <1>3

(* What an object needs below the destination.                             *)
Needs(c, i, local) ==
    {t \in {DependsOn(c, dep, i.loc) : dep \in Dependencies(c[i])} : t # Nil /\ t.loc \in local}

LEMMA NeedsFacts ==
    ASSUME NEW c, IsConfig(c), NEW i \in DOMAIN c, NEW local
    PROVE  \A t \in Needs(c, i, local) : t \in DOMAIN c /\ t.loc \in local
<1>1. i.loc \in Locs
  BY ConfigEntry DEF Ids
<1>2. \A dep \in Dependencies(c[i]) :
         DependsOn(c, dep, i.loc) # Nil => DependsOn(c, dep, i.loc) \in DOMAIN c
  BY <1>1, ResolveLive DEF DependsOn
<1> QED
  BY <1>2 DEF Needs

(* A closure is the end of a walk.                                         *)
Gathers(b, c, root, local) ==
    /\ b[0] = {root}
    /\ \A n \in Nat : n + 1 <= Cardinality(DOMAIN c)
            => b[n + 1] = b[n] \cup UNION {Needs(c, i, local) : i \in b[n]}

LEMMA ClosureWalk ==
    ASSUME NEW c, NEW root, NEW dest, Cardinality(DOMAIN c) \in Nat
    PROVE  \E b : Gathers(b, c, root, Local(root.loc, dest)) /\ Closure(c, root, dest) = b[Cardinality(DOMAIN c)]
<1> DEFINE depth == Cardinality(DOMAIN c)
           local == Local(root.loc, dest)
           step(s) == s \cup UNION {Needs(c, i, local) : i \in s}
           tops == {root}
           Walk(g, n) == g = [k \in 0 .. n |-> IF k = 0 THEN tops ELSE step(g[k - 1])]
           G(n) == \E g : Walk(g, n)
           upTo == CHOOSE g : Walk(g, depth)
           N == {n \in Nat : G(n)}
<1>1. Closure(c, root, dest) = upTo[depth]
  BY DEF Closure, Needs
<1> HIDE DEF step, tops
<1>2. G(0)
  <2> DEFINE g == [k \in 0 .. 0 |-> tops]
  <2>1. Walk(g, 0)
    OBVIOUS
  <2> QED
    BY <2>1
<1>3. ASSUME NEW n \in Nat, G(n) PROVE G(n + 1)
  <2>1. PICK g : Walk(g, n)
    BY <1>3
  <2> DEFINE h == [k \in 0 .. n + 1 |-> IF k = n + 1 THEN step(g[n]) ELSE g[k]]
  <2>2. ASSUME NEW k \in 0 .. n + 1
        PROVE  h[k] = IF k = 0 THEN tops ELSE step(h[k - 1])
    BY <2>1
  <2>3. Walk(h, n + 1)
    <3>1. h = [k \in 0 .. n + 1 |-> h[k]]
      OBVIOUS
    <3> HIDE DEF h
    <3> QED
      BY <3>1, <2>2
  <2> QED
    BY <2>3
<1> HIDE DEF G
<1>4. G(depth)
  <2>1. N \in SUBSET Nat /\ 0 \in N /\ \A n \in N : n + 1 \in N
    BY <1>2, <1>3
  <2> HIDE DEF N
  <2>2. N = Nat
    BY <2>1, Induction
  <2> QED
    BY <2>2 DEF N
<1>5. Walk(upTo, depth)
  <2> HIDE DEF Walk
  <2> QED
    BY <1>4 DEF G
<1> HIDE DEF upTo
<1>6. upTo[0] = tops /\ \A k \in Nat : k + 1 <= depth => upTo[k + 1] = step(upTo[k])
  BY <1>5
<1> QED
  BY <1>1, <1>6 DEF Gathers, step, tops

(* The objects of a configuration are finitely many.                       *)
LEMMA ObjectsFinite ==
    ASSUME NEW c, IsConfig(c)
    PROVE  IsFiniteSet(DOMAIN c) /\ Cardinality(DOMAIN c) \in Nat
<1>1. DOMAIN c \in SUBSET Ids
  BY DEF IsConfig
<1>2. IsFiniteSet(DOMAIN c)
  BY <1>1, FiniteAssumption, FS_Subset
<1> QED
  BY <1>2, FS_CardinalityType

(* What comes along is defined, from the source up to the destination.     *)
LEMMA ClosureFacts ==
    ASSUME NEW c, IsConfig(c), NEW root \in DOMAIN c, NEW dest, Upward(root.loc, dest)
    PROVE  /\ root \in Closure(c, root, dest)
           /\ \A i \in Closure(c, root, dest) :
                i \in DOMAIN c /\ i.loc # dest /\ Sees(i.loc, dest)
<1> DEFINE depth == Cardinality(DOMAIN c)
           local == Local(root.loc, dest)
           Good(i) == i \in DOMAIN c /\ i.loc # dest /\ Sees(i.loc, dest)
<1>1. depth \in Nat
  BY ObjectsFinite
<1>2. PICK b : Gathers(b, c, root, local) /\ Closure(c, root, dest) = b[depth]
  BY <1>1, ClosureWalk
<1>3. b[0] = {root} /\ \A n \in Nat : n + 1 <= depth
            => b[n + 1] = b[n] \cup UNION {Needs(c, i, local) : i \in b[n]}
  BY <1>2 DEF Gathers
<1>4. root.loc \in Locs
  BY ConfigEntry DEF Ids
<1>5. Good(root) /\ \A i \in DOMAIN c : i.loc \in local => Good(i)
  BY <1>4, LocalFacts
<1>6. \A i \in DOMAIN c : \A t \in Needs(c, i, local) : Good(t)
  BY <1>5, NeedsFacts
<1> HIDE DEF Good, local
<1> DEFINE N == {n \in Nat : n <= depth => root \in b[n] /\ \A i \in b[n] : Good(i)}
<1>7. 0 \in N
  BY <1>3, <1>5
<1>8. ASSUME NEW n \in N PROVE n + 1 \in N
  <2> SUFFICES ASSUME n + 1 <= depth PROVE root \in b[n + 1] /\ \A i \in b[n + 1] : Good(i)
    OBVIOUS
  <2>1. n \in Nat /\ root \in b[n] /\ \A i \in b[n] : Good(i)
    BY <1>1
  <2>2. b[n + 1] = b[n] \cup UNION {Needs(c, i, local) : i \in b[n]}
    BY <1>3, <2>1
  <2>3. \A i \in b[n] : i \in DOMAIN c
    BY <2>1 DEF Good
  <2> QED
    BY <1>6, <2>1, <2>2, <2>3
<1>9. N = Nat
  <2>1. N \in SUBSET Nat
    OBVIOUS
  <2> HIDE DEF N
  <2> QED
    BY <1>7, <1>8, <2>1, Induction
<1>10. root \in b[depth] /\ \A i \in b[depth] : Good(i)
  <2>1. depth \in N
    BY <1>1, <1>9
  <2> QED
    BY <1>1, <2>1
<1> QED
  BY <1>2, <1>10 DEF Good

(* The identity at the destination.                                        *)
There(i, dest) == Slot(i.space, i.name, dest)

LEMMA ThereFacts ==
    ASSUME NEW i \in Ids, NEW dest \in Locs
    PROVE  /\ There(i, dest) \in Ids
           /\ There(i, dest).space = i.space /\ There(i, dest).name = i.name
           /\ There(i, dest).loc = dest
<1>1. i.space \in Spaces /\ i.name \in Names
  BY DEF Ids
<1> QED
  BY <1>1 DEF There, Slot, Ids

LEMMA ThereRecord ==
    ASSUME NEW i \in Ids, NEW dest
    PROVE  [i EXCEPT !.loc = dest] = There(i, dest)
<1>1. i = [space |-> i.space, name |-> i.name, loc |-> i.loc]
  BY DEF Ids
<1>2. ASSUME NEW j, j = [i EXCEPT !.loc = dest] PROVE j = There(i, dest)
  BY <1>1, <1>2 DEF Slot, There
<1> QED
  BY <1>2

(* One object at its destination.                                          *)
Lands(c, i, dest) == Arrival(c, c[i], [i EXCEPT !.loc = dest])

LEMMA LandsShape ==
    ASSUME NEW c, IsConfig(c), NEW i \in DOMAIN c, NEW dest \in Locs
    PROVE  /\ Copies(c, Lands(c, i, dest))
           /\ ~Lands(c, i, dest).blocked
                => There(i, dest) \in DOMAIN c \cup DOMAIN Lands(c, i, dest).upserts
<1>1. i \in Ids
  BY ConfigEntry
<1>2. Lands(c, i, dest) = Arrival(c, c[i], There(i, dest))
  BY <1>1, ThereRecord, Zenon DEF Lands
<1>3. There(i, dest) \in Ids /\ There(i, dest).space = i.space
  BY <1>1, ThereFacts
<1> QED
  BY <1>2, <1>3, ArrivalShape

(* A plan of copies and deletions, each with a copy to fall through to.    *)
LEMMA MovingShape ==
    ASSUME NEW c, IsConfig(c), NEW gone, NEW p, OnlyCopies(c, p, gone), p.blocked = FALSE,
           NEW dest, \A d \in gone : HasSuccessor(c, p, d, dest)
    PROVE  Replaces(c, p) /\ StrandsNothing(c, p)
<1>1. DOMAIN p.renames = {} /\ DOMAIN p.edits = {}
  BY DEF OnlyCopies
<1>2. Replaces(c, p)
  BY <1>1, CopiesReplace, KeyedNone DEF OnlyCopies, HasSuccessor
<1>3. StrandsNothing(c, p)
  BY <1>2, FallsThrough DEF OnlyCopies
<1> QED
  BY <1>2, <1>3

(* plan_move                                                               *)
LEMMA MoveShape ==
    ASSUME NEW c, IsConfig(c), NEW id \in DOMAIN c, NEW dest \in Locs, NEW cascade \in BOOLEAN
    PROVE  LET p == PlanMove(c, id, dest, cascade)
           IN  Refuses(p) \/ (Replaces(c, p) /\ StrandsNothing(c, p))
<1> DEFINE moving == IF cascade THEN Closure(c, id, dest) ELSE {id}
           gone == {id} \cup {i \in moving : ~StillNeeded(c, i, moving)}
           A == {Lands(c, i, dest) : i \in moving}
           q == Promoting(A, gone)
           p == PlanMove(c, id, dest, cascade)
<1>1. p = IF PromotionBlocked(c, id, dest, ~cascade) THEN Refusal
          ELSE IF \E i \in moving : PromotionBlocked(c, i, dest, FALSE) THEN Refusal
          ELSE Sealed(q)
  BY Zenon DEF PlanMove, Lands
<1>2. CASE p = Refusal
  BY <1>2, RefusalRefuses
<1>3. CASE p # Refusal
  <2>1. p = Sealed(q) /\ ~PromotionBlocked(c, id, dest, ~cascade)
    BY <1>1, <1>3, Zenon
  <2>2. Upward(id.loc, dest) /\ id.loc \in Locs
    BY <2>1, ConfigEntry DEF PromotionBlocked, Ids
  <2>3. /\ id \in moving
        /\ \A i \in moving : i \in DOMAIN c /\ i.loc # dest /\ Sees(i.loc, dest)
    <3>1. Sees(id.loc, dest) /\ id.loc # dest
      BY <2>2, LocalFacts
    <3> QED
      BY <2>2, <3>1, ClosureFacts
  <2> HIDE DEF moving
  <2>4. gone \in SUBSET moving
    BY <2>3
  <2>5. \A a \in A : Copies(c, a)
    BY <2>3, LandsShape
  <2>6. \A i \in moving : Lands(c, i, dest) \in A
    OBVIOUS
  <2> HIDE DEF gone, A, p
  <2>7. q = Promoting(A, gone)
    OBVIOUS
  <2> HIDE DEF q
  <2>8. /\ OnlyCopies(c, q, gone)
        /\ q.blocked = FALSE => \A a \in A : ~a.blocked
        /\ \A i : i \in DOMAIN q.upserts <=> \E a \in A : i \in DOMAIN a.upserts
    <3>1. Together(c, A, gone, q)
      BY <2>5, <2>7, PromotingShape
    <3> QED
      BY <3>1 DEF Together
  <2>9. CASE q.blocked = TRUE
    BY <2>1, <2>9, SealedShape DEF p
  <2>10. CASE q.blocked = FALSE
    <3>1. p = q
      BY <2>1, <2>10, SealedShape
    <3>2. ASSUME NEW d \in gone PROVE HasSuccessor(c, q, d, dest)
      <4>1. Lands(c, d, dest) \in A /\ ~Lands(c, d, dest).blocked /\ d \in DOMAIN c
        BY <2>3, <2>4, <2>6, <2>8, <2>10
      <4>2. There(d, dest) \in DOMAIN c \cup DOMAIN q.upserts
        BY <2>8, <4>1, LandsShape
      <4>3. There(d, dest).loc = dest
        BY <4>1, ConfigEntry, ThereFacts
      <4>4. There(d, dest) \notin gone /\ q.deletes = gone
        BY <2>3, <2>4, <2>8, <4>3 DEF OnlyCopies
      <4> QED
        BY <2>3, <2>4, <4>1, <4>2, <4>4 DEF HasSuccessor, Left, There
    <3>3. Replaces(c, q) /\ StrandsNothing(c, q)
      BY <2>8, <2>10, <3>2, MovingShape
    <3> QED
      BY <3>1, <3>3 DEF p
  <2>11. q.blocked \in BOOLEAN
    BY <2>8 DEF OnlyCopies, Copies
  <2> QED
    BY <2>9, <2>10, <2>11
<1> QED
  BY <1>2, <1>3
-----------------------------------------------------------------------------
(* Ranking a bucket.                                                       *)

Ranking(s, b) ==
    /\ s \in [1 .. Cardinality(b) -> b] /\ Elements(s) = b
    /\ \A i, j \in DOMAIN s : i < j => Len(Chain[s[i].loc]) <= Len(Chain[s[j].loc])

(* One more object in front, as near to shared as any.                     *)
LEMMA RankingFront ==
    ASSUME NEW b \in SUBSET Ids, IsFiniteSet(b), NEW m \in b,
           \A i \in b : Len(Chain[m.loc]) <= Len(Chain[i.loc]),
           NEW t, Ranking(t, b \ {m})
    PROVE  \E s : Ranking(s, b)
<1> DEFINE rest == b \ {m}
           n == Cardinality(rest)
           s == [k \in 1 .. n + 1 |-> IF k = 1 THEN m ELSE t[k - 1]]
<1>1. n \in Nat /\ Cardinality(b) = n + 1
  <2>1. IsFiniteSet(rest) /\ Cardinality(rest) = Cardinality(b) - 1
    BY FS_RemoveElement
  <2>2. Cardinality(b) \in Nat /\ Cardinality(rest) \in Nat
    BY <2>1, FS_CardinalityType
  <2> QED
    BY <2>1, <2>2
<1>2. /\ t \in [1 .. n -> rest] /\ Elements(t) = rest
      /\ \A i, j \in DOMAIN t : i < j => Len(Chain[t[i].loc]) <= Len(Chain[t[j].loc])
  BY DEF Ranking
<1> HIDE DEF n
<1>3. DOMAIN t = 1 .. n /\ (\A k \in 1 .. n : t[k] \in rest) /\ \A x \in rest : \E k \in 1 .. n : t[k] = x
  BY <1>2 DEF Elements
<1> HIDE DEF rest
<1>4. /\ DOMAIN s = 1 .. n + 1 /\ s[1] = m
      /\ \A k \in 1 .. n + 1 : k # 1 => k - 1 \in 1 .. n /\ s[k] = t[k - 1]
  BY <1>1
<1>5. \A x : x \in rest <=> x \in b /\ x # m
  BY DEF rest
<1>6. \A k \in 1 .. n + 1 : s[k] \in b
  BY <1>3, <1>4, <1>5
<1>7. s \in [1 .. n + 1 -> b]
  BY <1>6
<1>8. \A x \in b : \E k \in 1 .. n + 1 : s[k] = x
  <2> TAKE x \in b
  <2>1. CASE x = m
    BY <1>1, <1>4, <2>1
  <2>2. CASE x # m
    <3>1. PICK k \in 1 .. n : t[k] = x
      BY <1>3, <1>5, <2>2
    <3>2. k + 1 \in 1 .. n + 1 /\ k + 1 # 1 /\ (k + 1) - 1 = k
      BY <1>1
    <3>3. s[k + 1] = t[(k + 1) - 1]
      BY <1>4, <3>2
    <3> QED
      BY <3>1, <3>2, <3>3
  <2> QED
    BY <2>1, <2>2
<1>9. ASSUME NEW i \in 1 .. n + 1, NEW j \in 1 .. n + 1, i < j
      PROVE  Len(Chain[s[i].loc]) <= Len(Chain[s[j].loc])
  <2>1. CASE i = 1
    BY <1>4, <1>6, <2>1
  <2>2. CASE i # 1
    <3>1. j # 1 /\ i - 1 \in 1 .. n /\ j - 1 \in 1 .. n /\ i - 1 < j - 1
      BY <1>1, <1>9, <2>2
    <3>2. Len(Chain[t[i - 1].loc]) <= Len(Chain[t[j - 1].loc])
      BY <1>2, <1>3, <3>1
    <3> QED
      BY <1>4, <2>2, <3>1, <3>2
  <2> QED
    BY <2>1, <2>2
<1> HIDE DEF s
<1>10. Elements(s) = b
  BY <1>4, <1>6, <1>8 DEF Elements
<1>11. Ranking(s, b)
  BY <1>1, <1>4, <1>7, <1>9, <1>10 DEF Ranking
<1> QED
  BY <1>11

(* Every bucket can be ranked.                                             *)
LEMMA RankingExists ==
    ASSUME NEW b \in SUBSET Ids
    PROVE  IsFiniteSet(b) /\ Cardinality(b) \in Nat /\ \E s : Ranking(s, b)
<1> DEFINE Rankable(n) == \A x \in SUBSET Ids : Cardinality(x) = n => \E s : Ranking(s, x)
           N == {n \in Nat : Rankable(n)}
<1>1. \A x \in SUBSET Ids : IsFiniteSet(x) /\ Cardinality(x) \in Nat
  BY FiniteAssumption, FS_Subset, FS_CardinalityType
<1>2. Rankable(0)
  <2> SUFFICES ASSUME NEW x \in SUBSET Ids, Cardinality(x) = 0 PROVE \E s : Ranking(s, x)
    OBVIOUS
  <2>1. x = {}
    BY <1>1, FS_EmptySet
  <2> DEFINE s == [k \in 1 .. 0 |-> k]
  <2>2. s \in [1 .. 0 -> x] /\ DOMAIN s = {} /\ Elements(s) = {}
    BY DEF Elements
  <2> HIDE DEF s
  <2>3. Ranking(s, x)
    BY <2>1, <2>2 DEF Ranking
  <2> QED
    BY <2>3
<1>3. ASSUME NEW n \in Nat, Rankable(n) PROVE Rankable(n + 1)
  <2> SUFFICES ASSUME NEW x \in SUBSET Ids, Cardinality(x) = n + 1 PROVE \E s : Ranking(s, x)
    OBVIOUS
  <2>1. x # {}
    BY FS_EmptySet
  <2> DEFINE lengths == {Len(Chain[i.loc]) : i \in x}
  <2>2. lengths \in SUBSET Nat /\ lengths # {}
    <3>1. \A l \in Locs : Len(Chain[l]) \in Nat
      BY ChainAssumption
    <3>2. \A i \in x : i.loc \in Locs
      BY DEF Ids
    <3> QED
      BY <2>1, <3>1, <3>2
  <2>3. PICK m \in x : \A l \in lengths : Len(Chain[m.loc]) <= l
    <3> HIDE DEF lengths
    <3>1. PICK l \in lengths : \A k \in lengths : l <= k
      BY <2>2, LeastNumber
    <3> QED
      BY <3>1 DEF lengths
  <2>4. \A i \in x : Len(Chain[m.loc]) <= Len(Chain[i.loc])
    BY <2>3
  <2>5. x \ {m} \in SUBSET Ids /\ Cardinality(x \ {m}) = n
    BY <1>1, FS_RemoveElement
  <2>6. PICK t : Ranking(t, x \ {m})
    BY <1>3, <2>5
  <2> QED
    BY <1>1, <2>4, <2>6, RankingFront
<1> HIDE DEF Rankable
<1>4. N = Nat
  <2>1. N \in SUBSET Nat /\ 0 \in N /\ \A n \in N : n + 1 \in N
    BY <1>2, <1>3
  <2> HIDE DEF N
  <2> QED
    BY <2>1, Induction
<1>5. Rankable(Cardinality(b))
  BY <1>1, <1>4
<1> QED
  BY <1>1, <1>5 DEF Rankable

(* So the rank order of a bucket is one.                                   *)
LEMMA RankedFacts ==
    ASSUME NEW b \in SUBSET Ids
    PROVE  /\ Cardinality(b) \in Nat
           /\ Elements(Ranked(b)) = b /\ DOMAIN Ranked(b) = 1 .. Cardinality(b)
<1>1. PICK s : Ranking(s, b)
  BY RankingExists
<1>2. Ranking(Ranked(b), b)
  BY <1>1 DEF Ranking, Ranked
<1> QED
  BY <1>2, RankingExists DEF Ranking
-----------------------------------------------------------------------------
(* Promoting: what comes and what goes.                                    *)

(* A bucket in an order, with a name to keep that one of its objects has.  *)
Bucket(c, ordered, keepName) ==
    /\ Elements(ordered) \subseteq DOMAIN c
    /\ DOMAIN ordered \in SUBSET Nat /\ 1 \in DOMAIN ordered
    /\ \A m, n \in Elements(ordered) : m.space = n.space
    /\ keepName # Nil => \E m \in Elements(ordered) : m.name = keepName

(* Nothing stands in the way of the objects on their way up.               *)
Upwards(ordered, dest) == \A m \in Elements(ordered) : m.loc # dest => Upward(m.loc, dest)

(* The name that is kept is one of the bucket's, the template an object of *)
(* that name; without a name to keep all have it.                          *)
LEMMA SurvivorFacts ==
    ASSUME NEW c, IsConfig(c), NEW ordered, NEW keepName, Bucket(c, ordered, keepName),
           NEW name, name = SurvivorName(ordered, keepName), name # Nil
    PROVE  /\ Template(ordered, name) \in Elements(ordered) /\ Template(ordered, name).name = name
           /\ name \in Names
           /\ keepName = Nil => \A m \in Elements(ordered) : m.name = name
<1> DEFINE ks == {k \in DOMAIN ordered : ordered[k].name = name}
           names == {m.name : m \in Elements(ordered)}
<1>1. Elements(ordered) \subseteq DOMAIN c /\ DOMAIN ordered \in SUBSET Nat /\ 1 \in DOMAIN ordered
  BY DEF Bucket
<1>2. \A m : m \in Elements(ordered) <=> \E k \in DOMAIN ordered : ordered[k] = m
  BY DEF Elements
<1>3. keepName = Nil => Cardinality(names) = 1 /\ name = ordered[1].name
  BY DEF SurvivorName
<1>4. ks # {}
  <2>1. CASE keepName = Nil
    BY <1>1, <1>3, <2>1
  <2>2. CASE keepName # Nil
    <3>1. name = keepName
      BY <2>2 DEF SurvivorName
    <3> QED
      BY <1>2, <2>2, <3>1 DEF Bucket
  <2> QED
    BY <2>1, <2>2
<1>5. ks \in SUBSET Nat
  BY <1>1
<1>6. Min(ks) \in ks
  <2> HIDE DEF ks
  <2> QED
    BY <1>4, <1>5, MinProperties
<1>7. Template(ordered, name) \in Elements(ordered) /\ Template(ordered, name).name = name
  BY <1>2, <1>6 DEF Template
<1>8. name \in Names
  BY <1>1, <1>7, ConfigEntry DEF Ids
<1>9. ASSUME keepName = Nil PROVE \A m \in Elements(ordered) : m.name = name
  <2>1. Elements(ordered) \in SUBSET Ids
    BY <1>1 DEF IsConfig
  <2>2. IsFiniteSet(Elements(ordered))
    BY <2>1, FiniteAssumption, FS_Subset
  <2>3. IsFiniteSet(names)
    <3> DEFINE f == [m \in Elements(ordered) |-> m.name]
    <3>1. f \in Surjection(Elements(ordered), names)
      BY DEF Surjection
    <3> HIDE DEF f, names
    <3> QED
      BY <2>2, <3>1, FS_Surjection
  <2>4. PICK n : names = {n}
    <3> HIDE DEF names
    <3> QED
      BY <1>3, <1>9, <2>3, FS_Singleton
  <2>5. \A m \in Elements(ordered) : m.name \in names
    OBVIOUS
  <2>6. name \in names
    BY <1>1, <1>2, <1>3, <1>9
  <2> HIDE DEF names
  <2> QED
    BY <2>4, <2>5, <2>6
<1> QED
  BY <1>7, <1>8, <1>9

(* The family of an object gives its namespace.                            *)
LEMMA FamilySpace ==
    ASSUME NEW k \in Kinds, NEW l \in Kinds, Family(k) = Family(l)
    PROVE  SpaceOf(k) = SpaceOf(l)
<1>1. k = l \/ (k \in {"dynamic-group", "address-group"} /\ l \in {"dynamic-group", "address-group"})
  BY DEF Family
<1> QED
  BY <1>1, SpaceOfFacts

(* A claim is for an object below the destination, under its own name or,  *)
(* for an object of the bucket, the name that is kept.                     *)
LEMMA ClaimFacts ==
    ASSUME NEW c, IsConfig(c), NEW ordered, NEW keepName, Bucket(c, ordered, keepName),
           NEW dest, Upwards(ordered, dest), NEW name \in Names,
           NEW x \in Claims(c, ordered, dest, name)
    PROVE  /\ x.by \in DOMAIN ordered
           /\ x.source \in DOMAIN c /\ x.source.loc # dest /\ Sees(x.source.loc, dest)
           /\ x.kind = Family(c[x.source].kind) /\ x.name \in Names
           /\ x.name = x.source.name \/ (x.source \in Elements(ordered) /\ x.name = name)
<1>1. PICK k \in DOMAIN ordered : \E i \in Closure(c, ordered[k], dest) :
            /\ ordered[k].loc # dest
            /\ x = [by |-> k, source |-> i, kind |-> Family(c[i].kind),
                    name |-> IF i = ordered[k] THEN name ELSE i.name]
  BY DEF Claims
<1>2. PICK i \in Closure(c, ordered[k], dest) :
            /\ ordered[k].loc # dest
            /\ x = [by |-> k, source |-> i, kind |-> Family(c[i].kind),
                    name |-> IF i = ordered[k] THEN name ELSE i.name]
  BY <1>1
<1>3. ordered[k] \in Elements(ordered) /\ ordered[k] \in DOMAIN c
  BY DEF Bucket, Elements
<1>4. Upward(ordered[k].loc, dest)
  BY <1>2, <1>3 DEF Upwards
<1>5. i \in DOMAIN c /\ i.loc # dest /\ Sees(i.loc, dest) /\ i.name \in Names
  BY <1>2, <1>3, <1>4, ClosureFacts, ConfigEntry DEF Ids
<1>6. /\ x.by = k /\ x.source = i /\ x.kind = Family(c[i].kind)
      /\ x.name = IF i = ordered[k] THEN name ELSE i.name
  BY <1>2
<1> QED
  BY <1>3, <1>5, <1>6

(* Every object of the bucket that is not at the destination claims its    *)
(* place there.                                                            *)
LEMMA CopyClaims ==
    ASSUME NEW c, IsConfig(c), NEW ordered, NEW keepName, Bucket(c, ordered, keepName),
           NEW dest, Upwards(ordered, dest), NEW name, NEW m \in Elements(ordered), m.loc # dest
    PROVE  \E x \in Claims(c, ordered, dest, name) : x.source = m /\ x.name = name
<1>1. PICK k \in DOMAIN ordered : ordered[k] = m
  BY DEF Elements
<1>2. m \in DOMAIN c /\ Upward(m.loc, dest)
  BY DEF Bucket, Upwards
<1>3. m \in Closure(c, m, dest)
  BY <1>2, ClosureFacts
<1> DEFINE x == [by |-> k, source |-> m, kind |-> Family(c[m].kind),
                 name |-> IF m = ordered[k] THEN name ELSE m.name]
<1>4. x \in Claims(c, ordered, dest, name)
  BY <1>1, <1>3 DEF Claims
<1>5. x.source = m /\ x.name = name
  BY <1>1
<1> QED
  BY <1>4, <1>5

(* Of equal claims one is kept.                                            *)
LEMMA FoldedFacts ==
    ASSUME NEW claims, \A x \in claims : x.by \in Nat
    PROVE  /\ Folded(claims) \subseteq claims
           /\ \A y \in claims : \E x \in Folded(claims) : SameClaim(x, y)
<1> DEFINE First(x, y) == SameClaim(x, y) /\ \A z \in claims : SameClaim(z, y) => x.by <= z.by
           one(y) == CHOOSE x \in claims : First(x, y)
<1>1. Folded(claims) = {one(y) : y \in claims}
  BY DEF Folded
<1>2. ASSUME NEW y \in claims PROVE \E x \in claims : First(x, y)
  <2> DEFINE bys == {z.by : z \in {v \in claims : SameClaim(v, y)}}
  <2>1. bys \in SUBSET Nat /\ y.by \in bys
    BY DEF SameClaim
  <2>2. \A z \in claims : SameClaim(z, y) => z.by \in bys
    OBVIOUS
  <2>3. \A b \in bys : \E x \in claims : SameClaim(x, y) /\ x.by = b
    OBVIOUS
  <2> HIDE DEF bys
  <2>4. PICK b \in bys : \A n \in bys : b <= n
    BY <2>1, LeastNumber
  <2> QED
    BY <2>2, <2>3, <2>4
<1> HIDE DEF First
<1>3. \A y \in claims : one(y) \in claims /\ First(one(y), y)
  BY <1>2
<1> HIDE DEF one
<1> QED
  BY <1>1, <1>3 DEF First

(* What lands and what departs, where one copy lands and where the copies  *)
(* bring what they need.                                                   *)
Landing(c, l, dest) ==
    l[1] \in DOMAIN c /\ l[2] \in Ids /\ l[2].space = l[1].space /\ l[2].loc = dest

(* What departs has a place at the destination, or is another name's.      *)
Placed(d, landings, dest) ==
    d.loc # dest /\ Sees(d.loc, dest) /\ \E l \in landings : l[2] = There(d, dest)

Departing(c, ordered, d, gone, landings, dest, name) ==
    /\ d \in DOMAIN c
    /\ \/ d \in Elements(ordered) /\ d.name # name
       \/ Placed(d, landings, dest) /\ There(d, dest) \notin gone

Landed(c, landings, dest) == \A l \in landings : Landing(c, l, dest)

Departed(c, ordered, gone, landings, dest, name) ==
    \A d \in gone : Departing(c, ordered, d, gone, landings, dest, name)

Arrived(landings, id) == \E l \in landings : l[2] = id

LEMMA OneLands ==
    ASSUME NEW c, IsConfig(c), NEW ordered, NEW keepName, Bucket(c, ordered, keepName),
           NEW dest \in Locs, Upwards(ordered, dest), NEW name \in Names,
           NEW t \in Elements(ordered), t = Template(ordered, name), t.name = name,
           NEW landings, landings = Landings(c, ordered, dest, name, FALSE),
           NEW gone, gone = Departures(c, ordered, dest, name, FALSE)
    PROVE  /\ Landed(c, landings, dest)
           /\ Arrived(landings, There(t, dest))
           /\ There(t, dest) \notin gone
           /\ Departed(c, ordered, gone, landings, dest, name)
<1>1. t \in DOMAIN c /\ t \in Ids
  BY ConfigEntry DEF Bucket
<1>2. [t EXCEPT !.loc = dest] = There(t, dest)
  BY <1>1, ThereRecord
<1>3. landings = {<<t, There(t, dest)>>}
  <2>1. landings = {<<t, [t EXCEPT !.loc = dest]>>}
    BY Zenon DEF Landings
  <2> QED
    BY <1>2, <2>1, Zenon
<1>4. gone = Elements(ordered) \ {There(t, dest)}
  <2>1. gone = Elements(ordered) \ {[t EXCEPT !.loc = dest]}
    BY Zenon DEF Departures
  <2> QED
    BY <1>2, <2>1, Zenon
<1> DEFINE one == <<t, There(t, dest)>>
<1>5. one[1] = t /\ one[2] = There(t, dest) /\ one \in landings /\ \A l \in landings : l = one
  BY <1>3
<1> HIDE DEF one
<1>6. /\ There(t, dest) \in Ids /\ There(t, dest).space = t.space /\ There(t, dest).name = name
      /\ There(t, dest).loc = dest
  BY <1>1, ThereFacts
<1>7. ASSUME NEW d \in gone, d.name = name PROVE Placed(d, landings, dest) /\ There(d, dest) \notin gone
  <2>1. d \in Elements(ordered) /\ d # There(t, dest)
    BY <1>4
  <2>2. d \in Ids /\ d.loc \in Locs /\ d.space = t.space
    BY <2>1, ConfigEntry DEF Bucket, Ids
  <2>3. There(d, dest) = There(t, dest)
    BY <1>7, <2>2 DEF There
  <2>4. d.loc # dest
    <3> SUFFICES ASSUME d.loc = dest PROVE d = There(d, dest)
      BY <2>1, <2>3
    <3> QED
      BY <2>2 DEF There, Slot, Ids
  <2>5. Sees(d.loc, dest)
    BY <2>1, <2>2, <2>4, LocalFacts DEF Upwards
  <2> QED
    BY <1>4, <1>5, <2>3, <2>4, <2>5 DEF Placed
<1>8. \A d \in gone : d \in Elements(ordered) /\ d \in DOMAIN c
  BY <1>4 DEF Bucket
<1> QED
  BY <1>1, <1>4, <1>5, <1>6, <1>7, <1>8 DEF Landing, Landed, Departing, Departed, Arrived

LEMMA ManyLand ==
    ASSUME NEW c, IsConfig(c), NEW ordered, NEW keepName, Bucket(c, ordered, keepName),
           NEW dest \in Locs, Upwards(ordered, dest), NEW name \in Names,
           NEW t \in Elements(ordered), t.name = name,
           NEW landings, landings = Landings(c, ordered, dest, name, TRUE),
           NEW gone, gone = Departures(c, ordered, dest, name, TRUE)
    PROVE  /\ Landed(c, landings, dest)
           /\ There(t, dest) \in DOMAIN c \/ Arrived(landings, There(t, dest))
           /\ There(t, dest) \notin gone
           /\ Departed(c, ordered, gone, landings, dest, name)
<1> DEFINE claims == Claims(c, ordered, dest, name)
           pair(x) == <<x.source, Slot(x.source.space, x.name, dest)>>
<1>1. landings = {pair(x) : x \in Folded(claims)}
  BY Zenon DEF Landings
<1>2. \A d \in gone : \E x \in claims : x.source = d
  BY DEF Departures
<1>3. ASSUME NEW x \in claims
      PROVE  /\ x.by \in Nat
             /\ x.source \in DOMAIN c /\ x.source.loc # dest /\ Sees(x.source.loc, dest)
             /\ x.kind = Family(c[x.source].kind) /\ x.name \in Names
             /\ x.name = x.source.name \/ (x.source \in Elements(ordered) /\ x.name = name)
  <2>1. DOMAIN ordered \in SUBSET Nat
    BY DEF Bucket
  <2> QED
    BY <2>1, ClaimFacts
<1>4. \A m \in Elements(ordered) : m.loc # dest => \E x \in claims : x.source = m /\ x.name = name
  BY CopyClaims
<1> HIDE DEF claims
<1>5. /\ Folded(claims) \subseteq claims
      /\ \A y \in claims : \E x \in Folded(claims) : SameClaim(x, y)
  BY <1>3, FoldedFacts
<1>6. ASSUME NEW x \in claims
      PROVE  /\ pair(x)[1] = x.source /\ pair(x)[2] = Slot(x.source.space, x.name, dest)
             /\ x.source.space = SpaceOf(c[x.source].kind) /\ x.source.space \in Spaces
  BY <1>3, ConfigEntry DEF Ids
<1>7. \A l \in landings : Landing(c, l, dest)
  <2> TAKE l \in landings
  <2>1. PICK x \in claims : l = pair(x)
    BY <1>1, <1>5
  <2>2. l[1] = x.source /\ l[2] = Slot(x.source.space, x.name, dest) /\ x.source.space \in Spaces
    BY <1>6, <2>1
  <2>3. /\ Slot(x.source.space, x.name, dest) \in Ids
        /\ Slot(x.source.space, x.name, dest).space = x.source.space
        /\ Slot(x.source.space, x.name, dest).loc = dest
    BY <1>3, <2>2 DEF Slot, Ids
  <2> QED
    BY <1>3, <2>2, <2>3 DEF Landing
<1>8. ASSUME NEW y \in claims
      PROVE  \E l \in landings : l[2] = Slot(y.source.space, y.name, dest)
  <2>1. PICK x \in Folded(claims) : SameClaim(x, y)
    BY <1>5
  <2>2. x \in claims /\ x.kind = y.kind /\ x.name = y.name
    BY <1>5, <2>1 DEF SameClaim
  <2>3. x.source.space = y.source.space
    <3>1. Family(c[x.source].kind) = Family(c[y.source].kind)
      BY <1>3, <2>2
    <3>2. c[x.source].kind \in Kinds /\ c[y.source].kind \in Kinds
      BY <1>3, <2>2, ConfigEntry
    <3> QED
      BY <1>6, <2>2, <3>1, <3>2, FamilySpace
  <2>4. pair(x) \in landings
    BY <1>1
  <2> QED
    BY <1>6, <2>2, <2>3, <2>4
<1>9. t \in DOMAIN c /\ t \in Ids
  BY ConfigEntry DEF Bucket
<1>10. There(t, dest) \in DOMAIN c \/ \E l \in landings : l[2] = There(t, dest)
  <2>1. CASE t.loc = dest
    <3>1. There(t, dest) = t
      BY <1>9, <2>1 DEF There, Slot, Ids
    <3> QED
      BY <1>9, <3>1
  <2>2. CASE t.loc # dest
    <3>1. PICK y \in claims : y.source = t /\ y.name = name
      BY <1>4, <2>2
    <3>2. Slot(y.source.space, y.name, dest) = There(t, dest)
      BY <3>1 DEF There
    <3> QED
      BY <1>8, <3>2
  <2> QED
    BY <2>1, <2>2
<1>11. There(t, dest) \notin gone
  <2>1. There(t, dest).loc = dest
    BY <1>9, ThereFacts
  <2> QED
    BY <1>2, <1>3, <2>1
<1>12. ASSUME NEW d \in gone PROVE Departing(c, ordered, d, gone, landings, dest, name)
  <2>1. PICK x \in claims : x.source = d
    BY <1>2
  <2>2. CASE x.name = d.name
    <3>1. Placed(d, landings, dest)
      BY <1>3, <1>8, <2>1, <2>2 DEF Placed, There
    <3>2. There(d, dest).loc = dest
      BY <1>3, <2>1, ConfigEntry, ThereFacts
    <3>3. There(d, dest) \notin gone
      BY <1>2, <1>3, <3>2
    <3> QED
      BY <1>3, <2>1, <3>1, <3>3 DEF Departing
  <2>3. CASE x.name # d.name
    BY <1>3, <2>1, <2>3 DEF Departing
  <2> QED
    BY <2>2, <2>3
<1> QED
  BY <1>7, <1>10, <1>11, <1>12 DEF Landed, Departed, Arrived
-----------------------------------------------------------------------------
(* Promoting: the plan.                                                    *)

Arrivals(c, landings) == {Arrival(c, c[l[1]], l[2]) : l \in landings}

(* A plan with edits added.                                                *)
WithEdits(ops, edits) == [ops EXCEPT !.edits = edits]

(* What lands without being blocked is there afterwards.                   *)
LEMMA ArrivalsShape ==
    ASSUME NEW c, IsConfig(c), NEW dest, NEW landings, Landed(c, landings, dest),
           NEW gone, NEW ops, ops = Promoting(Arrivals(c, landings), gone)
    PROVE  /\ OnlyCopies(c, ops, gone)
           /\ Unedited(ops, gone)
           /\ ops.blocked = FALSE => \A l \in landings : l[2] \in DOMAIN c \cup DOMAIN ops.upserts
<1> DEFINE A == Arrivals(c, landings)
           a(l) == Arrival(c, c[l[1]], l[2])
<1>1. ASSUME NEW l \in landings
      PROVE  /\ Copies(c, a(l)) /\ a(l) \in A
             /\ ~a(l).blocked => l[2] \in DOMAIN c \cup DOMAIN a(l).upserts
  BY ArrivalShape DEF Landing, Landed, Arrivals
<1>2. \A x \in A : \E l \in landings : x = a(l)
  BY DEF Arrivals
<1> HIDE DEF A, a
<1>3. \A x \in A : Copies(c, x)
  BY <1>1, <1>2
<1>4. ops = Promoting(A, gone)
  BY DEF A
<1>5. /\ OnlyCopies(c, ops, gone)
      /\ Unedited(ops, gone)
      /\ ops.blocked = FALSE => \A x \in A : ~x.blocked
      /\ \A i : i \in DOMAIN ops.upserts <=> \E x \in A : i \in DOMAIN x.upserts
  <2>1. Together(c, A, gone, ops)
    BY <1>3, <1>4, PromotingShape
  <2> QED
    BY <2>1 DEF Together
<1>6. ASSUME ops.blocked = FALSE, NEW l \in landings PROVE l[2] \in DOMAIN c \cup DOMAIN ops.upserts
  BY <1>1, <1>5, <1>6
<1> QED
  BY <1>5, <1>6

(* The record of the rewriting, and of the plan with it.                   *)
LEMMA RepointingRecord ==
    ASSUME NEW s, NEW keep, NEW drops, NEW live
    PROVE  /\ Repointing(s, keep, drops, live).edits = Repoints(s, Takes(drops, keep.name))
           /\ Repointing(s, keep, drops, live).blocked = Unreached(s, keep, drops, live)
<1> DEFINE edits == Repoints(s, Takes(drops, keep.name))
           b == Unreached(s, keep, drops, live)
<1>1. Repointing(s, keep, drops, live) = [EmptyPlan EXCEPT !.edits = edits, !.blocked = b]
  BY DEF Repointing, Takes, Unreached
<1> HIDE DEF edits, b
<1>2. Repointing(s, keep, drops, live) = PlanOf(<<>>, edits, <<>>, {}, b)
  BY <1>1, PlanRecords
<1> QED
  BY <1>2 DEF PlanOf, edits, b

(* A gate lets copies and edits pass as they are.                          *)
Passed(s, p, ops, edits, gone) ==
    /\ p.upserts = ops.upserts /\ p.edits = edits /\ p.renames = <<>>
    /\ p.ruleDeletes = {} /\ p.deletes = gone /\ p.blocked = FALSE
    /\ ~GateBlocks(s, p)

LEMMA GatedOps ==
    ASSUME NEW c, NEW s, NEW gone, NEW ops, OnlyCopies(c, ops, gone), ops.blocked = FALSE,
           Unedited(ops, gone), NEW edits, NEW p, p = Gated(s, WithEdits(ops, edits))
    PROVE  Refuses(p) \/ Passed(s, p, ops, edits, gone)
<1>1. PICK u, b : ops = PlanOf(u, <<>>, <<>>, gone, b)
  BY DEF Unedited
<1>2. ops.upserts = u /\ b = FALSE
  BY <1>1 DEF PlanOf
<1> DEFINE made == PlanOf(u, edits, <<>>, gone, FALSE)
<1>3. ASSUME NEW q, q = [ops EXCEPT !.edits = edits] PROVE q = made
  BY <1>1, <1>2, <1>3 DEF PlanOf
<1>4. p = Gated(s, made)
  BY <1>3, Zenon DEF WithEdits
<1>5. Refuses(p) \/ (p = made /\ ~GateBlocks(s, made))
  BY <1>4, GatedShape
<1>6. /\ made.upserts = u /\ made.edits = edits /\ made.renames = <<>>
      /\ made.ruleDeletes = {} /\ made.deletes = gone /\ made.blocked = FALSE
  BY DEF PlanOf
<1> HIDE DEF made
<1> QED
  BY <1>2, <1>5, <1>6 DEF Passed

(* A definition of another name leaves a reference alone.                  *)
LEMMA TargetElsewhere ==
    ASSUME NEW live, NEW s, NEW r, r.name # s.name
    PROVE  Target(live \cup {s}, r) = Target(live, r)
<1>1. \A l : Slot(NsOf(r.field), r.name, l) # s
  BY DEF Slot
<1>2. \A l : Slot(NsOf(r.field), r.name, l) \in live \cup {s} <=> Slot(NsOf(r.field), r.name, l) \in live
  BY <1>1
<1>3. {i \in DOMAIN Chain[r.by.loc] : Slot(NsOf(r.field), r.name, Chain[r.by.loc][i]) \in live \cup {s}}
       = {i \in DOMAIN Chain[r.by.loc] : Slot(NsOf(r.field), r.name, Chain[r.by.loc][i]) \in live}
  BY <1>2
<1> QED
  BY <1>3, Zenon DEF Target, Resolve

(* The configuration with the survivor in its place.                       *)
Synthesized(c, s, at) ==
    /\ IsConfig(s) /\ (Untagged(c) => Untagged(s))
    /\ DOMAIN s = DOMAIN c \cup {at}
    /\ \A i \in DOMAIN c : s[i] = c[i]
    /\ Refs(c) \subseteq Refs(s)

LEMMA SyntheticShape ==
    ASSUME NEW c, IsConfig(c), NEW t \in DOMAIN c, NEW dest \in Locs,
           NEW s, s = Synthetic(c, There(t, dest), c[t])
    PROVE  Synthesized(c, s, There(t, dest))
<1> DEFINE at == There(t, dest)
<1>1. at \in Ids /\ at.space = t.space /\ at.name = t.name /\ at.loc = dest
  BY ConfigEntry, ThereFacts
<1> HIDE DEF at
<1>2. s = [i \in DOMAIN c \cup {at} |-> IF i \in DOMAIN c THEN c[i] ELSE c[t]]
  BY DEF Synthetic, at
<1>3. /\ DOMAIN s = DOMAIN c \cup {at} /\ \A i \in DOMAIN c : s[i] = c[i]
      /\ \A i \in DOMAIN s : s[i] = c[i] \/ (s[i] = c[t] /\ i = at)
      /\ s = [i \in DOMAIN s |-> s[i]]
  BY <1>2
<1>4. \A i \in DOMAIN s : (s[i] = c[i] /\ i \in DOMAIN c) \/ (s[i] = c[t] /\ i = at)
  BY <1>2
<1>5. IsConfig(s)
  <2>1. DOMAIN s \subseteq Ids
    BY <1>1, <1>3 DEF IsConfig
  <2>2. \A i \in DOMAIN s : s[i] \in Entry /\ SpaceOf(s[i].kind) = i.space
    BY <1>1, <1>4, ConfigEntry
  <2> QED
    BY <1>3, <2>1, <2>2 DEF IsConfig
<1>6. Untagged(c) => Untagged(s)
  BY <1>4 DEF Untagged
<1>7. Refs(c) \subseteq Refs(s)
  BY <1>3, RefsMembership
<1> QED
  BY <1>3, <1>5, <1>6, <1>7 DEF at, Synthesized

(* What a plan to promote does, if it is not refused: it creates copies,   *)
(* and what it deletes has one at the destination or is of another name.   *)
Promotes(c, p, ordered, dest, name) ==
    /\ Copies(c, p) /\ p.blocked = FALSE /\ p.ruleDeletes = {} /\ p.renames = <<>>
    /\ \A k \in DOMAIN p.edits : p.edits[k] \in SUBSET Members
    /\ Keyed(c, p)
    /\ \A d \in p.deletes :
        /\ d \in DOMAIN c
        /\ \/ d \in Elements(ordered) /\ d.name # name
           \/ /\ d.loc # dest /\ Sees(d.loc, dest)
              /\ There(d, dest) \in Left(c, p)

(* The plan of a bucket strands nothing.                                   *)
LEMMA PromotionStrands ==
    ASSUME NEW c, IsConfig(c), Untagged(c), NEW ordered, NEW keepName, Bucket(c, ordered, keepName),
           NEW dest \in Locs, NEW name \in Names, NEW t \in Elements(ordered), t.name = name,
           NEW p, Promotes(c, p, ordered, dest, name), There(t, dest) \in Left(c, p),
           NEW s, s = Synthetic(c, There(t, dest), c[t]),
           NEW odd, odd = {m \in Elements(ordered) : m.name # name},
           NEW renames, renames = Takes(odd, name), p.edits = Repoints(s, renames),
           ~GateBlocks(s, p),
           \A r \in WhereUsed(s, odd) : Reaches(DOMAIN s \ Elements(ordered), r, There(t, dest))
    PROVE  StrandsNothing(c, p)
<1> DEFINE at == There(t, dest)
           after == Left(c, p)
<1>1. Elements(ordered) \subseteq DOMAIN c /\ \A m, n \in Elements(ordered) : m.space = n.space
  BY DEF Bucket
<1>2. at \in Ids /\ at.space = t.space /\ at.name = name /\ at.loc = dest /\ t \in DOMAIN c
  BY <1>1, ConfigEntry, ThereFacts
<1>3. /\ IsConfig(s) /\ Untagged(s) /\ DOMAIN s = DOMAIN c \cup {at}
      /\ \A i \in DOMAIN c : s[i] = c[i]
      /\ Refs(c) \subseteq Refs(s)
  <2>1. t \in DOMAIN c
    BY <1>2
  <2>2. Synthesized(c, s, There(t, dest))
    BY <2>1, SyntheticShape
  <2> QED
    BY <2>2 DEF Synthesized
<1> HIDE DEF at
<1>4. DOMAIN renames = odd /\ \A x \in odd : renames[x] = name
  BY DEF Takes
<1>5. \A x \in odd : x \in Elements(ordered) /\ x \in DOMAIN c /\ x.name # name
  BY <1>1
<1>6. \A x \in DOMAIN renames : x \in Ids /\ renames[x] \in Names
  BY <1>4, <1>5, ConfigEntry
<1>7. Plain(s, renames)
  BY <1>3, <1>6, PlainFacts
<1>8. \A r \in WhereUsed(s, odd) : Resolve(DOMAIN s \ Elements(ordered), "address", name, r.by.loc) = at
  BY <1>2 DEF Reaches, at
<1>9. at \in after
  BY DEF Left, at
<1>10. ASSUME NEW q \in Refs(c), q \in WrittenRefs(s, renames)
       PROVE  Resolve(after, NsOf(q.field), renames[Target(DOMAIN s, q)], q.by.loc) # Nil
  <2>1. Target(DOMAIN s, q) \in odd /\ q \in Repointed(s, renames)
    BY <1>3, <1>4, <1>10, RepointedFacts DEF WrittenRefs
  <2>2. q \in WhereUsed(s, odd) /\ renames[Target(DOMAIN s, q)] = name
    BY <1>4, <2>1 DEF Repointed
  <2>3. NsOf(q.field) \in Spaces /\ q.by.loc \in Locs
    BY RefsType
  <2>4. Resolve(DOMAIN s \ Elements(ordered), "address", name, q.by.loc) = at /\ at # Nil
    BY <1>2, <1>8, <2>2, NamesAssumption
  <2>5. at.space = "address" /\ Sees(q.by.loc, at.loc)
    <3>1. "address" \in Spaces
      BY DEF Spaces, ObjectSpaces
    <3> QED
      BY <2>3, <2>4, <3>1, ResolveSeen, ResolveProperties
  <2>6. Target(DOMAIN s, q).space = NsOf(q.field)
    <3>1. Target(DOMAIN s, q) # Nil
      BY <1>5, <2>1, ConfigEntry, NamesAssumption
    <3> QED
      BY <1>3, <3>1, TargetSeen
  <2>7. NsOf(q.field) = "address"
    BY <1>1, <1>2, <1>5, <2>1, <2>5, <2>6
  <2>8. at = Slot("address", name, at.loc)
    BY <1>2, <2>5 DEF Slot, Ids
  <2> QED
    BY <1>9, <2>2, <2>3, <2>5, <2>7, <2>8, ResolveSeen
<1>11. ASSUME NEW q \in Refs(c), q \notin WrittenRefs(s, renames), Target(DOMAIN c, q) \in p.deletes
       PROVE  Target(after, q) # Nil
  <2> DEFINE d == Target(DOMAIN c, q)
  <2>1. d \in DOMAIN c /\ d # Nil
    BY <1>11, ConfigEntry, NamesAssumption DEF Promotes
  <2>2. d.space = NsOf(q.field) /\ d.name = q.name /\ Sees(q.by.loc, d.loc)
    BY <2>1, TargetSeen
  <2>3. p.deletes # {}
    BY <1>11
  <2>4. d \notin odd
    <3> SUFFICES ASSUME d \in odd PROVE FALSE
      OBVIOUS
    <3>1. q.name # at.name
      BY <1>2, <1>5, <2>2
    <3>2. Target(DOMAIN s, q) = d
      BY <1>3, <3>1, TargetElsewhere
    <3> HIDE DEF d
    <3>3. q \in Repointed(s, renames)
      BY <1>3, <1>4, <1>5, <2>2, <3>2 DEF Repointed, WhereUsed
    <3>4. <<q.by, q.field>> \in DOMAIN p.edits
      BY <1>3, <1>6, <3>3, RepointsValue
    <3>5. Mappable(s[q.by].kind, q.field)
      BY <2>3, <3>4 DEF GateBlocks
    <3> QED
      BY <1>11, <3>3, <3>5 DEF WrittenRefs
  <2>5. ~(d \in Elements(ordered) /\ d.name # name)
    BY <2>4
  <2>6. d.loc # dest /\ Sees(d.loc, dest) /\ There(d, dest) \in after
    BY <1>11, <2>5 DEF Promotes
  <2> HIDE DEF d
  <2>8. Sees(q.by.loc, dest)
    BY <2>2, <2>6, RefsType, SeesFacts
  <2>9. Slot(NsOf(q.field), q.name, dest) \in after
    BY <2>2, <2>6 DEF There
  <2> QED
    BY <2>8, <2>9, SeenTarget DEF d
<1>12. Reroutes(c, p, s, renames)
  <2>1. DOMAIN c \subseteq DOMAIN s
    BY <1>3
  <2> HIDE DEF after
  <2>2. after = Left(c, p)
    BY DEF after
  <2> QED
    BY <1>3, <1>6, <1>7, <1>10, <1>11, <2>1, <2>2 DEF Reroutes
<1>13. DOMAIN p.renames = {}
  BY DEF Promotes
<1>14. Replaces(c, p)
  BY <1>13, CopiesReplace DEF Promotes
<1> QED
  BY <1>12, <1>14, ReplaceStrands
(* What is safe to run: a plan is refused, renames or replaces, and where  *)
(* groups have no tags of their own it strands nothing.                    *)
Sound(c, p) ==
    \/ Refuses(p)
    \/ (Renames(c, p) \/ Replaces(c, p)) /\ (Untagged(c) => StrandsNothing(c, p))

(* plan_promote                                                            *)
LEMMA PromoteShape ==
    ASSUME NEW c, IsConfig(c), NEW ordered, NEW keepName, Bucket(c, ordered, keepName),
           NEW dest \in Locs, NEW cascade \in BOOLEAN,
           NEW name, name = SurvivorName(ordered, keepName),
           NEW p, p = PlanPromote(c, ordered, dest, keepName, cascade)
    PROVE  /\ Sound(c, p)
           /\ Refuses(p) \/ (Promotes(c, p, ordered, dest, name) /\ name # Nil)
<1> DEFINE t == Template(ordered, name)
           survivor == [t EXCEPT !.loc = dest]
           landings == Landings(c, ordered, dest, name, cascade)
           gone == Departures(c, ordered, dest, name, cascade)
           ops == Promoting(Arrivals(c, landings), gone)
           odd == {m \in Elements(ordered) : m.name # name}
           seen(x) == Synthetic(c, x, c[t])
           rep(x) == Repointing(seen(x), x, odd, DOMAIN seen(x) \ Elements(ordered))
           stuck == Unpromotable(c, ordered, dest, name, cascade)
           made(x) == Gated(seen(x), WithEdits(ops, rep(x).edits))
<1>1. p = IF stuck \/ ops.blocked \/ rep(survivor).blocked THEN Refusal ELSE made(survivor)
  BY Zenon DEF PlanPromote, Arrivals, WithEdits
<1> HIDE DEF rep, made
<1>2. CASE p = Refusal
  BY <1>2, RefusalRefuses DEF Sound
<1>3. CASE p # Refusal
  <2>1. ~stuck /\ ~ops.blocked /\ ~rep(survivor).blocked /\ p = made(survivor)
    BY <1>1, <1>3, Zenon
  <2> HIDE DEF ops, landings, gone
  <2>2. name # Nil /\ Upwards(ordered, dest)
    <3>1. ~stuck
      BY <2>1, Zenon
    <3>2. name # Nil /\ \A m \in Elements(ordered) : m.loc # dest => ~PromotionBlocked(c, m, dest, ~cascade)
      BY <3>1, Zenon DEF Unpromotable
    <3> QED
      BY <3>2 DEF PromotionBlocked, Upwards
  <2> HIDE DEF stuck, t
  <2>3. t \in Elements(ordered) /\ t.name = name /\ name \in Names
    BY <2>2, SurvivorFacts DEF t
  <2>4. t \in DOMAIN c /\ t \in Ids
    BY <2>3, ConfigEntry DEF Bucket
  <2> DEFINE at == There(t, dest)
  <2>5. survivor = at
    BY <2>4, ThereRecord
  <2>6. ~rep(at).blocked /\ p = made(at)
    BY <2>1, <2>5, Zenon
  <2> DEFINE s == seen(at)
             edits == Repoints(s, Takes(odd, name))
  <2>7. at.name = name
    BY <2>3, <2>4, ThereFacts
  <2>8. /\ rep(at).edits = edits
        /\ \A r \in WhereUsed(s, odd) : Reaches(DOMAIN s \ Elements(ordered), r, at)
    <3> HIDE DEF at, s
    <3>1. rep(at) = Repointing(s, at, odd, DOMAIN s \ Elements(ordered))
      BY DEF rep, s
    <3> HIDE DEF rep, odd
    <3>2. rep(at).edits = edits
      BY <2>7, <3>1, RepointingRecord
    <3>3. rep(at).blocked = Unreached(s, at, odd, DOMAIN s \ Elements(ordered))
      BY <3>1, RepointingRecord
    <3>4. ~Unreached(s, at, odd, DOMAIN s \ Elements(ordered))
      BY <2>6, <3>3, Zenon
    <3> QED
      BY <3>2, <3>4 DEF Unreached
  <2>9. p = Gated(s, WithEdits(ops, edits))
    <3>1. p = Gated(s, WithEdits(ops, rep(at).edits))
      BY <2>6, Zenon DEF made
    <3> HIDE DEF s, at, edits
    <3> QED
      BY <2>8, <3>1, Zenon
  <2> HIDE DEF survivor, at
  <2>10. at = There(t, dest)
    BY DEF at
  <2> HIDE DEF s
  <2>11. s = Synthetic(c, There(t, dest), c[t])
    BY <2>10 DEF s
  <2> HIDE DEF seen
  <2>12. /\ Landed(c, landings, dest)
         /\ at \in DOMAIN c \/ Arrived(landings, at)
         /\ at \notin gone
         /\ Departed(c, ordered, gone, landings, dest, name)
    <3>1. CASE cascade = TRUE
      <4>1. landings = Landings(c, ordered, dest, name, TRUE) /\ gone = Departures(c, ordered, dest, name, TRUE)
        BY <3>1 DEF landings, gone
      <4> QED
        BY <2>2, <2>3, <2>10, <4>1, ManyLand
    <3>2. CASE cascade = FALSE
      <4>1. landings = Landings(c, ordered, dest, name, FALSE) /\ gone = Departures(c, ordered, dest, name, FALSE)
        BY <3>2 DEF landings, gone
      <4>2. t = Template(ordered, name)
        BY DEF t
      <4> QED
        BY <2>2, <2>3, <2>10, <4>1, <4>2, OneLands
    <3> QED
      BY <3>1, <3>2
  <2>13. ops = Promoting(Arrivals(c, landings), gone)
    BY DEF ops
  <2>14. /\ OnlyCopies(c, ops, gone)
         /\ Unedited(ops, gone)
    BY <2>12, <2>13, ArrivalsShape
  <2>15. ops.blocked = FALSE
    BY <2>1, <2>14 DEF OnlyCopies, Copies
  <2>16. \A l \in landings : l[2] \in DOMAIN c \cup DOMAIN ops.upserts
    BY <2>12, <2>13, <2>15, ArrivalsShape
  <2> HIDE DEF odd, edits
  <2>17. Refuses(p) \/ Passed(s, p, ops, edits, gone)
    BY <2>9, <2>14, <2>15, GatedOps
  <2>18. CASE Refuses(p)
    BY <2>18 DEF Sound
  <2>19. CASE ~Refuses(p)
    <3>1. /\ p.upserts = ops.upserts /\ p.edits = edits /\ p.renames = <<>>
          /\ p.ruleDeletes = {} /\ p.deletes = gone /\ p.blocked = FALSE
          /\ ~GateBlocks(s, p)
      <4>1. Passed(s, p, ops, edits, gone)
        BY <2>17, <2>19, Zenon
      <4> QED
        BY <4>1, Zenon DEF Passed
    <3>2. Copies(c, p)
      <4>1. Copies(c, ops)
        BY <2>14 DEF OnlyCopies
      <4>2. p.upserts = ops.upserts /\ p.blocked \in BOOLEAN
        BY <3>1
      <4> QED
        BY <4>1, <4>2, Zenon DEF Copies
    <3>3. IsConfig(s)
      BY <2>4, <2>11, SyntheticShape DEF Synthesized
    <3>4. \A k \in DOMAIN edits : edits[k] \in SUBSET Members
      <4>1. edits = Repoints(s, Takes(odd, name)) /\ \A i \in DOMAIN Takes(odd, name) : Takes(odd, name)[i] \in Names
        BY <2>3 DEF edits, Takes
      <4> DEFINE renames == Takes(odd, name)
      <4> HIDE DEF renames
      <4>2. edits = Repoints(s, renames) /\ \A i \in DOMAIN renames : renames[i] \in Names
        BY <4>1 DEF renames
      <4> QED
        BY <3>3, <4>2, RepointsValue
    <3>5. Left(c, p) = (DOMAIN c \cup DOMAIN ops.upserts) \ gone
      BY <3>1 DEF Left
    <3>6. at \in Left(c, p)
      BY <2>12, <2>16, <3>5 DEF Arrived
    <3>7. ASSUME NEW d \in gone
          PROVE  /\ d \in DOMAIN c
                 /\ \/ d \in Elements(ordered) /\ d.name # name
                    \/ d.loc # dest /\ Sees(d.loc, dest) /\ There(d, dest) \in Left(c, p)
      BY <2>12, <2>16, <3>5 DEF Departed, Departing, Placed
    <3>8. Keyed(c, p)
      <4> DEFINE renames == Takes(odd, name)
      <4>1. p.edits = Repoints(s, renames) /\ \A i \in DOMAIN renames : renames[i] \in Names
        BY <2>3, <3>1 DEF edits, Takes
      <4>2. Synthesized(c, s, at)
        BY <2>4, <2>10, <2>11, SyntheticShape
      <4>3. at \in DOMAIN c \cup DOMAIN p.upserts
        BY <3>6 DEF Left
      <4>4. DOMAIN s \subseteq DOMAIN c \cup DOMAIN p.upserts /\ (Untagged(c) => Untagged(s))
        BY <4>2, <4>3 DEF Synthesized
      <4> HIDE DEF renames
      <4> QED
        BY <3>3, <4>1, <4>4, RepointsKeyed
    <3>9. Promotes(c, p, ordered, dest, name)
      BY <3>1, <3>2, <3>4, <3>7, <3>8 DEF Promotes
    <3>10. Replaces(c, p)
      <4>1. /\ p.blocked = FALSE /\ p.ruleDeletes = {} /\ DOMAIN p.renames = {}
            /\ \A k \in DOMAIN p.edits : p.edits[k] \in SUBSET Members
            /\ p.deletes \subseteq DOMAIN c
        BY <3>1, <3>4, <3>7
      <4> QED
        BY <3>2, <3>8, <4>1, CopiesReplace
    <3>11. ASSUME Untagged(c) PROVE StrandsNothing(c, p)
      <4>1. odd = {m \in Elements(ordered) : m.name # name}
        BY DEF odd
      <4>2. There(t, dest) \in Left(c, p)
        BY <2>10, <3>6
      <4>3. \A r \in WhereUsed(s, odd) : Reaches(DOMAIN s \ Elements(ordered), r, There(t, dest))
        BY <2>8, <2>10
      <4>4. ~GateBlocks(s, p)
        BY <3>1
      <4> DEFINE renames == Takes(odd, name)
      <4>5. renames = Takes(odd, name) /\ p.edits = Repoints(s, renames)
        BY <3>1 DEF edits
      <4> HIDE DEF renames
      <4> QED
        BY <2>3, <2>11, <3>9, <3>11, <4>1, <4>2, <4>3, <4>4, <4>5, PromotionStrands
    <3> QED
      BY <2>2, <3>9, <3>10, <3>11 DEF Sound
  <2> QED
    BY <2>18, <2>19
<1> QED
  BY <1>2, <1>3
-----------------------------------------------------------------------------
(* Promoting all: what the sweep adds.                                     *)

(* The copies of what is at the destination, or will be.                   *)
Copied(c, dest, q) ==
    LET at(i)     == [i EXCEPT !.loc = dest]
        copied(i) == IF Defines(c, c[i].kind, at(i)) THEN SameValue(c[i], c[at(i)])
                     ELSE at(i) \in DOMAIN q.upserts
                          /\ Family(q.upserts[at(i)].kind) = Family(c[i].kind)
    IN  {i \in DOMAIN c : /\ i.space \in ObjectSpaces /\ c[i].kind # "service-group"
                          /\ Upward(i.loc, dest) /\ copied(i)}

WithDeletes(q, d) == [q EXCEPT !.deletes = d]

(* Only such copies are added to what goes.                                *)
LEMMA PrunedWalk ==
    ASSUME NEW c, IsConfig(c), NEW dest, NEW q
    PROVE  \E d : Pruned(c, dest, q) = WithDeletes(q, d) /\ d \subseteq q.deletes \cup Copied(c, dest, q)
<1> DEFINE copies == Copied(c, dest, q)
           depth == Cardinality(copies)
           base == q.deletes
           step(s) == s \cup {i \in copies : WhereUsed(c, {i}) # {} /\ ~StillNeeded(c, i, s)}
           Walk(g, n) == g = [k \in 0 .. n |-> IF k = 0 THEN base ELSE step(g[k - 1])]
           G(n) == \E g : Walk(g, n)
           upTo == CHOOSE g : Walk(g, depth)
           N == {n \in Nat : G(n)}
<1>1. Pruned(c, dest, q) = WithDeletes(q, upTo[depth])
  BY Zenon DEF Pruned, WithDeletes, Copied
<1>2. depth \in Nat
  <2>1. copies \subseteq DOMAIN c
    BY DEF Copied
  <2> HIDE DEF copies
  <2> QED
    BY <2>1, ObjectsFinite, FS_Subset, FS_CardinalityType
<1>3. \A s : step(s) \subseteq s \cup copies
  OBVIOUS
<1> HIDE DEF copies, depth, base, step
<1>4. G(0)
  <2> DEFINE g == [k \in 0 .. 0 |-> base]
  <2>1. Walk(g, 0)
    OBVIOUS
  <2> QED
    BY <2>1
<1>5. ASSUME NEW n \in Nat, G(n) PROVE G(n + 1)
  <2>1. PICK g : Walk(g, n)
    BY <1>5
  <2> DEFINE h == [k \in 0 .. n + 1 |-> IF k = n + 1 THEN step(g[n]) ELSE g[k]]
  <2>2. ASSUME NEW k \in 0 .. n + 1
        PROVE  h[k] = IF k = 0 THEN base ELSE step(h[k - 1])
    BY <2>1
  <2>3. Walk(h, n + 1)
    <3>1. h = [k \in 0 .. n + 1 |-> h[k]]
      OBVIOUS
    <3> HIDE DEF h
    <3> QED
      BY <3>1, <2>2
  <2> QED
    BY <2>3
<1> HIDE DEF G
<1>6. G(depth)
  <2>1. N \in SUBSET Nat /\ 0 \in N /\ \A n \in N : n + 1 \in N
    BY <1>4, <1>5
  <2> HIDE DEF N
  <2>2. N = Nat
    BY <2>1, Induction
  <2> QED
    BY <1>2, <2>2 DEF N
<1>7. Walk(upTo, depth)
  <2> HIDE DEF Walk
  <2> QED
    BY <1>6 DEF G
<1> HIDE DEF upTo, N
<1>8. upTo[0] = base /\ \A k \in Nat : k + 1 <= depth => upTo[k + 1] = step(upTo[k])
  BY <1>2, <1>7
<1> HIDE DEF Walk
<1> DEFINE M == {n \in Nat : n <= depth => upTo[n] \subseteq base \cup copies}
<1>9. 0 \in M
  BY <1>8
<1>10. ASSUME NEW n \in M PROVE n + 1 \in M
  <2> SUFFICES ASSUME n + 1 <= depth PROVE upTo[n + 1] \subseteq base \cup copies
    OBVIOUS
  <2>1. upTo[n] \subseteq base \cup copies /\ n \in Nat
    BY <1>2
  <2>2. upTo[n + 1] = step(upTo[n])
    BY <1>8, <2>1
  <2> QED
    BY <1>3, <2>1, <2>2
<1>11. M = Nat
  <2>1. M \in SUBSET Nat
    OBVIOUS
  <2> HIDE DEF M
  <2> QED
    BY <1>9, <1>10, <2>1, Induction
<1>12. upTo[depth] \subseteq base \cup copies
  <2>1. depth \in M
    BY <1>2, <1>11
  <2> QED
    BY <1>2, <2>1
<1> HIDE DEF M
<1> QED
  BY <1>1, <1>12 DEF copies, base

(* What goes lies below the destination and has a place there.             *)
Swept(c, q, d, dest) ==
    \A i \in d : i \in DOMAIN c /\ i.loc # dest /\ Sees(i.loc, dest)
                 /\ There(i, dest) \in DOMAIN c \cup DOMAIN q.upserts

LEMMA CopiedSwept ==
    ASSUME NEW c, IsConfig(c), NEW dest, NEW q
    PROVE  Swept(c, q, Copied(c, dest, q), dest)
<1> DEFINE at(i) == [i EXCEPT !.loc = dest]
<1>1. ASSUME NEW i \in Copied(c, dest, q)
      PROVE  /\ i \in DOMAIN c /\ Upward(i.loc, dest)
             /\ Defines(c, c[i].kind, at(i)) \/ at(i) \in DOMAIN q.upserts
  BY Zenon DEF Copied
<1> HIDE DEF at
<1>2. ASSUME NEW i \in Copied(c, dest, q)
      PROVE  /\ i \in DOMAIN c /\ i.loc # dest /\ Sees(i.loc, dest)
             /\ There(i, dest) \in DOMAIN c \cup DOMAIN q.upserts
  <2>1. i \in DOMAIN c /\ Upward(i.loc, dest)
    BY <1>1
  <2>2. i \in Ids /\ i.loc \in Locs
    BY <2>1, ConfigEntry DEF Ids
  <2>3. at(i) = There(i, dest)
    BY <2>2, ThereRecord DEF at
  <2>4. There(i, dest) \in DOMAIN c \cup DOMAIN q.upserts
    BY <1>1, <2>3 DEF Defines
  <2>5. i.loc # dest /\ Sees(i.loc, dest)
    BY <2>1, <2>2, LocalFacts
  <2> QED
    BY <2>1, <2>4, <2>5
<1> QED
  BY <1>2 DEF Swept

LEMMA PrunedShape ==
    ASSUME NEW c, IsConfig(c), NEW dest \in Locs,
           NEW gone, NEW q, OnlyCopies(c, q, gone), Unedited(q, gone), q.blocked = FALSE,
           Swept(c, q, gone, dest)
    PROVE  Replaces(c, Pruned(c, dest, q)) /\ StrandsNothing(c, Pruned(c, dest, q))
<1>1. PICK d : Pruned(c, dest, q) = WithDeletes(q, d) /\ d \subseteq q.deletes \cup Copied(c, dest, q)
  BY PrunedWalk
<1>2. q.deletes = gone
  BY DEF OnlyCopies
<1>3. Swept(c, q, Copied(c, dest, q), dest)
  BY CopiedSwept
<1>4. Swept(c, q, d, dest)
  BY <1>1, <1>2, <1>3 DEF Swept
<1>5. PICK u, b : q = PlanOf(u, <<>>, <<>>, gone, b)
  BY DEF Unedited
<1>6. q.upserts = u /\ b = FALSE
  BY <1>5 DEF PlanOf
<1> DEFINE p == PlanOf(u, <<>>, <<>>, d, FALSE)
<1>7. WithDeletes(q, d) = p
  <2>1. ASSUME NEW x, x = [q EXCEPT !.deletes = d] PROVE x = p
    BY <1>5, <1>6, <2>1 DEF PlanOf
  <2> QED
    BY <2>1, Zenon DEF WithDeletes
<1>8. /\ p.upserts = q.upserts /\ p.edits = <<>> /\ p.renames = <<>> /\ p.ruleDeletes = {}
      /\ p.deletes = d /\ p.blocked = FALSE
  BY <1>6 DEF PlanOf
<1> HIDE DEF p
<1>9. OnlyCopies(c, p, d)
  BY <1>8 DEF OnlyCopies, Copies
<1>10. ASSUME NEW i \in d PROVE HasSuccessor(c, p, i, dest)
  <2>1. /\ i \in DOMAIN c /\ i.loc # dest /\ Sees(i.loc, dest)
        /\ There(i, dest) \in DOMAIN c \cup DOMAIN p.upserts
    BY <1>4, <1>8 DEF Swept
  <2>2. There(i, dest).loc = dest
    BY <2>1, ConfigEntry, ThereFacts
  <2>3. There(i, dest) \notin d
    BY <1>4, <2>2 DEF Swept
  <2> QED
    BY <1>8, <2>1, <2>3 DEF HasSuccessor, Left, There
<1>11. Replaces(c, p) /\ StrandsNothing(c, p)
  BY <1>8, <1>9, <1>10, MovingShape
<1> QED
  BY <1>1, <1>7, <1>11
-----------------------------------------------------------------------------
(* The buckets the commands promote.                                       *)

LEMMA RankedBucket ==
    ASSUME NEW c, IsConfig(c), NEW b \in SUBSET DOMAIN c, Cardinality(b) >= 2,
           \A m, n \in b : m.space = n.space,
           NEW keepName, keepName = Nil \/ \E m \in b : m.name = keepName
    PROVE  Bucket(c, Ranked(b), keepName)
<1>1. b \in SUBSET Ids
  BY DEF IsConfig
<1>2. Elements(Ranked(b)) = b /\ DOMAIN Ranked(b) = 1 .. Cardinality(b) /\ Cardinality(b) \in Nat
  BY <1>1, RankedFacts
<1>3. DOMAIN Ranked(b) \in SUBSET Nat /\ 1 \in DOMAIN Ranked(b)
  BY <1>2
<1> QED
  BY <1>2, <1>3 DEF Bucket

LEMMA FamilyBucket ==
    ASSUME NEW c, IsConfig(c), NEW b \in SUBSET DOMAIN c,
           \A m, n \in b : Family(c[m].kind) = Family(c[n].kind)
    PROVE  \A m, n \in b : m.space = n.space
<1> SUFFICES ASSUME NEW m \in b, NEW n \in b PROVE m.space = n.space
  OBVIOUS
<1>1. c[m].kind \in Kinds /\ c[n].kind \in Kinds /\ SpaceOf(c[m].kind) = m.space /\ SpaceOf(c[n].kind) = n.space
  BY ConfigEntry
<1>2. Family(c[m].kind) = Family(c[n].kind)
  OBVIOUS
<1> QED
  BY <1>1, <1>2, FamilySpace

(* A plan of the sweep keeps a copy at the destination for all it removes. *)
LEMMA BucketPlan ==
    ASSUME NEW c, IsConfig(c), NEW kind, NEW b \in Buckets(c, kind), NEW dest \in Locs,
           NEW cascade \in BOOLEAN, NEW p, p = PlanPromote(c, Ranked(b), dest, Nil, cascade),
           ~p.blocked
    PROVE  Copies(c, p) /\ Swept(c, p, p.deletes, dest)
<1>1. b \in SUBSET DOMAIN c /\ Cardinality(b) >= 2 /\ \E x : b = {j \in DOMAIN c : Alike(c, x, j)}
  BY DEF Buckets
<1>2. \A m, n \in b : Family(c[m].kind) = Family(c[n].kind)
  BY <1>1 DEF Alike
<1>3. \A m, n \in b : m.space = n.space
  BY <1>1, <1>2, FamilyBucket
<1> DEFINE ordered == Ranked(b)
<1>4. Bucket(c, ordered, Nil)
  BY <1>1, <1>3, RankedBucket
<1> DEFINE name == SurvivorName(ordered, Nil)
<1> HIDE DEF ordered
<1>5. p = PlanPromote(c, ordered, dest, Nil, cascade)
  BY DEF ordered
<1>6. name = SurvivorName(ordered, Nil)
  OBVIOUS
<1> HIDE DEF name
<1>7. Refuses(p) \/ (Promotes(c, p, ordered, dest, name) /\ name # Nil)
  BY <1>4, <1>5, <1>6, PromoteShape
<1>8. Promotes(c, p, ordered, dest, name) /\ name # Nil
  BY <1>7 DEF Refuses
<1>9. \A m \in Elements(ordered) : m.name = name
  BY <1>4, <1>6, <1>8, SurvivorFacts
<1> QED
  BY <1>8, <1>9 DEF Promotes, Swept, Left

(* plan_promote_all                                                        *)
LEMMA PromoteAllShape ==
    ASSUME NEW c, IsConfig(c), NEW kind, NEW dest \in Locs, NEW cascade \in BOOLEAN,
           NEW p, p = PlanPromoteAll(c, kind, dest, cascade)
    PROVE  Sound(c, p)
<1> DEFINE plans == {x \in {PlanPromote(c, Ranked(b), dest, Nil, cascade) : b \in Buckets(c, kind)} :
                        ~x.blocked}
           kept == {x \in plans : ~Collides(plans, x)}
           gone == UNION {x.deletes : x \in kept}
           q == Promoting(kept, gone)
           raises == \E b \in Buckets(c, kind) : Raises(c, b, dest, cascade)
<1>1. p = IF raises THEN Refusal ELSE Pruned(c, dest, q)
  BY Zenon DEF PlanPromoteAll
<1>2. \A x \in kept : ~x.blocked /\ \E b \in Buckets(c, kind) : x = PlanPromote(c, Ranked(b), dest, Nil, cascade)
  BY Zenon
<1>3. gone = UNION {x.deletes : x \in kept} /\ q = Promoting(kept, gone)
  OBVIOUS
<1> HIDE DEF plans, kept, q, raises
<1>4. ASSUME NEW x \in kept PROVE Copies(c, x) /\ Swept(c, x, x.deletes, dest)
  <2>1. PICK b \in Buckets(c, kind) : x = PlanPromote(c, Ranked(b), dest, Nil, cascade)
    BY <1>2
  <2>2. ~x.blocked
    BY <1>2
  <2> QED
    BY <2>1, <2>2, BucketPlan
<1>5. \A d \in gone : \E x \in kept : d \in x.deletes
  OBVIOUS
<1> HIDE DEF gone
<1>6. \A x \in kept : Copies(c, x)
  BY <1>4
<1>7. /\ OnlyCopies(c, q, gone) /\ Unedited(q, gone)
      /\ (\A x \in kept : ~x.blocked) => q.blocked = FALSE
      /\ \A i : i \in DOMAIN q.upserts <=> \E x \in kept : i \in DOMAIN x.upserts
  <2>1. Together(c, kept, gone, q)
    BY <1>3, <1>6, PromotingShape
  <2> QED
    BY <2>1 DEF Together
<1>8. q.blocked = FALSE
  BY <1>2, <1>7
<1>9. Swept(c, q, gone, dest)
  BY <1>4, <1>5, <1>7 DEF Swept
<1>10. Replaces(c, Pruned(c, dest, q)) /\ StrandsNothing(c, Pruned(c, dest, q))
  BY <1>7, <1>8, <1>9, PrunedShape
<1> QED
  BY <1>1, <1>10, RefusalRefuses DEF Sound
-----------------------------------------------------------------------------
(* What the commands run.                                                  *)

(* A sound plan, if it is not refused, leaves a configuration, and one     *)
(* whose groups have no tags of their own if they had none.                *)
LEMMA SoundRuns ==
    ASSUME NEW c, IsConfig(c), NEW p, Sound(c, p)
    PROVE  /\ p.ruleDeletes = {} /\ (p.blocked => IsEmptyPlan(p))
           /\ ~p.blocked => IsConfig(Apply(c, p)) /\ (Untagged(c) => StrandsNothing(c, p))
<1>1. CASE Refuses(p)
  BY <1>1 DEF Refuses, IsEmptyPlan
<1>2. CASE Renames(c, p) /\ (Untagged(c) => StrandsNothing(c, p))
  <2>1. IsConfig(Apply(c, p))
    BY <1>2, RenamedPlanShape DEF Renames
  <2> QED
    BY <1>2, <2>1 DEF Renames
<1>3. CASE Replaces(c, p) /\ (Untagged(c) => StrandsNothing(c, p))
  <2>1. IsConfig(Apply(c, p))
    BY <1>3, ReplacedShape DEF Replaces
  <2> QED
    BY <1>3, <2>1 DEF Replaces
<1> QED
  BY <1>1, <1>2, <1>3 DEF Sound

(* No edit writes the own tags of a group.                                 *)
LEMMA TagsUnwritten ==
    ASSUME NEW c, NEW edits, NEW i, c[i].kind \in AddressGroupKinds
    PROVE  NewList(c, edits, i, "tag") = c[i].fields["tag"]
<1>1. \A f : Leaf(c[i].kind, f) = "static"
  BY DEF Leaf, AddressGroupKinds
<1>2. Writers(c, edits, i, "tag") = {}
  BY <1>1 DEF Writers
<1> QED
  BY <1>2 DEF NewList

LEMMA SoundUntagged ==
    ASSUME NEW c, IsConfig(c), Untagged(c), NEW p, Sound(c, p), ~p.blocked
    PROVE  Untagged(Apply(c, p))
<1>1. "tag" \in Fields
  BY DEF Fields
<1>2. CASE Renames(c, p)
  <2>1. \A j \in DOMAIN Apply(c, p) : \E i \in DOMAIN c :
            /\ Apply(c, p)[j].kind = c[i].kind
            /\ Apply(c, p)[j].fields["tag"] \cap Names = NewList(c, p.edits, i, "tag") \cap Names
    BY <1>1, <1>2, RenamedPlanShape DEF Renames
  <2> QED
    BY <2>1, TagsUnwritten DEF Untagged
<1>3. CASE Replaces(c, p)
  <2> DEFINE u == Upserted(c, p.upserts)
  <2>1. /\ DOMAIN Apply(c, p) = (DOMAIN c \cup DOMAIN p.upserts) \ p.deletes
        /\ \A j \in DOMAIN Apply(c, p) :
            /\ Apply(c, p)[j].kind = u[j].kind
            /\ Apply(c, p)[j].fields["tag"] \cap Names = NewList(u, p.edits, j, "tag") \cap Names
    <3>1. /\ IsPlan(p) /\ DOMAIN p.upserts \cap DOMAIN c = {}
          /\ p.ruleDeletes = {} /\ DOMAIN p.renames = {}
      BY <1>3 DEF Replaces
    <3>2. /\ DOMAIN Apply(c, p) = (DOMAIN c \cup DOMAIN p.upserts) \ p.deletes
          /\ \A j \in DOMAIN Apply(c, p) :
              /\ Apply(c, p)[j].kind = u[j].kind
              /\ \A f \in Fields :
                    Apply(c, p)[j].fields[f] \cap Names = NewList(u, p.edits, j, f) \cap Names
      BY <3>1, ReplacedShape
    <3> HIDE DEF u
    <3>3. ASSUME NEW j \in DOMAIN Apply(c, p)
          PROVE  /\ Apply(c, p)[j].kind = u[j].kind
                 /\ Apply(c, p)[j].fields["tag"] \cap Names = NewList(u, p.edits, j, "tag") \cap Names
      BY <1>1, <3>2
    <3> QED
      BY <3>2, <3>3
  <2>2. /\ \A i \in DOMAIN c : u[i] = c[i]
        /\ \A i \in DOMAIN p.upserts : u[i] = p.upserts[i]
    <3>1. IsPlan(p) /\ DOMAIN p.upserts \cap DOMAIN c = {}
      BY <1>3, Zenon DEF Replaces
    <3> QED
      BY <3>1, CreatedShape, Zenon
  <2>3. \A i \in DOMAIN p.upserts : \E x \in DOMAIN c : p.upserts[i] = c[x]
    BY <1>3 DEF Replaces
  <2> HIDE DEF u
  <2>4. ASSUME NEW j \in DOMAIN Apply(c, p), Apply(c, p)[j].kind \in AddressGroupKinds
        PROVE  Apply(c, p)[j].fields["tag"] \cap Names = {}
    <3>1. \E x \in DOMAIN c : u[j] = c[x]
      BY <2>1, <2>2, <2>3
    <3>2. NewList(u, p.edits, j, "tag") = u[j].fields["tag"]
      BY <2>1, <2>4, TagsUnwritten
    <3> QED
      BY <2>1, <2>4, <3>1, <3>2 DEF Untagged
  <2> QED
    BY <2>4 DEF Untagged
<1>4. ~Refuses(p)
  BY DEF Refuses
<1> QED
  BY <1>2, <1>3, <1>4 DEF Sound
=============================================================================
