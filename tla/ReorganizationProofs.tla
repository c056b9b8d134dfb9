------------------------ MODULE ReorganizationProofs ------------------------
(***************************************************************************)
(* Proofs about Reorganization: the configuration stays well-formed, a     *)
(* refused plan holds no operation, nothing that is renamed, merged, moved *)
(* or promoted leaves a name behind that no longer means anything, and     *)
(* after a rename every reference means the renamed object.                *)
(***************************************************************************)
EXTENDS Reorganization, PlanProofs

-----------------------------------------------------------------------------
(* Every command runs a sound plan.                                        *)
Reorganizers == {"rename", "scheme", "merge", "override", "move", "promote", "promote-nested"}

Runs(p) ==
    /\ Sound(cfg, p) /\ plan' = p /\ op' \in Reorganizers
    /\ cfg' = IF p.blocked THEN cfg ELSE Apply(cfg, p)

LEMMA CommandsSound == ASSUME TypeOK, Next PROVE Exit \/ Runs(plan')
<1>1. IsConfig(cfg)
  BY DEF TypeOK
<1>2. ASSUME NEW name \in Reorganizers, NEW p, Sound(cfg, p), Run(name, p) PROVE Runs(plan')
  BY <1>2 DEF Run, Runs
<1>3. ASSUME Rename PROVE Runs(plan')
  <2>1. PICK id \in DOMAIN cfg, new \in NewNames : Run("rename", PlanRename(cfg, id, new))
    BY <1>3 DEF Rename
  <2> DEFINE p == PlanRename(cfg, id, new)
  <2>2. Refuses(p) \/ Renames(cfg, p)
    BY <1>1, NewNamesAssumption, RenameShape
  <2> HIDE DEF p
  <2>3. Sound(cfg, p)
    BY <1>1, <2>2, RenameStrands DEF Sound
  <2> QED
    BY <1>2, <2>1, <2>3 DEF p, Reorganizers
<1>4. ASSUME ApplyScheme PROVE Runs(plan')
  <2>1. PICK scope \in {Locs} \cup {{l} : l \in Locs} : Run("scheme", PlanApplyScheme(cfg, scope))
    BY <1>4 DEF ApplyScheme
  <2> DEFINE p == PlanApplyScheme(cfg, scope)
  <2>2. Refuses(p) \/ Renames(cfg, p)
    BY <1>1, SchemeShape
  <2> HIDE DEF p
  <2>3. Sound(cfg, p)
    BY <1>1, <2>2, RenameStrands DEF Sound
  <2> QED
    BY <1>2, <2>1, <2>3 DEF p, Reorganizers
<1>5. ASSUME NEW name \in Reorganizers, NEW keep, NEW drops, NEW allow,
             Run(name, PlanMerge(cfg, keep, drops, allow))
      PROVE  Runs(plan')
  <2> DEFINE p == PlanMerge(cfg, keep, drops, allow)
  <2>1. Refuses(p) \/ (Replaces(cfg, p) /\ StrandsNothing(cfg, p))
    BY <1>1, MergeShape
  <2> HIDE DEF p
  <2>2. Sound(cfg, p)
    BY <2>1 DEF Sound
  <2> QED
    BY <1>2, <1>5, <2>2 DEF p
<1>6. ASSUME Merge PROVE Runs(plan')
  <2>1. PICK keep \in Of({"address"}), drop \in Of({"address"}), allow \in BOOLEAN :
            Run(IF allow THEN "override" ELSE "merge", PlanMerge(cfg, keep, {drop}, allow))
    BY <1>6 DEF Merge
  <2> DEFINE name == IF allow THEN "override" ELSE "merge"
             drops == {drop}
  <2>2. name \in Reorganizers /\ Run(name, PlanMerge(cfg, keep, drops, allow))
    BY <2>1 DEF Reorganizers
  <2> HIDE DEF name, drops
  <2> QED
    BY <1>5, <2>2
<1>7. ASSUME MergeBucket PROVE Runs(plan')
  <2>1. \E bucket, keep : Run("merge", PlanMerge(cfg, keep, bucket \ {keep}, FALSE))
    BY <1>7 DEF MergeBucket
  <2>2. PICK bucket, keep : Run("merge", PlanMerge(cfg, keep, bucket \ {keep}, FALSE))
    BY <2>1
  <2> DEFINE drops == bucket \ {keep}
  <2>3. "merge" \in Reorganizers /\ Run("merge", PlanMerge(cfg, keep, drops, FALSE))
    BY <2>2 DEF Reorganizers
  <2> HIDE DEF drops
  <2> QED
    BY <1>5, <2>3
<1>8. ASSUME MergeGroup PROVE Runs(plan')
  <2>1. PICK keep, drop : Run("merge", PlanMergeGroup(cfg, keep, drop))
    BY <1>8 DEF MergeGroup
  <2> DEFINE p == PlanMergeGroup(cfg, keep, drop)
  <2>2. Refuses(p) \/ (Replaces(cfg, p) /\ StrandsNothing(cfg, p))
    BY <1>1, MergeGroupShape
  <2> HIDE DEF p
  <2>3. Sound(cfg, p)
    BY <2>2 DEF Sound
  <2> QED
    BY <1>2, <2>1, <2>3 DEF p, Reorganizers
<1>9. ASSUME Move PROVE Runs(plan')
  <2>1. PICK id \in DOMAIN cfg, dest \in Locs, cascade \in BOOLEAN : Run("move", PlanMove(cfg, id, dest, cascade))
    BY <1>9 DEF Move
  <2> DEFINE p == PlanMove(cfg, id, dest, cascade)
  <2>2. Refuses(p) \/ (Replaces(cfg, p) /\ StrandsNothing(cfg, p))
    BY <1>1, MoveShape
  <2> HIDE DEF p
  <2>3. Sound(cfg, p)
    BY <2>2 DEF Sound
  <2> QED
    BY <1>2, <2>1, <2>3 DEF p, Reorganizers
<1>10. ASSUME Promote PROVE Runs(plan')
  <2>1. PICK kind \in PromotableKinds, dest \in Locs :
          \E bucket \in Selections(cfg, kind),
             cascade \in IF kind = "address-group" THEN BOOLEAN ELSE {FALSE} :
            \E keepName \in {i.name : i \in bucket} \cup {Nil} :
                Run(IF Nested(bucket) THEN "promote-nested" ELSE "promote",
                    PlanPromote(cfg, Ranked(bucket), dest, keepName, cascade))
    BY <1>10 DEF Promote
  <2>2. PICK bucket \in AlikeSets(cfg, kind) \cup Namesakes(cfg), cascade \in BOOLEAN :
            \E keepName \in {i.name : i \in bucket} \cup {Nil} :
                Run(IF Nested(bucket) THEN "promote-nested" ELSE "promote",
                    PlanPromote(cfg, Ranked(bucket), dest, keepName, cascade))
    BY <2>1 DEF Selections
  <2>3. PICK keepName \in {i.name : i \in bucket} \cup {Nil} :
            Run(IF Nested(bucket) THEN "promote-nested" ELSE "promote",
                PlanPromote(cfg, Ranked(bucket), dest, keepName, cascade))
    BY <2>2
  <2>4. bucket \in SUBSET DOMAIN cfg /\ Cardinality(bucket) >= 2
    BY DEF AlikeSets, Namesakes, AddressGroups
  <2>5. \A m, n \in bucket : Family(cfg[m].kind) = Family(cfg[n].kind)
    <3>1. CASE bucket \in AlikeSets(cfg, kind)
      BY <3>1 DEF AlikeSets
    <3>2. CASE bucket \in Namesakes(cfg)
      BY <3>2 DEF Namesakes, AddressGroups, AddressGroupKinds, Family
    <3> QED
      BY <3>1, <3>2
  <2>6. \A m, n \in bucket : m.space = n.space
    BY <1>1, <2>4, <2>5, FamilyBucket
  <2>7. Bucket(cfg, Ranked(bucket), keepName)
    <3>1. keepName = Nil \/ \E m \in bucket : m.name = keepName
      OBVIOUS
    <3> QED
      BY <1>1, <2>4, <2>6, <3>1, RankedBucket
  <2> DEFINE name == IF Nested(bucket) THEN "promote-nested" ELSE "promote"
             ordered == Ranked(bucket)
             p == PlanPromote(cfg, ordered, dest, keepName, cascade)
  <2>8. name \in Reorganizers /\ Run(name, p)
    BY <2>3 DEF Reorganizers
  <2> HIDE DEF name, ordered
  <2>9. Sound(cfg, p)
    BY <1>1, <2>7, PromoteShape DEF ordered
  <2> HIDE DEF p
  <2> QED
    BY <1>2, <2>8, <2>9
<1>11. ASSUME PromoteAll PROVE Runs(plan')
  <2>1. PICK kind \in PromotableKinds, dest \in Locs, cascade \in BOOLEAN :
            Run("promote", PlanPromoteAll(cfg, kind, dest, cascade))
    BY <1>11 DEF PromoteAll
  <2> DEFINE p == PlanPromoteAll(cfg, kind, dest, cascade)
  <2>2. Sound(cfg, p)
    BY <1>1, PromoteAllShape
  <2> HIDE DEF p
  <2> QED
    BY <1>2, <2>1, <2>2 DEF p, Reorganizers
<1> QED
  BY <1>3, <1>4, <1>6, <1>7, <1>8, <1>9, <1>10, <1>11 DEF Next
-----------------------------------------------------------------------------
(* The theorems.                                                           *)

LEMMA EmptyPlanFacts == EmptyPlan.ruleDeletes = {} /\ IsEmptyPlan(EmptyPlan)
  BY DEF EmptyPlan, IsEmptyPlan

LEMMA InitTypes == ASSUME Init PROVE TypeOK
<1>1. IsConfig(cfg)
  BY InitConfigsAssumption DEF Init
<1> QED
  BY <1>1, EmptyPlanFacts DEF Init, TypeOK

LEMMA NextTypes == ASSUME TypeOK, [Next]_vars PROVE TypeOK'
<1>1. CASE UNCHANGED vars
  BY <1>1 DEF TypeOK, vars
<1>2. CASE Exit
  BY <1>2, EmptyPlanFacts DEF Exit, TypeOK
<1>3. CASE Runs(plan')
  <2>1. IsConfig(cfg) /\ Sound(cfg, plan') /\ op' \in Reorganizers
    BY <1>3 DEF TypeOK, Runs
  <2>2. /\ plan'.ruleDeletes = {} /\ (plan'.blocked => IsEmptyPlan(plan'))
        /\ ~plan'.blocked => IsConfig(Apply(cfg, plan'))
    BY <2>1, SoundRuns
  <2>3. IsConfig(cfg')
    BY <1>3, <2>1, <2>2 DEF Runs
  <2>4. op' # "none" /\ op' \in {"none", "rename", "scheme", "merge", "override", "move", "promote", "promote-nested"}
    BY <2>1 DEF Reorganizers
  <2> QED
    BY <2>2, <2>3, <2>4 DEF TypeOK
<1> QED
  BY <1>1, <1>2, <1>3, CommandsSound

(* Whatever is merged, moved, promoted or renamed, in whatever order, the  *)
(* configuration stays well-formed: every object under one identity of its *)
(* own namespace, nothing half-written; and a plan that is refused holds   *)
(* no operation.                                                           *)
THEOREM ReorganizationTypes == Spec => []TypeOK
  BY InitTypes, NextTypes, PTL DEF Spec

(* Where groups have no tags of their own, they get none.                  *)
RInv == TypeOK /\ Untagged(cfg)

LEMMA NextUntagged == ASSUME RInv, [Next]_vars PROVE RInv'
<1>1. TypeOK'
  BY NextTypes DEF RInv
<1>2. CASE UNCHANGED cfg
  BY <1>1, <1>2 DEF RInv
<1>3. CASE Runs(plan') /\ ~plan'.blocked
  <2>1. cfg' = Apply(cfg, plan') /\ IsConfig(cfg) /\ Untagged(cfg) /\ Sound(cfg, plan')
    BY <1>3 DEF Runs, RInv, TypeOK
  <2>2. Untagged(Apply(cfg, plan'))
    BY <1>3, <2>1, SoundUntagged
  <2> QED
    BY <1>1, <2>1, <2>2 DEF RInv
<1> QED
  BY <1>2, <1>3, CommandsSound DEF RInv, Runs, Exit, vars

(* What a step leaves of the references.                                   *)
LEMMA NextStrands ==
    ASSUME RInv, [Next]_vars
    PROVE  {r \in Unresolved(cfg') : r.by \in DOMAIN cfg} \subseteq Unresolved(cfg)
<1>1. CASE UNCHANGED cfg
  BY <1>1
<1>2. CASE Runs(plan') /\ ~plan'.blocked
  <2>1. cfg' = Apply(cfg, plan') /\ IsConfig(cfg) /\ Untagged(cfg) /\ Sound(cfg, plan')
    BY <1>2 DEF Runs, RInv, TypeOK
  <2>2. StrandsNothing(cfg, plan')
    BY <1>2, <2>1, SoundRuns
  <2> QED
    BY <2>1, <2>2 DEF StrandsNothing
<1> QED
  BY <1>1, <1>2, CommandsSound DEF RInv, Runs, Exit, vars

(* What is merged, moved, promoted or renamed leaves no reference of a     *)
(* rule or a group behind that meant something before and means nothing    *)
(* now, in any hierarchy, with whatever shadows.  No group may have tags   *)
(* of its own to start with: an edit of those is written among the members *)
(* (ChangeSets!Leaf), and they are not what the members are called.        *)
THEOREM DanglesTheorem ==
    ASSUME \A c \in InitConfigs : Untagged(c)
    PROVE  Spec => NothingNewDangles
<1>1. Init => RInv
  BY InitTypes DEF Init, RInv
<1>2. RInv /\ [Next]_vars => RInv'
  BY NextUntagged
<1>3. RInv /\ [Next]_vars => [{r \in Unresolved(cfg') : r.by \in DOMAIN cfg} \subseteq Unresolved(cfg)]_vars
  BY NextStrands
<1> QED
  BY <1>1, <1>2, <1>3, PTL DEF Spec, NothingNewDangles
-----------------------------------------------------------------------------
(* What references mean after a rename.                                    *)

(* No other definition of the name is nearer than what it resolves to.     *)
LEMMA SeesEachOther ==
    ASSUME NEW a \in Locs, NEW b, Sees(a, b), Sees(b, a)
    PROVE  a = b
<1>1. PICK k \in DOMAIN Chain[a] : Chain[a][k] = b
  BY DEF Sees
<1>2. b \in Locs /\ Len(Chain[b]) = Len(Chain[a]) - k + 1
  BY <1>1, ChainRest
<1>3. PICK n \in DOMAIN Chain[b] : Chain[b][n] = a
  BY DEF Sees
<1>4. Len(Chain[a]) = Len(Chain[b]) - n + 1 /\ n \in 1 .. Len(Chain[b]) /\ Len(Chain[b]) \in Nat
  BY <1>2, <1>3, ChainRest
<1>5. k \in 1 .. Len(Chain[a]) /\ Len(Chain[a]) \in Nat
  BY <1>1, ChainRest
<1>6. k = 1
  <2>1. \A x, y, i, j \in Int : x = y - i + 1 /\ y = x - j + 1 /\ i >= 1 /\ j >= 1 => j = 1
    OBVIOUS
  <2> DEFINE x == Len(Chain[a])
             y == Len(Chain[b])
  <2>2. x \in Int /\ y \in Int /\ n \in Int /\ k \in Int /\ n >= 1 /\ k >= 1
    BY <1>4, <1>5
  <2>3. x = y - n + 1 /\ y = x - k + 1
    BY <1>2, <1>4
  <2> HIDE DEF x, y
  <2> QED
    BY <2>1, <2>2, <2>3
<1>7. PICK m \in DOMAIN Chain[a] : Chain[a][m] = a
  BY ChainSelfAssumption
<1>8. Len(Chain[a]) = Len(Chain[a]) - m + 1 /\ m \in 1 .. Len(Chain[a])
  BY <1>7, ChainRest
<1>9. m = 1
  BY <1>5, <1>8
<1> QED
  BY <1>1, <1>6, <1>7, <1>9

LEMMA NothingNearer ==
    ASSUME NEW live, NEW space \in Spaces, NEW name \in Names, NEW loc \in Locs,
           NEW t, t = Resolve(live, space, name, loc), t # Nil,
           NEW x, Sees(loc, x), Slot(space, name, x) \in live, Sees(x, t.loc)
    PROVE  x = t.loc
<1> DEFINE hits == {i \in DOMAIN Chain[loc] : Slot(space, name, Chain[loc][i]) \in live}
<1>1. hits # {} /\ t = Slot(space, name, Chain[loc][Min(hits)])
  BY DEF Resolve
<1>2. PICK n \in DOMAIN Chain[loc] : Chain[loc][n] = x
  BY DEF Sees
<1>3. n \in hits
  BY <1>2
<1>4. hits \in SUBSET Nat /\ hits \subseteq DOMAIN Chain[loc]
  BY ChainAssumption
<1>5. Min(hits) \in hits /\ Min(hits) <= n
  <2> HIDE DEF hits
  <2> QED
    BY <1>3, <1>4, MinProperties
<1>6. t.loc = Chain[loc][Min(hits)]
  BY <1>1 DEF Slot
<1> HIDE DEF hits
<1>7. Sees(t.loc, x) /\ t.loc \in Locs
  BY <1>2, <1>4, <1>5, <1>6, NearerSees, ChainRest
<1> QED
  BY <1>7, SeesEachOther

(* A list holds the name, and there it means the object.                   *)
Means(d, r, now) ==
    /\ now.name \in d[r.by].fields[r.field]
    /\ Resolve(DOMAIN d, NsOf(r.field), now.name, r.by.loc) = now

LEMMA RenamedMeaning ==
    ASSUME NEW c, IsConfig(c), Untagged(c), NEW p, Renames(c, p),
           NEW id \in DOMAIN c, NEW new \in Names, ~Clashes(c, id, new),
           DOMAIN p.renames = {id}, p.renames[id] = new,
           NEW r \in Refs(c), r.by \in DOMAIN Apply(c, p),
           NEW before, before = Target(DOMAIN c, r), before # Nil
    PROVE  Means(Apply(c, p), r, Moved(p.renames, before))
<1> DEFINE d == Apply(c, p)
           ren == p.renames
           there == Slot(id.space, new, id.loc)
<1>1. /\ IsConfig(d)
      /\ \A j : j \in DOMAIN d <=> \E i \in DOMAIN c : j = Moved(ren, i)
      /\ \A j \in DOMAIN d : \E i \in DOMAIN c :
            /\ j = Moved(ren, i) /\ (j \in DOMAIN c => i = j)
            /\ d[j].kind = c[i].kind
            /\ \A f \in Fields : d[j].fields[f] \cap Names = NewList(c, p.edits, i, f) \cap Names
  BY RenamedPlanShape DEF Renames
<1>2. id \in Ids /\ id.loc \in Locs /\ id.space \in Spaces
  BY ConfigEntry DEF Ids
<1>3. there \notin DOMAIN c /\ Moved(ren, id) = there
  BY NoClashFree DEF Moved
<1>4. there.space = id.space /\ there.name = new /\ there.loc = id.loc
  BY DEF Slot
<1>5. p.edits = Repoints(c, ren) /\ Plain(c, ren)
      /\ \A x \in DOMAIN ren : ren[x] \in Names
  <2>1. \A x \in DOMAIN ren : x \in Ids /\ ren[x] \in Names
    BY <1>2
  <2> QED
    BY <2>1, PlainFacts DEF Renames
<1> HIDE DEF d, there
<1>6. \A j : j \in DOMAIN d <=> (j \in DOMAIN c /\ j # id) \/ j = there
  <2> HIDE DEF ren
  <2>1. \A i : i # id => Moved(ren, i) = i
    BY DEF Moved, ren
  <2> QED
    BY <1>1, <1>3, <2>1
<1>7. /\ r = RefTo(r.by, r.field, r.name) /\ r.by \in DOMAIN c /\ r.by.loc \in Locs
      /\ r.field \in Fields /\ r.name \in Names /\ r.name \in c[r.by].fields[r.field]
      /\ NsOf(r.field) \in Spaces
  BY RefsType DEF RefTo
<1>8. /\ before = Slot(NsOf(r.field), r.name, before.loc) /\ before \in DOMAIN c
      /\ before.space = NsOf(r.field) /\ before.name = r.name /\ before.loc \in Locs
      /\ Sees(r.by.loc, before.loc)
  BY TargetSeen
<1>9. r.by \in DOMAIN d
  BY DEF d
<1>10. \A f \in Fields : d[r.by].fields[f] \cap Names = NewList(c, p.edits, r.by, f) \cap Names
  BY <1>1, <1>7, <1>9
<1>11. NewName(c, ren, r) \in NewList(c, p.edits, r.by, r.field)
  BY <1>5, <1>7, RepointedList
<1>12. \A x \in Locs : Sees(id.loc, x) \/ Sees(x, id.loc) => Slot(id.space, new, x) \notin DOMAIN c
  BY DEF Clashes, Cone
<1> HIDE DEF ren
<1>13. DOMAIN ren = {id} /\ ren[id] = new
  BY DEF ren
<1>14. CASE before = id
  <2>1. new # r.name
    BY <1>3, <1>8, <1>14 DEF there
  <2>2. r \in Repointed(c, ren)
    BY <1>13, <1>14, <2>1 DEF Repointed, WhereUsed
  <2>3. r \in WrittenRefs(c, ren)
    <3>1. <<r.by, r.field>> \in DOMAIN p.edits
      BY <1>5, <2>2, RepointsValue
    <3> QED
      BY <2>2, <3>1 DEF Renames, WrittenRefs
  <2>4. NewName(c, ren, r) = new
    BY <1>13, <1>14, <2>3 DEF NewName
  <2>5. new \in d[r.by].fields[r.field]
    BY <1>7, <1>10, <1>11, <2>4
  <2>6. Sees(r.by.loc, id.loc) /\ Slot(NsOf(r.field), new, id.loc) = there /\ there \in DOMAIN d
    BY <1>6, <1>8, <1>14 DEF there
  <2>7. ASSUME NEW x, Sees(r.by.loc, x), Slot(NsOf(r.field), new, x) \in DOMAIN d, x # id.loc
        PROVE  ~Sees(x, id.loc)
    <3>1. Slot(NsOf(r.field), new, x).loc = x
      BY DEF Slot
    <3>2. Slot(NsOf(r.field), new, x) \in DOMAIN c
      BY <1>4, <1>6, <2>7, <3>1
    <3>3. x \in Locs
      BY <1>7, <2>7, SeesFacts
    <3> QED
      BY <1>8, <1>12, <1>14, <3>2, <3>3
  <2>8. Resolve(DOMAIN d, NsOf(r.field), new, r.by.loc) = there
    BY <1>7, <2>6, <2>7, ResolveNearest
  <2>9. Moved(ren, before) = there
    BY <1>3, <1>14 DEF ren
  <2> QED
    BY <1>4, <2>5, <2>8, <2>9 DEF Means, d, ren
<1>15. CASE before # id
  <2>1. Moved(ren, before) = before
    BY <1>13, <1>15 DEF Moved
  <2>2. r \notin WrittenRefs(c, ren)
    <3>1. r \notin Repointed(c, ren)
      BY <1>13, <1>15 DEF Repointed, WhereUsed
    <3> QED
      BY <3>1 DEF WrittenRefs
  <2>3. r.name \in d[r.by].fields[r.field]
    BY <1>7, <1>10, <1>11, <2>2 DEF NewName
  <2>4. before \in DOMAIN d
    BY <1>6, <1>8, <1>15
  <2>5. ASSUME NEW x, Sees(r.by.loc, x), Slot(NsOf(r.field), r.name, x) \in DOMAIN d, x # before.loc
        PROVE  ~Sees(x, before.loc)
    <3>1. CASE Slot(NsOf(r.field), r.name, x) \in DOMAIN c
      BY <1>7, <2>5, <3>1, NothingNearer DEF Target
    <3>2. CASE Slot(NsOf(r.field), r.name, x) = there
      <4>1. NsOf(r.field) = id.space /\ r.name = new /\ x = id.loc
        BY <1>4, <3>2 DEF Slot
      <4> QED
        BY <1>8, <1>12, <4>1
    <3> QED
      BY <1>6, <2>5, <3>1, <3>2
  <2>6. Resolve(DOMAIN d, NsOf(r.field), r.name, r.by.loc) = before
    BY <1>7, <1>8, <2>4, <2>5, ResolveNearest
  <2> QED
    BY <1>8, <2>1, <2>3, <2>6 DEF Means, d, ren
<1> QED
  BY <1>14, <1>15

(* The property, of one reference.                                         *)
Follows(c, d, renames, r) ==
    LET before == Target(DOMAIN c, r)
        now    == IF before \in DOMAIN renames
                  THEN [before EXCEPT !.name = renames[before]] ELSE before
    IN  before # Nil =>
            /\ now.name \in d[r.by].fields[r.field]
            /\ Target(DOMAIN d, [r EXCEPT !.name = now.name]) = now

LEMMA MeansFollows ==
    ASSUME NEW c, IsConfig(c), NEW d, NEW renames, NEW r \in Refs(c),
           NEW before, before = Target(DOMAIN c, r),
           before # Nil => Means(d, r, Moved(renames, before))
    PROVE  Follows(c, d, renames, r)
<1> DEFINE now == IF before \in DOMAIN renames
                  THEN [before EXCEPT !.name = renames[before]] ELSE before
<1>1. CASE before # Nil
  <2>1. before \in Ids
    BY <1>1, TargetSeen
  <2>2. before = [space |-> before.space, name |-> before.name, loc |-> before.loc]
    BY <2>1 DEF Ids
  <2>3. ASSUME NEW x, x = [before EXCEPT !.name = renames[before]]
        PROVE  x = Slot(before.space, renames[before], before.loc)
    BY <2>2, <2>3 DEF Slot
  <2>4. now = Moved(renames, before)
    BY <2>3, Zenon DEF Moved
  <2> HIDE DEF now
  <2>5. r = [by |-> r.by, field |-> r.field, name |-> r.name]
    BY RefsType
  <2>6. ASSUME NEW q, q = [r EXCEPT !.name = now.name]
        PROVE  Target(DOMAIN d, q) = Resolve(DOMAIN d, NsOf(r.field), now.name, r.by.loc)
    <3>1. q.by = r.by /\ q.field = r.field /\ q.name = now.name
      BY <2>5, <2>6
    <3> QED
      BY <3>1 DEF Target
  <2>7. Target(DOMAIN d, [r EXCEPT !.name = now.name])
          = Resolve(DOMAIN d, NsOf(r.field), now.name, r.by.loc)
    BY <2>6, Zenon
  <2>8. /\ now.name \in d[r.by].fields[r.field]
        /\ Resolve(DOMAIN d, NsOf(r.field), now.name, r.by.loc) = now
    BY <1>1, <2>4 DEF Means
  <2> QED
    BY <2>7, <2>8, Zenon DEF Follows, now
<1>2. CASE before = Nil
  BY <1>2, Zenon DEF Follows
<1> QED
  BY <1>1, <1>2

LEMMA RenameFollows ==
    ASSUME RInv, Next, op' = "rename", NEW r \in Refs(cfg), r.by \in DOMAIN cfg'
    PROVE  Follows(cfg, cfg', plan'.renames, r)
<1>1. IsConfig(cfg) /\ Untagged(cfg)
  BY DEF RInv, TypeOK
<1>2. Rename
  BY DEF Next, ApplyScheme, Merge, MergeBucket, MergeGroup, Move, Promote, PromoteAll, Exit, Run
<1>3. PICK id \in DOMAIN cfg, new \in NewNames : Run("rename", PlanRename(cfg, id, new))
  BY <1>2 DEF Rename
<1>4. new \in Names
  BY NewNamesAssumption
<1> DEFINE p == PlanRename(cfg, id, new)
           before == Target(DOMAIN cfg, r)
<1>5. \/ Refuses(p)
      \/ /\ Renames(cfg, p) /\ ~Clashes(cfg, id, new)
         /\ DOMAIN p.renames = {id} /\ p.renames[id] = new
  BY <1>1, <1>4, RenameShape
<1>7. plan' = p /\ cfg' = IF p.blocked THEN cfg ELSE Apply(cfg, p)
  BY <1>3 DEF Run
<1> HIDE DEF p
<1>8. CASE Refuses(p)
  <2>1. cfg' = cfg /\ DOMAIN plan'.renames = {}
    BY <1>7, <1>8 DEF Refuses, IsEmptyPlan
  <2>2. ASSUME before # Nil PROVE Means(cfg', r, Moved(plan'.renames, before))
    <3>1. before.name = r.name /\ r.name \in cfg[r.by].fields[r.field]
      BY <1>1, <2>2, TargetSeen, RefsType
    <3>2. Moved(plan'.renames, before) = before
      BY <2>1 DEF Moved
    <3> QED
      BY <2>1, <3>1, <3>2 DEF Means, Target
  <2> HIDE DEF before
  <2> QED
    BY <1>1, <2>2, MeansFollows DEF before
<1>9. CASE /\ Renames(cfg, p) /\ ~Clashes(cfg, id, new)
           /\ DOMAIN p.renames = {id} /\ p.renames[id] = new
  <2>1. cfg' = Apply(cfg, p) /\ plan'.renames = p.renames
    BY <1>7, <1>9 DEF Renames
  <2>2. DOMAIN p.renames = {id} /\ p.renames[id] = new
    BY <1>9
  <2>3. ASSUME before # Nil PROVE Means(cfg', r, Moved(plan'.renames, before))
    <3>1. r.by \in DOMAIN Apply(cfg, p)
      BY <2>1
    <3>2. Means(Apply(cfg, p), r, Moved(p.renames, before))
      BY <1>1, <1>4, <1>9, <2>2, <2>3, <3>1, RenamedMeaning
    <3> QED
      BY <2>1, <3>2
  <2> HIDE DEF before
  <2> QED
    BY <1>1, <2>3, MeansFollows DEF before
<1> QED
  BY <1>5, <1>8, <1>9

(* After a rename every reference to the object means it under its new     *)
(* name, and every other means what it meant: in any hierarchy, whatever   *)
(* other definitions of either name are in sight.  Again no group may      *)
(* have tags of its own to start with.                                     *)
THEOREM BindingsTheorem ==
    ASSUME \A c \in InitConfigs : Untagged(c)
    PROVE  Spec => BindingsFollowRenames
<1> DEFINE Good ==
      op' = "rename" =>
        \A r \in {x \in Refs(cfg) : x.by \in DOMAIN cfg'} :
            LET before == Target(DOMAIN cfg, r)
                now    == IF before \in DOMAIN plan'.renames
                          THEN [before EXCEPT !.name = plan'.renames[before]] ELSE before
            IN  before # Nil =>
                    /\ now.name \in cfg'[r.by].fields[r.field]
                    /\ Target(DOMAIN cfg', [r EXCEPT !.name = now.name]) = now
<1>1. Init => RInv
  BY InitTypes DEF Init, RInv
<1>2. RInv /\ [Next]_vars => RInv'
  BY NextUntagged
<1>3. RInv /\ [Next]_vars => [Good]_vars
  <2> SUFFICES ASSUME RInv, Next, op' = "rename", NEW r \in Refs(cfg), r.by \in DOMAIN cfg'
               PROVE  Follows(cfg, cfg', plan'.renames, r)
    BY Zenon DEF Follows
  <2> QED
    BY RenameFollows
<1>4. BindingsFollowRenames <=> [][Good]_vars
  BY DEF BindingsFollowRenames
<1> QED
  BY <1>1, <1>2, <1>3, <1>4, PTL DEF Spec

=============================================================================
