--------------------------- MODULE LivePushProofs ---------------------------
(***************************************************************************)
(* A push does what the offline executor does, for every configuration,    *)
(* hierarchy and command, and however often it fails and is run again.     *)
(***************************************************************************)
EXTENDS LivePush, PlanProofs

(* What the edits of a plan are written to.                                *)
Extended(c, p) == Upserted(c, p.upserts)

Gone(p) == p.deletes \cup p.ruleDeletes

(* The data of a plan that is sent.                                        *)
Typed(c, p) ==
    /\ IsPlan(p) /\ DOMAIN p.upserts \cap DOMAIN c = {} /\ DOMAIN p.renames \subseteq Ids
    /\ \A k \in DOMAIN p.edits : k = <<k[1], k[2]>> /\ k[2] \in Fields

(* No list is written twice.                                               *)
WritesOnce(c, p) ==
    \A k, l \in DOMAIN p.edits :
        k[1] = l[1] /\ Leaf(KindOf(c, p, k[1]), k[2]) = Leaf(KindOf(c, p, k[1]), l[2]) => k = l

(* A rename is of one that is there, or of nothing, to a name of its own.  *)
RenamesFree(c, p) ==
    /\ DOMAIN p.renames # {} => DOMAIN p.upserts = {} /\ p.deletes = {} /\ p.ruleDeletes = {}
    /\ DOMAIN p.renames \subseteq DOMAIN c \/ DOMAIN p.renames \cap DOMAIN c = {}
    /\ \A i \in DOMAIN p.renames : Moved(p.renames, i) \notin DOMAIN c
    /\ Apart(p.renames)

(* A plan that single operations can carry out.                            *)
Fit(c, p) ==
    /\ Typed(c, p)
    /\ p.deletes \subseteq DOMAIN c /\ p.ruleDeletes \subseteq DOMAIN c
    /\ \A i \in p.ruleDeletes : i.space \in RuleSpaces
    /\ \A k \in DOMAIN p.edits : k[1] \in DOMAIN c \cup DOMAIN p.upserts
    /\ WritesOnce(c, p) /\ RenamesFree(c, p)

(* Once it is carried out nothing dangles that did not, but the members    *)
(* an edit may add.                                                        *)
Strands(c, p, added) ==
    \A r \in Unresolved(Apply(c, p)) : \A i \in DOMAIN c :
        r.by = Moved(p.renames, i) =>
            RefTo(i, r.field, r.name) \in Unresolved(c) \/ r.name \in added

-----------------------------------------------------------------------------
(* What a fit plan leaves.                                                 *)

LEMMA ExtendedFacts ==
    ASSUME NEW c, IsConfig(c), NEW p, Typed(c, p)
    PROVE  /\ IsConfig(Extended(c, p))
           /\ DOMAIN Extended(c, p) = DOMAIN c \cup DOMAIN p.upserts
           /\ \A i \in DOMAIN c : Extended(c, p)[i] = c[i]
           /\ \A i \in DOMAIN p.upserts : Extended(c, p)[i] = p.upserts[i]
<1> DEFINE u == Extended(c, p)
<1>1. IsPlan(p) /\ DOMAIN p.upserts \cap DOMAIN c = {}
  BY DEF Typed
<1>2. /\ IsConfig(u) /\ DOMAIN u = DOMAIN c \cup DOMAIN p.upserts
      /\ \A i \in DOMAIN c : u[i] = c[i]
      /\ \A i \in DOMAIN p.upserts : u[i] = p.upserts[i]
  BY <1>1, CreatedShape DEF Extended
<1> QED
  BY <1>2

LEMMA KindFacts ==
    ASSUME NEW c, IsConfig(c), NEW p, Typed(c, p), NEW i \in DOMAIN Extended(c, p)
    PROVE  KindOf(c, p, i) = Extended(c, p)[i].kind
<1>1. DOMAIN Extended(c, p) = DOMAIN c \cup DOMAIN p.upserts
  BY ExtendedFacts
<1>2. \A x \in DOMAIN c : Extended(c, p)[x] = c[x]
  BY ExtendedFacts
<1>3. \A x \in DOMAIN p.upserts : Extended(c, p)[x] = p.upserts[x]
  BY CreatedShape DEF Extended, Typed
<1> QED
  BY <1>1, <1>2, <1>3 DEF KindOf

(* No two entries meet under one identity.                                 *)
LEMMA MovedOnce ==
    ASSUME NEW c, IsConfig(c), NEW p, Fit(c, p),
           NEW i \in DOMAIN Extended(c, p), NEW k \in DOMAIN Extended(c, p)
    PROVE  /\ Moved(p.renames, i) = Moved(p.renames, k) => i = k
           /\ Moved(p.renames, i) = k => i = k
<1>1. DOMAIN Extended(c, p) = DOMAIN c \cup DOMAIN p.upserts
  BY ExtendedFacts DEF Fit
<1>2. /\ Apart(p.renames) /\ \A x \in DOMAIN p.renames : Moved(p.renames, x) \notin DOMAIN c
      /\ DOMAIN p.renames # {} => DOMAIN p.upserts = {}
  BY DEF Fit, RenamesFree
<1>3. \A x \in DOMAIN p.renames : Moved(p.renames, x) \notin DOMAIN Extended(c, p)
  BY <1>1, <1>2
<1>4. \A x : x \notin DOMAIN p.renames => Moved(p.renames, x) = x
  BY DEF Moved
<1> QED
  BY <1>2, <1>3, <1>4 DEF Apart

(* An entry under the identity it had or gets.                             *)
IsAt(p, i, j) == j = i \/ j = Moved(p.renames, i)

LEMMA IsAtOnce ==
    ASSUME NEW c, IsConfig(c), NEW p, Fit(c, p),
           NEW i \in DOMAIN Extended(c, p), NEW k \in DOMAIN Extended(c, p),
           NEW j, IsAt(p, i, j), IsAt(p, k, j)
    PROVE  i = k
BY MovedOnce DEF IsAt

(* What the executor leaves, before it is read back.                       *)
Outcome(c, p, w) ==
    /\ IsConfig(w)
    /\ \A j : j \in DOMAIN w <=> \E i \in DOMAIN Extended(c, p) \ Gone(p) : j = Moved(p.renames, i)
    /\ \A i \in DOMAIN Extended(c, p) \ Gone(p) :
        /\ w[Moved(p.renames, i)].kind = Extended(c, p)[i].kind
        /\ w[Moved(p.renames, i)].value = Extended(c, p)[i].value
        /\ \A f \in Fields :
            w[Moved(p.renames, i)].fields[f] = NewList(Extended(c, p), p.edits, i, f)

LEMMA OutcomeFacts ==
    ASSUME NEW c, IsConfig(c), NEW p, Fit(c, p)
    PROVE  \E w : Outcome(c, p, w) /\ Apply(c, p) = ReadBack(w)
<1> DEFINE u == Extended(c, p)
           e == Edited(u, p.edits)
           t == Without(e, p.ruleDeletes)
           m == Renamed(t, p.renames)
           w == Without(m, p.deletes)
<1>1. IsConfig(u) /\ DOMAIN u = DOMAIN c \cup DOMAIN p.upserts
  BY ExtendedFacts DEF Fit
<1>2. Apply(c, p) = ReadBack(w)
  BY DEF Apply, Extended
<1>3. \A i, k \in DOMAIN u : Moved(p.renames, i) = Moved(p.renames, k) => i = k
  BY MovedOnce
<1> HIDE DEF u
<1>4. \A k \in DOMAIN p.edits : p.edits[k] \in SUBSET Members
  BY DEF Fit, Typed, IsPlan
<1>5. /\ IsConfig(e) /\ DOMAIN e = DOMAIN u
      /\ \A i \in DOMAIN u :
            /\ e[i].kind = u[i].kind /\ e[i].value = u[i].value
            /\ \A f \in Fields : e[i].fields[f] = NewList(u, p.edits, i, f)
  BY <1>1, <1>4, EditedShape, EditedValue
<1> HIDE DEF e
<1>6. IsConfig(t) /\ DOMAIN t = DOMAIN u \ p.ruleDeletes /\ \A i \in DOMAIN t : t[i] = e[i]
  <2>1. IsConfig(e) /\ DOMAIN e = DOMAIN u
    BY <1>5
  <2>2. /\ IsConfig(t) /\ DOMAIN t = DOMAIN e \ p.ruleDeletes
        /\ \A i \in DOMAIN e \ p.ruleDeletes : t[i] = e[i]
    BY <2>1, WithoutShape
  <2> HIDE DEF t
  <2> QED
    BY <2>1, <2>2
<1>7. CASE DOMAIN p.renames = {}
  <2>1. \A i : Moved(p.renames, i) = i
    BY <1>7 DEF Moved
  <2> HIDE DEF t
  <2>2. m = t
    BY <1>6, <1>7, RenamedNone DEF IsConfig
  <2>3. IsConfig(w) /\ DOMAIN w = DOMAIN u \ Gone(p) /\ \A i \in DOMAIN w : w[i] = e[i]
    <3> HIDE DEF m
    <3>1. IsConfig(m) /\ DOMAIN m = DOMAIN u \ p.ruleDeletes /\ \A i \in DOMAIN m : m[i] = e[i]
      BY <1>6, <2>2
    <3>2. /\ IsConfig(w) /\ DOMAIN w = DOMAIN m \ p.deletes
          /\ \A i \in DOMAIN m \ p.deletes : w[i] = m[i]
      BY <3>1, WithoutShape
    <3> HIDE DEF w
    <3> QED
      BY <3>1, <3>2 DEF Gone
  <2> HIDE DEF w
  <2>4. Outcome(c, p, w)
    BY <1>5, <2>1, <2>3 DEF Outcome, u
  <2> QED
    BY <1>2, <2>4
<1>8. CASE DOMAIN p.renames # {}
  <2>1. Gone(p) = {} /\ p.deletes = {} /\ p.ruleDeletes = {}
    BY <1>8 DEF Fit, RenamesFree, Gone
  <2>2. t = e
    BY <1>5, <2>1 DEF Without, IsConfig
  <2>3. IsConfig(m)
    BY <1>6, RenamedShape DEF Fit, Typed, IsPlan
  <2>4. m = [j \in {Moved(p.renames, i) : i \in DOMAIN e} |->
                e[CHOOSE i \in DOMAIN e : Moved(p.renames, i) = j]]
    BY <2>2 DEF Renamed
  <2> HIDE DEF t
  <2>5. \A j : j \in DOMAIN m <=> \E i \in DOMAIN u : j = Moved(p.renames, i)
    BY <1>5, <2>4
  <2>6. ASSUME NEW i \in DOMAIN u PROVE m[Moved(p.renames, i)] = e[i]
    <3> DEFINE j == Moved(p.renames, i)
               x == CHOOSE k \in DOMAIN e : Moved(p.renames, k) = j
    <3>1. x \in DOMAIN e /\ Moved(p.renames, x) = j
      BY <1>5
    <3>2. m[j] = e[x]
      BY <1>5, <2>4
    <3> HIDE DEF x, m
    <3>3. x = i
      BY <1>3, <1>5, <3>1
    <3> QED
      BY <3>2, <3>3
  <2> HIDE DEF m
  <2>7. w = m
    BY <2>1, <2>3 DEF Without, IsConfig
  <2>8. DOMAIN u \ Gone(p) = DOMAIN u
    BY <2>1
  <2> HIDE DEF w
  <2>9. Outcome(c, p, w)
    BY <1>5, <2>3, <2>5, <2>6, <2>7, <2>8 DEF Outcome, u
  <2> QED
    BY <1>2, <2>9
<1> QED
  BY <1>7, <1>8

-----------------------------------------------------------------------------
(* Every plan that is sent is fit and strands nothing.                     *)
Added(x) == IF x.op \in {"member", "rule"} THEN {x.member} ELSE {}

Carried(c, p, added) == Fit(c, p) /\ Strands(c, p, added)

(* An edit names a rule by the field it writes.                            *)
LEMMA KeyedOnce ==
    ASSUME NEW c, IsConfig(c), Untagged(c), NEW p, Typed(c, p), Keyed(c, p)
    PROVE  WritesOnce(c, p)
<1> SUFFICES ASSUME NEW k \in DOMAIN p.edits, NEW l \in DOMAIN p.edits, k[1] = l[1],
                    Leaf(KindOf(c, p, k[1]), k[2]) = Leaf(KindOf(c, p, k[1]), l[2])
             PROVE  k = l
  BY DEF WritesOnce
<1>1. k = <<k[1], k[2]>> /\ l = <<l[1], l[2]>> /\ k[1] \in DOMAIN c \cup DOMAIN p.upserts
  BY DEF Keyed
<1>2. CASE k[1].space \notin RuleSpaces
  BY <1>2 DEF Keyed
<1>3. CASE k[1].space \in RuleSpaces
  <2> DEFINE kind == KindOf(c, p, k[1])
  <2>1. DOMAIN Extended(c, p) = DOMAIN c \cup DOMAIN p.upserts /\ IsConfig(Extended(c, p))
    BY ExtendedFacts
  <2>2. kind = Extended(c, p)[k[1]].kind
    BY <1>1, <2>1, KindFacts
  <2>3. kind \in Kinds /\ SpaceOf(kind) = k[1].space
    BY <1>1, <2>1, <2>2, ConfigEntry
  <2> HIDE DEF kind
  <2>4. kind \in RuleSpaces
    BY <1>3, <2>3, SpaceOfFacts DEF Kinds, RuleSpaces
  <2>5. k[2] = l[2]
    BY <2>4, LeafFacts DEF kind
  <2> QED
    BY <1>1, <2>5
<1> QED
  BY <1>2, <1>3

(* What it means where nothing is renamed.                                 *)
LEMMA PlainStrands ==
    ASSUME NEW c, IsConfig(c), NEW p, IsPlan(p), DOMAIN p.renames = {}, NEW added,
           \A r \in Unresolved(Apply(c, p)) :
                r.by \in DOMAIN c => r \in Unresolved(c) \/ r.name \in added
    PROVE  Strands(c, p, added)
<1> SUFFICES ASSUME NEW r \in Unresolved(Apply(c, p)), NEW i \in DOMAIN c, r.by = Moved(p.renames, i)
             PROVE  RefTo(i, r.field, r.name) \in Unresolved(c) \/ r.name \in added
  BY DEF Strands
<1>1. r.by = i
  BY DEF Moved
<1>2. r = [by |-> r.by, field |-> r.field, name |-> r.name]
  BY ApplyTyped, RefsType DEF Unresolved
<1>3. RefTo(i, r.field, r.name) = r
  BY <1>1, <1>2 DEF RefTo
<1> QED
  BY <1>1, <1>3

LEMMA ReplacesCarried ==
    ASSUME NEW c, IsConfig(c), NEW p, Replaces(c, p), NEW added
    PROVE  /\ Typed(c, p)
           /\ Untagged(c) /\ StrandsNothing(c, p) => Carried(c, p, added)
<1>1. /\ IsPlan(p) /\ p.ruleDeletes = {} /\ DOMAIN p.renames = {}
      /\ DOMAIN p.upserts \cap DOMAIN c = {} /\ p.deletes \subseteq DOMAIN c /\ Keyed(c, p)
  BY DEF Replaces
<1>2. Typed(c, p)
  BY <1>1 DEF Typed, Keyed
<1>3. ASSUME Untagged(c), StrandsNothing(c, p) PROVE Carried(c, p, added)
  <2>1. WritesOnce(c, p)
    BY <1>1, <1>2, <1>3, KeyedOnce
  <2>2. RenamesFree(c, p)
    BY <1>1 DEF RenamesFree, Apart
  <2>3. Strands(c, p, added)
    BY <1>1, <1>3, PlainStrands DEF StrandsNothing
  <2> QED
    BY <1>1, <1>2, <2>1, <2>2, <2>3 DEF Carried, Fit, Keyed
<1> QED
  BY <1>2, <1>3

LEMMA RenamesCarried ==
    ASSUME NEW c, IsConfig(c), NEW p, Renames(c, p), NEW added
    PROVE  /\ Typed(c, p)
           /\ Untagged(c) => Carried(c, p, added)
<1>1. /\ IsPlan(p) /\ DOMAIN p.upserts = {} /\ p.ruleDeletes = {} /\ p.deletes = {}
      /\ FreeRenames(c, p.renames) /\ Apart(p.renames) /\ Keyed(c, p)
  BY DEF Renames
<1>2. DOMAIN p.renames \subseteq DOMAIN c /\ DOMAIN c \subseteq Ids
  BY <1>1 DEF FreeRenames, IsConfig
<1>3. Typed(c, p)
  BY <1>1, <1>2 DEF Typed, Keyed
<1>4. ASSUME Untagged(c) PROVE Carried(c, p, added)
  <2>1. WritesOnce(c, p)
    BY <1>1, <1>3, <1>4, KeyedOnce
  <2>2. RenamesFree(c, p)
    BY <1>1, <1>2 DEF RenamesFree, FreeRenames
  <2>3. Strands(c, p, added)
    BY <1>4, RenameStrandsMoved DEF Strands
  <2> QED
    BY <1>1, <1>3, <2>1, <2>2, <2>3 DEF Carried, Fit, Keyed
<1> QED
  BY <1>3, <1>4

LEMMA SoundCarried ==
    ASSUME NEW c, IsConfig(c), NEW p, Sound(c, p), ~p.blocked, NEW added
    PROVE  Typed(c, p) /\ (Untagged(c) => Carried(c, p, added))
BY ReplacesCarried, RenamesCarried DEF Sound, Refuses

(* New entries.                                                            *)
LEMMA EntriesCarried ==
    ASSUME NEW c, IsConfig(c), NEW p, IsPlan(p), DOMAIN p.upserts \cap DOMAIN c = {},
           DOMAIN p.edits = {}, DOMAIN p.renames = {}, p.deletes = {}, p.ruleDeletes = {}
    PROVE  Carried(c, p, {})
<1> DEFINE u == Upserted(c, p.upserts)
           left == Apply(c, p)
<1>1. Fit(c, p)
  BY DEF Fit, Typed, WritesOnce, RenamesFree, Apart
<1>2. /\ IsConfig(left) /\ DOMAIN left = DOMAIN c \cup DOMAIN p.upserts
      /\ \A i \in DOMAIN left :
            /\ left[i].kind = u[i].kind
            /\ \A f \in Fields : left[i].fields[f] \cap Names = NewList(u, p.edits, i, f) \cap Names
  <2>1. DOMAIN left = (DOMAIN c \cup DOMAIN p.upserts) \ p.deletes
    BY ReplacedShape
  <2>2. IsConfig(left)
    BY ApplyTyped
  <2>3. \A i \in DOMAIN left :
            /\ left[i].kind = u[i].kind
            /\ \A f \in Fields : left[i].fields[f] \cap Names = NewList(u, p.edits, i, f) \cap Names
    BY ReplacedShape
  <2> HIDE DEF left, u
  <2> QED
    BY <2>1, <2>2, <2>3
<1>3. \A i \in DOMAIN c : u[i] = c[i]
  BY CreatedShape
<1> HIDE DEF u, left
<1>4. \A i, f : NewList(u, p.edits, i, f) = u[i].fields[f]
  BY DEF NewList, Writers
<1>5. ASSUME NEW r \in Unresolved(left), r.by \in DOMAIN c PROVE r \in Unresolved(c)
  <2>1. r \in Refs(left) /\ Target(DOMAIN left, r) = Nil
    BY <1>5 DEF Unresolved
  <2>2. /\ r = [by |-> r.by, field |-> r.field, name |-> r.name]
        /\ r.by.loc \in Locs /\ r.field \in Fields /\ r.name \in Names
        /\ r.field \in Walked(left[r.by].kind) /\ r.name \in left[r.by].fields[r.field]
        /\ NsOf(r.field) \in Spaces /\ r.by \in DOMAIN left
    BY <1>2, <2>1, RefsType
  <2>3. r.field \in Walked(c[r.by].kind) /\ r.name \in c[r.by].fields[r.field]
    BY <1>2, <1>3, <1>4, <1>5, <2>2
  <2>4. r \in Refs(c)
    BY <1>5, <2>2, <2>3, RefsMembership
  <2>5. Target(DOMAIN c, r) = Nil
    BY <1>2, <2>1, <2>2, ResolveMonotone DEF Target
  <2> QED
    BY <2>4, <2>5 DEF Unresolved
<1>6. Strands(c, p, {})
  BY <1>5, PlainStrands DEF left
<1> QED
  BY <1>1, <1>6 DEF Carried

(* One member more or less.                                                *)
LEMMA EditingCarried ==
    ASSUME NEW c, IsConfig(c), NEW i \in DOMAIN c, NEW f \in Fields, NEW m,
           Leaf(c[i].kind, f) \in Fields,
           NEW p, IsPlan(p), DOMAIN p.upserts = {}, DOMAIN p.renames = {}, p.deletes = {},
           p.ruleDeletes = {}, \A k \in DOMAIN p.edits : k = <<i, f>>,
           \A k \in DOMAIN p.edits : p.edits[k] \subseteq c[i].fields[Leaf(c[i].kind, f)] \cup {m}
    PROVE  Carried(c, p, {m})
<1> DEFINE left == Apply(c, p)
<1>1. Fit(c, p)
  BY DEF Fit, Typed, WritesOnce, RenamesFree, Apart
<1>2. /\ IsConfig(left) /\ DOMAIN left = DOMAIN c
      /\ \A x \in DOMAIN left :
            /\ left[x].kind = c[x].kind
            /\ \A g \in Fields : left[x].fields[g] \cap Names = NewList(c, p.edits, x, g) \cap Names
  <2>1. \A k \in DOMAIN p.edits : p.edits[k] \in SUBSET Members
    BY DEF IsPlan
  <2>2. DOMAIN left = DOMAIN c \ (p.ruleDeletes \cup p.deletes)
    BY <2>1, ApplyShape
  <2>3. IsConfig(left)
    BY ApplyTyped
  <2>4. \A x \in DOMAIN left :
            /\ left[x].kind = c[x].kind
            /\ \A g \in Fields : left[x].fields[g] \cap Names = NewList(c, p.edits, x, g) \cap Names
    BY <2>1, ApplyShape
  <2> HIDE DEF left
  <2> QED
    BY <2>2, <2>3, <2>4
<1> HIDE DEF left
<1>3. ASSUME NEW x \in DOMAIN c, NEW g \in Fields
      PROVE  NewList(c, p.edits, x, g) \subseteq c[x].fields[g] \cup {m}
  <2>1. CASE Writers(c, p.edits, x, g) = {}
    BY <2>1 DEF NewList
  <2>2. CASE Writers(c, p.edits, x, g) # {}
    <3> DEFINE k == CHOOSE k \in Writers(c, p.edits, x, g) : TRUE
    <3>1. k \in Writers(c, p.edits, x, g)
      BY <2>2
    <3>2. NewList(c, p.edits, x, g) = p.edits[k]
      BY <2>2 DEF NewList
    <3> HIDE DEF k
    <3>3. k \in DOMAIN p.edits /\ k[1] = x /\ Leaf(c[x].kind, k[2]) = g
      BY <3>1 DEF Writers
    <3>4. x = i /\ k[2] = f
      BY <3>3
    <3> QED
      BY <3>2, <3>3, <3>4
  <2> QED
    BY <2>1, <2>2
<1>4. ASSUME NEW r \in Unresolved(left), r.by \in DOMAIN c PROVE r \in Unresolved(c) \/ r.name = m
  <2>1. r \in Refs(left) /\ Target(DOMAIN c, r) = Nil
    BY <1>2, <1>4 DEF Unresolved
  <2>2. /\ r = [by |-> r.by, field |-> r.field, name |-> r.name]
        /\ r.field \in Fields /\ r.name \in Names /\ r.by \in DOMAIN left
        /\ r.field \in Walked(left[r.by].kind) /\ r.name \in left[r.by].fields[r.field]
    BY <1>2, <2>1, RefsType
  <2>3. r.field \in Walked(c[r.by].kind) /\ r.name \in c[r.by].fields[r.field] \cup {m}
    BY <1>2, <1>3, <1>4, <2>2
  <2>4. r \in Refs(c) \/ r.name = m
    BY <1>4, <2>2, <2>3, RefsMembership
  <2> QED
    BY <2>1, <2>4 DEF Unresolved
<1>5. Strands(c, p, {m})
  BY <1>4, PlainStrands DEF left
<1> QED
  BY <1>1, <1>5 DEF Carried

(* A rename of what does not exist leaves all as it is.                    *)
LEMMA AbsentRename ==
    ASSUME NEW c, IsConfig(c), NEW id \in ObjectIds, id \notin DOMAIN c, NEW new \in Names,
           NEW p, p = PlanRename(c, id, new), ~p.blocked
    PROVE  Carried(c, p, {})
<1> DEFINE renames == [i \in {id} |-> new]
           edits == Repoints(c, renames)
<1>1. DOMAIN renames = {id} /\ renames[id] = new
  OBVIOUS
<1>2. ~Clashes(c, id, new) /\ p = Renaming(c, renames)
  BY RefusalRefuses DEF PlanRename, Refuses
<1> HIDE DEF renames
<1>3. p = Gated(c, PlanOf(<<>>, edits, renames, {}, FALSE))
  BY <1>2, PlanRecords DEF Renaming
<1>4. DOMAIN edits = {}
  <2>1. \A i \in DOMAIN renames : renames[i] \in Names
    BY <1>1
  <2>2. Repointed(c, renames) = {}
    <3> SUFFICES ASSUME NEW r \in Repointed(c, renames) PROVE FALSE
      OBVIOUS
    <3>1. r \in Refs(c) /\ Target(DOMAIN c, r) = id
      BY <1>1, <2>1, RepointedFacts
    <3>2. id # Nil
      BY NamesAssumption DEF ObjectIds, Ids, Spaces
    <3>3. Target(DOMAIN c, r) \in DOMAIN c
      BY <3>1, <3>2, TargetSeen
    <3> QED
      BY <3>1, <3>3
  <2>3. \A k : k \in DOMAIN edits <=> \E r \in Repointed(c, renames) : k = <<r.by, r.field>>
    BY <2>1, RepointsValue
  <2> HIDE DEF edits
  <2> QED
    BY <2>2, <2>3
<1> HIDE DEF edits
<1>5. p = PlanOf(<<>>, edits, renames, {}, FALSE)
  BY <1>3, GatedShape DEF Refuses
<1>6. /\ DOMAIN p.upserts = {} /\ DOMAIN p.edits = {} /\ p.renames = renames
      /\ p.deletes = {} /\ p.ruleDeletes = {}
  BY <1>4, <1>5 DEF PlanOf
<1>7. Moved(renames, id) \notin DOMAIN c
  <2>1. id.loc \in Locs
    BY DEF ObjectIds
  <2>2. id.loc \in Cone(id.loc)
    BY <2>1, SeesFacts DEF Cone
  <2>3. Slot(id.space, new, id.loc) \notin DOMAIN c
    BY <1>2, <2>2 DEF Clashes
  <2> QED
    BY <1>1, <2>3 DEF Moved
<1>8. Fit(c, p)
  <2>1. IsPlan(p)
    BY <1>1, <1>6 DEF IsPlan
  <2>2. id \in Ids
    BY DEF ObjectIds, Ids, Spaces
  <2>3. RenamesFree(c, p)
    BY <1>1, <1>6, <1>7 DEF RenamesFree, Apart
  <2> QED
    BY <1>1, <1>6, <2>1, <2>2, <2>3 DEF Fit, Typed, WritesOnce
<1>9. PICK w : Outcome(c, p, w) /\ Apply(c, p) = ReadBack(w)
  BY <1>8, OutcomeFacts
<1>10. DOMAIN Extended(c, p) = DOMAIN c /\ \A i \in DOMAIN c : Extended(c, p)[i] = c[i]
  <2>1. DOMAIN Extended(c, p) = DOMAIN c \cup DOMAIN p.upserts
    BY <1>8, ExtendedFacts DEF Fit
  <2>2. \A i \in DOMAIN c : Extended(c, p)[i] = c[i]
    BY <1>8, ExtendedFacts DEF Fit
  <2> QED
    BY <1>6, <2>1, <2>2
<1>11. \A i \in DOMAIN c : Moved(renames, i) = i
  BY <1>1 DEF Moved
<1>12. \A i, f : NewList(Extended(c, p), p.edits, i, f) = Extended(c, p)[i].fields[f]
  BY <1>6 DEF NewList, Writers
<1>13. w = c
  <2>1. Gone(p) = {}
    BY <1>6 DEF Gone
  <2>2. IsConfig(w) /\ \A j : j \in DOMAIN w <=> \E i \in DOMAIN c : j = Moved(renames, i)
    BY <1>6, <1>9, <1>10, <2>1 DEF Outcome
  <2>3. DOMAIN w = DOMAIN c
    BY <1>11, <2>2
  <2>4. ASSUME NEW i \in DOMAIN c
        PROVE  /\ w[i].kind = c[i].kind /\ w[i].value = c[i].value
               /\ \A f \in Fields : w[i].fields[f] = c[i].fields[f]
    <3>1. /\ w[Moved(p.renames, i)].kind = Extended(c, p)[i].kind
          /\ w[Moved(p.renames, i)].value = Extended(c, p)[i].value
          /\ \A f \in Fields :
               w[Moved(p.renames, i)].fields[f] = NewList(Extended(c, p), p.edits, i, f)
      BY <1>9, <1>10, <2>1 DEF Outcome
    <3> QED
      BY <1>6, <1>10, <1>11, <1>12, <3>1
  <2> QED
    BY <2>2, <2>3, <2>4, SameConfig
<1>14. Strands(c, p, {})
  <2> SUFFICES ASSUME NEW r \in Unresolved(Apply(c, p)), NEW i \in DOMAIN c, r.by = Moved(p.renames, i)
               PROVE  RefTo(i, r.field, r.name) \in Unresolved(c)
    BY DEF Strands
  <2> DEFINE left == ReadBack(c)
  <2>1. IsConfig(left) /\ DOMAIN left = DOMAIN c
    BY ReadBackShape
  <2>2. left = Apply(c, p)
    BY <1>9, <1>13
  <2>3. \A x \in DOMAIN c : left[x].kind = c[x].kind
    BY ReadBackShape
  <2>4. \A x \in DOMAIN c : \A f \in Fields : left[x].fields[f] \cap Names \subseteq c[x].fields[f]
    BY ReadBackList, NamesAssumption
  <2> HIDE DEF left
  <2>5. r \in Refs(left) /\ Target(DOMAIN c, r) = Nil
    BY <2>1, <2>2 DEF Unresolved
  <2>6. /\ r = [by |-> r.by, field |-> r.field, name |-> r.name]
        /\ r.field \in Fields /\ r.name \in Names /\ r.by \in DOMAIN left
        /\ r.field \in Walked(left[r.by].kind) /\ r.name \in left[r.by].fields[r.field]
    BY <2>1, <2>5, RefsType
  <2>7. r.by = i
    BY <1>6, <1>11
  <2>8. r.field \in Walked(c[r.by].kind) /\ r.name \in c[r.by].fields[r.field]
    BY <2>1, <2>3, <2>4, <2>6
  <2>9. r \in Refs(c)
    BY <2>1, <2>6, <2>8, RefsMembership
  <2> QED
    BY <2>5, <2>6, <2>7, <2>9 DEF Unresolved, RefTo
<1> QED
  BY <1>8, <1>14 DEF Carried

LEMMA TeardownCarried ==
    ASSUME NEW c, IsConfig(c), NEW cm \in Commands, cm.op \in {"decommission", "purge"},
           cm.op = "decommission" => \A t \in cm.targets : t.space = "address"
    PROVE  Carried(c, PlanTeardown(c, cm, Cascade(c, cm)), {})
<1> DEFINE dead == Cascade(c, cm)
           p == PlanTeardown(c, cm, dead)
           edits == ScrubEdits(c, cm, Touched(c, cm, dead))
<1>1. Planning(c, cm, dead) /\ (cm.op = "decommission" => \A g \in dead : g.space = "address")
  BY CascadeFacts
<1>2. IsPlan(p)
  BY TeardownPlan
<1> HIDE DEF dead
<1>3. Unresolved(Apply(c, p)) \subseteq Unresolved(c)
  BY <1>1, TeardownStrandsNothing
<1>4. /\ p.upserts = <<>> /\ p.renames = <<>>
      /\ DOMAIN p.edits \subseteq DOMAIN edits
      /\ p.deletes \subseteq DOMAIN c /\ p.ruleDeletes \subseteq DOMAIN c
      /\ \A i \in p.ruleDeletes : c[i].kind \in RuleSpaces
  BY <1>1, PlanShape, DraftShape DEF Planning
<1>5. ASSUME NEW k \in DOMAIN edits
      PROVE  /\ k = <<k[1], k[2]>> /\ k[1] \in DOMAIN c /\ k[2] \in Fields
             /\ Leaf(c[k[1]].kind, k[2]) = k[2]
  <2>1. PICK r \in Touched(c, cm, dead) : ~OwnTag(c, r) /\ k = <<r.by, r.field>>
    BY <1>1, TouchedRefs, ScrubEditsShape DEF Planning
  <2>2. /\ r.by \in DOMAIN c /\ r.field \in Fields /\ r.field \in Walked(c[r.by].kind)
        /\ c[r.by].kind \in Kinds
    BY <1>1, TouchedRefs, RefsType, ConfigEntry DEF Planning
  <2>3. r.field = "tag" => c[r.by].kind \in RuleSpaces
    BY <2>1 DEF OwnTag
  <2>4. Leaf(c[r.by].kind, r.field) = r.field
    BY <2>2, <2>3, LeafFacts, WalkedFacts DEF Kinds, RuleSpaces
  <2> QED
    BY <2>1, <2>2, <2>4
<1> HIDE DEF p, edits
<1>6. WritesOnce(c, p)
  <2> SUFFICES ASSUME NEW k \in DOMAIN p.edits, NEW l \in DOMAIN p.edits, k[1] = l[1],
                      Leaf(KindOf(c, p, k[1]), k[2]) = Leaf(KindOf(c, p, k[1]), l[2])
               PROVE  k = l
    BY DEF WritesOnce
  <2>1. KindOf(c, p, k[1]) = c[k[1]].kind
    BY <1>4, <1>5 DEF KindOf
  <2>2. k[2] = l[2]
    BY <1>4, <1>5, <2>1
  <2>3. k = <<k[1], k[2]>> /\ l = <<l[1], l[2]>>
    BY <1>4, <1>5
  <2> QED
    BY <2>2, <2>3
<1>7. \A i \in p.ruleDeletes : i.space \in RuleSpaces
  BY <1>4, ConfigEntry, SpaceOfFacts
<1>8. Fit(c, p)
  BY <1>2, <1>4, <1>5, <1>6, <1>7 DEF Fit, Typed, RenamesFree, Apart
<1>9. Strands(c, p, {})
  BY <1>2, <1>3, <1>4, PlainStrands
<1> QED
  BY <1>8, <1>9 DEF Carried, p, dead

LEMMA RewriteCarried ==
    ASSUME NEW c, IsConfig(c), NEW i \in DOMAIN c, NEW f \in Fields, NEW leaf \in Fields,
           leaf = Leaf(c[i].kind, f), NEW verb, NEW m \in Names
    PROVE  Carried(c, PlanRewrite(c, i, f, leaf, verb, m), {m})
<1> DEFINE p == PlanRewrite(c, i, f, leaf, verb, m)
           after == Rewritten(c[i].fields[leaf], verb, m)
<1>1. IsPlan(p)
  BY RewritePlan DEF Members
<1>2. p = EmptyPlan \/ p = Editing(i, f, after)
  BY DEF PlanRewrite
<1>3. after \subseteq c[i].fields[leaf] \cup {m}
  BY DEF Rewritten
<1> HIDE DEF p, after
<1>4. /\ DOMAIN p.upserts = {} /\ DOMAIN p.renames = {} /\ p.deletes = {} /\ p.ruleDeletes = {}
      /\ \A k \in DOMAIN p.edits : k = <<i, f>> /\ p.edits[k] = after
  BY <1>2 DEF EmptyPlan, Editing
<1>5. Carried(c, p, {m})
  BY <1>1, <1>3, <1>4, EditingCarried
<1> QED
  BY <1>5 DEF p

LEMMA MemberCarried ==
    ASSUME NEW c, IsConfig(c), NEW name, NEW verb, NEW m \in Names,
           ~PlanGroupMemberEdit(c, name, Locs, verb, m).blocked
    PROVE  Carried(c, PlanGroupMemberEdit(c, name, Locs, verb, m), {m})
<1> DEFINE groups == {i \in DOMAIN c : i.name = name /\ i.loc \in Locs /\ c[i].kind \in GroupKinds}
           g == CHOOSE i \in groups : TRUE
           leaf == Leaf(c[g].kind, "members")
           p == PlanGroupMemberEdit(c, name, Locs, verb, m)
<1>1. /\ Cardinality(groups) = 1 /\ c[g].kind # "dynamic-group"
      /\ p = PlanRewrite(c, g, "members", leaf, verb, m)
  BY RefusalRefuses DEF PlanGroupMemberEdit, Refuses
<1>2. groups # {}
  <2> HIDE DEF groups
  <2> QED
    BY <1>1, FS_EmptySet
<1>3. g \in DOMAIN c /\ c[g].kind \in {"address-group", "service-group"}
  BY <1>1, <1>2 DEF GroupKinds
<1>4. leaf \in Fields /\ "members" \in Fields
  <2>1. leaf \in {"static", "members"}
    BY <1>3, LeafFacts
  <2> QED
    BY <2>1 DEF Fields
<1> HIDE DEF p, g, groups
<1>5. Carried(c, p, {m})
  BY <1>1, <1>3, <1>4, RewriteCarried
<1> QED
  BY <1>5 DEF p

LEMMA RuleMemberCarried ==
    ASSUME NEW c, IsConfig(c), NEW name, NEW field, NEW verb, NEW m \in Names,
           ~PlanRuleMemberEdit(c, name, Locs, field, verb, m).blocked
    PROVE  Carried(c, PlanRuleMemberEdit(c, name, Locs, field, verb, m), {m})
<1> DEFINE rules == {i \in DOMAIN c : i.name = name /\ i.loc \in Locs /\ i.space \in RuleSpaces}
           rule == FirstRule(rules)
           p == PlanRuleMemberEdit(c, name, Locs, field, verb, m)
<1>1. /\ field \in EditableFields /\ Cardinality({i.loc : i \in rules}) = 1
      /\ p = PlanRewrite(c, rule, field, field, verb, m)
  BY RefusalRefuses DEF PlanRuleMemberEdit, Refuses
<1>2. rules # {}
  <2> HIDE DEF rules
  <2>1. rules = {} => {i.loc : i \in rules} = {}
    OBVIOUS
  <2> QED
    BY <1>1, <2>1, FS_EmptySet
<1>3. rule \in rules
  <2> HIDE DEF rules
  <2> QED
    BY <1>2 DEF FirstRule
<1>4. rule \in DOMAIN c /\ rule.space \in RuleSpaces
  BY <1>3
<1> HIDE DEF rule, p, rules
<1>5. c[rule].kind \in RuleSpaces
  BY <1>4, ConfigEntry, SpaceOfFacts DEF Kinds, RuleSpaces
<1>6. field \in Fields
  BY <1>1 DEF EditableFields, Fields
<1>7. field = Leaf(c[rule].kind, field)
  BY <1>5, LeafFacts
<1>8. Carried(c, p, {m})
  BY <1>1, <1>4, <1>6, <1>7, RewriteCarried
<1> QED
  BY <1>8 DEF p

LEMMA PromoteFoundSound ==
    ASSUME NEW c, IsConfig(c), NEW x, x.kind \in PromotableKinds, x.dest \in Locs,
           x.cascade \in BOOLEAN
    PROVE  Sound(c, PlanPromoteFound(c, x))
<1> DEFINE bucket == x.bucket
           keepName == x.keepName
           ordered == Ranked(bucket)
           p == PlanPromote(c, ordered, x.dest, keepName, x.cascade)
<1>1. CASE bucket \notin Selections(c, x.kind) \/ keepName \notin {i.name : i \in bucket} \cup {Nil}
  BY <1>1, RefusalRefuses DEF PlanPromoteFound, Sound
<1>2. CASE bucket \in Selections(c, x.kind) /\ keepName \in {i.name : i \in bucket} \cup {Nil}
  <2>1. PlanPromoteFound(c, x) = p
    BY <1>2 DEF PlanPromoteFound
  <2>2. bucket \in AlikeSets(c, x.kind) \cup Namesakes(c)
    BY <1>2 DEF Selections
  <2>3. bucket \in SUBSET DOMAIN c /\ Cardinality(bucket) >= 2
    BY <2>2 DEF AlikeSets, Namesakes, AddressGroups
  <2>4. \A m, n \in bucket : Family(c[m].kind) = Family(c[n].kind)
    <3>1. CASE bucket \in AlikeSets(c, x.kind)
      BY <3>1 DEF AlikeSets
    <3>2. CASE bucket \in Namesakes(c)
      BY <3>2 DEF Namesakes, AddressGroups, AddressGroupKinds, Family
    <3> QED
      BY <2>2, <3>1, <3>2
  <2>5. keepName = Nil \/ \E m \in bucket : m.name = keepName
    BY <1>2
  <2> HIDE DEF bucket, keepName
  <2>6. \A m, n \in bucket : m.space = n.space
    BY <2>3, <2>4, FamilyBucket
  <2>7. Bucket(c, ordered, keepName)
    BY <2>3, <2>5, <2>6, RankedBucket
  <2> HIDE DEF ordered
  <2>8. Sound(c, p)
    BY <2>7, PromoteShape
  <2> QED
    BY <2>1, <2>8
<1> QED
  BY <1>1, <1>2

(* Where references are repointed, groups with tags of their own are set   *)
(* apart.                                                                  *)
Covered(c, x) ==
    \/ x.op \in {"decommission", "purge", "import", "group", "member", "rule"}
    \/ Untagged(c)

Planned(c, x, p) == Typed(c, p) /\ (Covered(c, x) => Carried(c, p, Added(x)))

LEMMA CarriedPlanned ==
    ASSUME NEW c, NEW x, NEW p, Carried(c, p, Added(x))
    PROVE  Planned(c, x, p)
BY DEF Carried, Fit, Planned

LEMMA SoundPlanned ==
    ASSUME NEW c, IsConfig(c), NEW x,
           x.op \notin {"decommission", "purge", "import", "group", "member", "rule"},
           NEW p, Sound(c, p), ~p.blocked
    PROVE  Planned(c, x, p)
BY SoundCarried DEF Planned, Covered

LEMMA PlanCarried ==
    ASSUME NEW c, IsConfig(c), NEW x \in Intents, ~Refused(c, PlanFor(c, x))
    PROVE  Planned(c, x, PlanFor(c, x))
<1> DEFINE p == PlanFor(c, x)
<1>1. ~p.blocked /\ DOMAIN p.upserts \cap DOMAIN c = {}
  BY DEF Refused
<1>2. Refusal.blocked
  BY RefusalRefuses DEF Refuses
<1>3. CASE /\ x.op \in {"decommission", "purge"} /\ x \in Commands
           /\ x.op = "decommission" => \A t \in x.targets : t.space = "address"
  <2>1. p = PlanTeardown(c, x, Cascade(c, x)) /\ Added(x) = {}
    BY <1>3 DEF PlanFor, Added
  <2> HIDE DEF p
  <2>2. Carried(c, p, {})
    BY <1>3, <2>1, TeardownCarried
  <2> QED
    BY <2>1, <2>2, CarriedPlanned DEF p
<1>4. CASE /\ x.op = "import" /\ DOMAIN x.entries \subseteq Ids
           /\ \A i \in DOMAIN x.entries :
                x.entries[i] \in Entry /\ SpaceOf(x.entries[i].kind) = i.space
  <2>1. p = PlanImport(c, x.entries) /\ Added(x) = {}
    BY <1>4 DEF PlanFor, Added
  <2>2. p = [EmptyPlan EXCEPT !.upserts = x.entries]
    BY <1>1, <1>2, <2>1 DEF PlanImport
  <2>3. /\ p.upserts = x.entries /\ DOMAIN p.edits = {} /\ DOMAIN p.renames = {}
        /\ p.deletes = {} /\ p.ruleDeletes = {}
    BY <2>2 DEF EmptyPlan
  <2> HIDE DEF p
  <2>4. IsPlan(p)
    BY <1>4, <2>3 DEF IsPlan
  <2>5. Carried(c, p, {})
    BY <1>1, <2>3, <2>4, EntriesCarried
  <2> QED
    BY <2>1, <2>5, CarriedPlanned DEF p
<1>5. CASE x.op = "group" /\ x.id \in ObjectIds /\ x.id.space # "tag" /\ x.picks \subseteq ObjectIds
  <2>1. p = PlanGroupCreate(c, x.id, x.picks, {}) /\ Added(x) = {}
    BY <1>5 DEF PlanFor, Added
  <2>2. IsPlan(p)
    BY <1>5, <2>1, GroupCreatePlan
  <2>3. p = Putting(x.id, GroupOf(x.picks, {}))
    BY <1>1, <1>2, <2>1 DEF PlanGroupCreate
  <2>4. DOMAIN p.edits = {} /\ DOMAIN p.renames = {} /\ p.deletes = {} /\ p.ruleDeletes = {}
    BY <2>3 DEF Putting, EmptyPlan
  <2> HIDE DEF p
  <2>5. Carried(c, p, {})
    BY <1>1, <2>2, <2>4, EntriesCarried
  <2> QED
    BY <2>1, <2>5, CarriedPlanned DEF p
<1>6. CASE x.op = "member" /\ x.member \in Names
  <2>1. p = PlanGroupMemberEdit(c, x.name, Locs, x.verb, x.member) /\ Added(x) = {x.member}
    BY <1>6 DEF PlanFor, Added
  <2>2. Carried(c, p, {x.member})
    BY <1>1, <1>6, <2>1, MemberCarried
  <2> QED
    BY <2>1, <2>2, CarriedPlanned
<1>7. CASE x.op = "rule" /\ x.member \in Names
  <2>1. p = PlanRuleMemberEdit(c, x.name, Locs, x.field, x.verb, x.member) /\ Added(x) = {x.member}
    BY <1>7 DEF PlanFor, Added
  <2>2. Carried(c, p, {x.member})
    BY <1>1, <1>7, <2>1, RuleMemberCarried
  <2> QED
    BY <2>1, <2>2, CarriedPlanned
<1>8. CASE x.op = "rename" /\ x.id \in ObjectIds /\ x.new \in Names
  <2>1. p = PlanRename(c, x.id, x.new) /\ Added(x) = {}
    BY <1>8 DEF PlanFor, Added
  <2> HIDE DEF p
  <2>2. CASE x.id \notin DOMAIN c
    <3>1. Carried(c, p, {})
      BY <1>1, <1>8, <2>1, <2>2, AbsentRename
    <3> QED
      BY <2>1, <3>1, CarriedPlanned DEF p
  <2>3. CASE x.id \in DOMAIN c
    <3>1. Refuses(p) \/ Renames(c, p)
      BY <1>8, <2>1, <2>3, RenameShape
    <3>2. Sound(c, p)
      BY <3>1, RenameStrands DEF Sound
    <3> QED
      BY <1>1, <1>8, <3>2, SoundPlanned DEF p
  <2> QED
    BY <2>2, <2>3
<1>9. CASE x.op = "scheme"
  <2>1. p = PlanApplyScheme(c, x.scope)
    BY <1>9 DEF PlanFor
  <2> HIDE DEF p
  <2>2. Refuses(p) \/ Renames(c, p)
    BY <2>1, SchemeShape
  <2>3. Sound(c, p)
    BY <2>2, RenameStrands DEF Sound
  <2> QED
    BY <1>1, <1>9, <2>3, SoundPlanned DEF p
<1>10. CASE x.op = "merge"
  <2>1. p = PlanMerge(c, x.keep, x.drops, x.allowValueChange)
    BY <1>10 DEF PlanFor
  <2> HIDE DEF p
  <2>2. Sound(c, p)
    BY <2>1, MergeShape DEF Sound
  <2> QED
    BY <1>1, <1>10, <2>2, SoundPlanned DEF p
<1>11. CASE x.op = "merge-group"
  <2>1. p = PlanMergeGroup(c, x.keep, x.drop)
    BY <1>11 DEF PlanFor
  <2> HIDE DEF p
  <2>2. Sound(c, p)
    BY <2>1, MergeGroupShape DEF Sound
  <2> QED
    BY <1>1, <1>11, <2>2, SoundPlanned DEF p
<1>12. CASE x.op = "move" /\ x.dest \in Locs /\ x.cascade \in BOOLEAN
  <2>1. x.id \in DOMAIN c /\ p = PlanMove(c, x.id, x.dest, x.cascade)
    BY <1>1, <1>2, <1>12 DEF PlanFor
  <2> HIDE DEF p
  <2>2. Sound(c, p)
    BY <1>12, <2>1, MoveShape DEF Sound
  <2> QED
    BY <1>1, <1>12, <2>2, SoundPlanned DEF p
<1>13. CASE /\ x.op = "promote" /\ x.kind \in PromotableKinds /\ x.dest \in Locs
            /\ x.cascade \in BOOLEAN
  <2>1. p = PlanPromoteFound(c, x)
    BY <1>13 DEF PlanFor
  <2> HIDE DEF p
  <2>2. Sound(c, p)
    BY <1>13, <2>1, PromoteFoundSound
  <2> QED
    BY <1>1, <1>13, <2>2, SoundPlanned DEF p
<1>14. CASE x.op = "promote-all" /\ x.dest \in Locs /\ x.cascade \in BOOLEAN
  <2>1. p = PlanPromoteAll(c, x.kind, x.dest, x.cascade)
    BY <1>14 DEF PlanFor
  <2> HIDE DEF p
  <2>2. Sound(c, p)
    BY <1>14, <2>1, PromoteAllShape
  <2> QED
    BY <1>1, <1>14, <2>2, SoundPlanned DEF p
<1> QED
  BY <1>3, <1>4, <1>5, <1>6, <1>7, <1>8, <1>9, <1>10, <1>11, <1>12, <1>13, <1>14,
     IntentsAssumption

-----------------------------------------------------------------------------
(* The operations of a plan, and what each does.                           *)
LEMMA OpsFacts ==
    ASSUME NEW c, NEW p, Typed(c, p), NEW o \in Ops(c, p)
    PROVE  \/ o.do = "set" /\ o.id \in DOMAIN p.upserts
           \/ /\ o.do = "edit" /\ <<o.id, o.field>> \in DOMAIN p.edits
              /\ Mappable(KindOf(c, p, o.id), o.field)
           \/ o.do = "rule" /\ o.id \in p.ruleDeletes
           \/ o.do = "rename" /\ o.id \in DOMAIN p.renames
           \/ o.do = "delete" /\ o.id \in p.deletes
<1>1. CASE \E i \in DOMAIN p.upserts : o = Op("set", i, "static")
  BY <1>1 DEF Op
<1>2. CASE \E i \in p.ruleDeletes : o = Op("rule", i, "static")
  BY <1>2 DEF Op
<1>3. CASE \E i \in p.deletes : o = Op("delete", i, "static")
  BY <1>3 DEF Op
<1>4. CASE \E i \in DOMAIN p.renames : o = Op("rename", i, "static")
  BY <1>4 DEF Op
<1>5. ASSUME NEW k \in DOMAIN p.edits, Mappable(KindOf(c, p, k[1]), k[2]), o = Op("edit", k[1], k[2])
      PROVE  o.do = "edit" /\ o.id = k[1] /\ o.field = k[2]
  BY <1>5 DEF Op
<1>6. \A k \in DOMAIN p.edits : k = <<k[1], k[2]>>
  BY DEF Typed
<1> QED
  BY <1>1, <1>2, <1>3, <1>4, <1>5, <1>6 DEF Ops

LEMMA LeafField == ASSUME NEW k \in Kinds, NEW f \in Fields PROVE Leaf(k, f) \in Fields
<1>1. "static" \in Fields /\ "members" \in Fields
  BY DEF Fields
<1> QED
  BY <1>1, LeafFacts DEF Kinds

(* An entry that was set: created, or its lists appended to.               *)
PutAs(d, i, e, entry) ==
    /\ entry.kind = e.kind /\ entry.value = e.value
    /\ \A f \in Fields : entry.fields[f] =
            IF i \in DOMAIN d THEN d[i].fields[f] \cup e.fields[f] ELSE e.fields[f]

LEMMA SetEffect ==
    ASSUME Typed(running, plan), NEW d, IsConfig(d),
           NEW o \in Ops(running, plan), o.do = "set"
    PROVE  LET e == plan.upserts[o.id]
               new == Effect(d, o) IN
           /\ o.id \in DOMAIN plan.upserts /\ IsConfig(new)
           /\ DOMAIN new = DOMAIN d \cup {o.id}
           /\ \A i \in DOMAIN d \ {o.id} : new[i] = d[i]
           /\ PutAs(d, o.id, e, new[o.id])
<1> DEFINE e == plan.upserts[o.id]
           new == Effect(d, o)
           put == Merged(d, o.id, e)
<1>1. o.id \in DOMAIN plan.upserts
  BY OpsFacts
<1>2. o.id \in Ids /\ e \in Entry /\ SpaceOf(e.kind) = o.id.space
  BY <1>1 DEF Typed, IsPlan
<1>3. new = [i \in DOMAIN d \cup {o.id} |-> IF i = o.id THEN Merged(d, i, plan.upserts[i]) ELSE d[i]]
  BY DEF Effect, Put
<1>4. new[o.id] = put
  BY <1>3
<1> HIDE DEF e, new
<1>5. /\ put \in Entry /\ put.kind = e.kind /\ put.value = e.value
      /\ \A f \in Fields : put.fields[f] =
            IF o.id \in DOMAIN d THEN d[o.id].fields[f] \cup e.fields[f] ELSE e.fields[f]
  <2>1. CASE o.id \notin DOMAIN d
    BY <2>1, <1>2 DEF Merged
  <2>2. CASE o.id \in DOMAIN d
    <3> DEFINE lists == [f \in Fields |-> d[o.id].fields[f] \cup e.fields[f]]
    <3>1. d[o.id].fields \in [Fields -> SUBSET Members] /\ e.fields \in [Fields -> SUBSET Members]
      BY <2>2, <1>2, ConfigEntry DEF Entry
    <3>2. /\ lists \in [Fields -> SUBSET Members]
          /\ \A f \in Fields : lists[f] = d[o.id].fields[f] \cup e.fields[f]
      BY <3>1
    <3>3. put = [e EXCEPT !.fields = lists]
      BY <2>2 DEF Merged
    <3>4. e = [kind |-> e.kind, value |-> e.value, fields |-> e.fields]
      BY <1>2 DEF Entry
    <3> HIDE DEF lists, put
    <3>5. put = [kind |-> e.kind, value |-> e.value, fields |-> lists]
      BY <3>3, <3>4, <1>2 DEF Entry
    <3>6. put \in Entry /\ put.kind = e.kind /\ put.value = e.value /\ put.fields = lists
      BY <3>2, <3>5, <1>2 DEF Entry
    <3> QED
      BY <2>2, <3>2, <3>6
  <2> QED
    BY <2>1, <2>2
<1> HIDE DEF put
<1>6. IsConfig(new)
  <2>1. ASSUME NEW i \in DOMAIN new PROVE i \in Ids /\ new[i] \in Entry /\ SpaceOf(new[i].kind) = i.space
    <3>1. CASE i = o.id
      BY <1>2, <1>4, <1>5, <3>1
    <3>2. CASE i # o.id
      <4>1. i \in DOMAIN d /\ new[i] = d[i]
        BY <1>3, <3>2
      <4> QED
        BY <4>1, ConfigEntry
    <3> QED
      BY <3>1, <3>2
  <2> QED
    BY <2>1, <1>3 DEF IsConfig
<1>7. DOMAIN new = DOMAIN d \cup {o.id} /\ \A i \in DOMAIN d \ {o.id} : new[i] = d[i]
  BY <1>3
<1> QED
  BY <1>1, <1>4, <1>5, <1>6, <1>7 DEF e, new, PutAs

LEMMA EditEffect ==
    ASSUME Typed(running, plan), NEW d, IsConfig(d),
           NEW o \in Ops(running, plan), o.do = "edit", o.id \in DOMAIN d
    PROVE  LET new == Effect(d, o)
               leaf == Leaf(d[o.id].kind, o.field) IN
           /\ <<o.id, o.field>> \in DOMAIN plan.edits
           /\ IsConfig(new) /\ DOMAIN new = DOMAIN d
           /\ \A i \in DOMAIN d :
                /\ new[i].kind = d[i].kind /\ new[i].value = d[i].value
                /\ \A f \in Fields : new[i].fields[f] =
                      IF i = o.id /\ f = leaf THEN plan.edits[<<o.id, o.field>>] ELSE d[i].fields[f]
<1> DEFINE new == Effect(d, o)
           leaf == Leaf(d[o.id].kind, o.field)
           list == plan.edits[<<o.id, o.field>>]
           lists == [d[o.id].fields EXCEPT ![leaf] = list]
<1>1. <<o.id, o.field>> \in DOMAIN plan.edits
  BY OpsFacts
<1>2. o.field \in Fields /\ list \in SUBSET Members
  BY <1>1 DEF Typed, IsPlan
<1>3. d[o.id] \in Entry /\ d[o.id].kind \in Kinds /\ d[o.id].fields \in [Fields -> SUBSET Members]
  BY ConfigEntry
<1>4. leaf \in Fields
  BY <1>2, <1>3, LeafField
<1>5. new = [d EXCEPT ![o.id].fields[leaf] = list]
  BY DEF Effect, Relisted
<1> HIDE DEF new, leaf, list
<1>6. lists \in [Fields -> SUBSET Members]
      /\ \A f \in Fields : lists[f] = IF f = leaf THEN list ELSE d[o.id].fields[f]
  BY <1>2, <1>3, <1>4
<1>7. new = [d EXCEPT ![o.id] = [d[o.id] EXCEPT !.fields = lists]]
  BY <1>5
<1> HIDE DEF lists
<1>8. /\ [d[o.id] EXCEPT !.fields = lists] \in Entry
      /\ [d[o.id] EXCEPT !.fields = lists].kind = d[o.id].kind
      /\ [d[o.id] EXCEPT !.fields = lists].value = d[o.id].value
      /\ [d[o.id] EXCEPT !.fields = lists].fields = lists
  BY <1>3, <1>6 DEF Entry
<1>9. DOMAIN new = DOMAIN d /\ new[o.id] = [d[o.id] EXCEPT !.fields = lists]
      /\ \A i \in DOMAIN d \ {o.id} : new[i] = d[i]
  BY <1>7
<1>10. IsConfig(new)
  <2>1. ASSUME NEW i \in DOMAIN new PROVE i \in Ids /\ new[i] \in Entry /\ SpaceOf(new[i].kind) = i.space
    <3>1. i \in DOMAIN d /\ i \in Ids /\ d[i] \in Entry /\ SpaceOf(d[i].kind) = i.space
      BY <1>9, ConfigEntry
    <3>2. CASE i = o.id
      BY <3>1, <3>2, <1>8, <1>9
    <3>3. CASE i # o.id
      BY <3>1, <3>3, <1>9
    <3> QED
      BY <3>2, <3>3
  <2>2. new = [i \in DOMAIN new |-> new[i]]
    BY <1>7 DEF IsConfig
  <2> QED
    BY <2>1, <2>2 DEF IsConfig
<1>11. ASSUME NEW i \in DOMAIN d
       PROVE  /\ new[i].kind = d[i].kind /\ new[i].value = d[i].value
              /\ \A f \in Fields : new[i].fields[f] =
                    IF i = o.id /\ f = leaf THEN list ELSE d[i].fields[f]
  BY <1>6, <1>8, <1>9, ZenonT(60)
<1> QED
  BY <1>1, <1>9, <1>10, <1>11 DEF new, leaf, list

LEMMA RemoveEffect ==
    ASSUME Typed(running, plan), NEW d, IsConfig(d),
           NEW o \in Ops(running, plan), o.do \in {"rule", "delete"}
    PROVE  /\ Effect(d, o) = Without(d, {o.id}) /\ IsConfig(Effect(d, o))
           /\ DOMAIN Effect(d, o) = DOMAIN d \ {o.id}
           /\ \A i \in DOMAIN d \ {o.id} : Effect(d, o)[i] = d[i]
           /\ o.id \in Gone(plan)
<1>1. Effect(d, o) = Without(d, {o.id})
  BY DEF Effect
<1>2. o.id \in Gone(plan)
  BY OpsFacts DEF Gone
<1>3. /\ IsConfig(Without(d, {o.id})) /\ DOMAIN Without(d, {o.id}) = DOMAIN d \ {o.id}
      /\ \A i \in DOMAIN d \ {o.id} : Without(d, {o.id})[i] = d[i]
  BY WithoutShape
<1> QED
  BY <1>1, <1>2, <1>3


LEMMA RenameEffect ==
    ASSUME Typed(running, plan), NEW d, IsConfig(d),
           NEW o \in Ops(running, plan), o.do = "rename", Executable(d, o)
    PROVE  /\ IsConfig(Effect(d, o)) /\ o.id \in DOMAIN plan.renames
           /\ DOMAIN Effect(d, o) = (DOMAIN d \ {o.id}) \cup {Moved(plan.renames, o.id)}
           /\ Effect(d, o)[Moved(plan.renames, o.id)] = d[o.id]
           /\ \A j \in DOMAIN d \ {o.id} : Effect(d, o)[j] = d[j]
<1> DEFINE one == [i \in {o.id} |-> plan.renames[i]]
           m == Moved(plan.renames, o.id)
           new == Effect(d, o)
           was(j) == CHOOSE i \in DOMAIN d : Moved(one, i) = j
<1>1. o.id \in DOMAIN plan.renames /\ plan.renames[o.id] \in Names
  BY OpsFacts DEF Typed, IsPlan
<1>2. o.id \in DOMAIN d /\ m \notin DOMAIN d
  BY DEF Executable
<1>3. new = Renamed(d, one)
  BY DEF Effect
<1>4. DOMAIN one = {o.id} /\ one[o.id] = plan.renames[o.id]
  OBVIOUS
<1> HIDE DEF one
<1>5. IsConfig(new)
  BY <1>1, <1>3, <1>4, RenamedShape
<1>6. Moved(one, o.id) = m /\ \A i : i # o.id => Moved(one, i) = i
  BY <1>1, <1>4 DEF Moved
<1> HIDE DEF m
<1>7. new = [j \in {Moved(one, i) : i \in DOMAIN d} |-> d[was(j)]]
  BY <1>3 DEF Renamed
<1>8. DOMAIN new = (DOMAIN d \ {o.id}) \cup {m}
  BY <1>2, <1>6, <1>7
<1>9. new[m] = d[o.id]
  <2>1. was(m) = o.id
    <3>1. \E i \in DOMAIN d : Moved(one, i) = m
      BY <1>2, <1>6
    <3>2. was(m) \in DOMAIN d /\ Moved(one, was(m)) = m
      BY <3>1
    <3> HIDE DEF was
    <3> QED
      BY <1>2, <1>6, <3>2
  <2> HIDE DEF was, new
  <2> QED
    BY <1>7, <1>8, <2>1
<1>10. ASSUME NEW j \in DOMAIN d \ {o.id} PROVE new[j] = d[j]
  <2>1. was(j) = j
    <3>1. \E i \in DOMAIN d : Moved(one, i) = j
      BY <1>6
    <3>2. was(j) \in DOMAIN d /\ Moved(one, was(j)) = j
      BY <3>1
    <3> HIDE DEF was
    <3> QED
      BY <1>2, <1>6, <3>2
  <2> HIDE DEF was, new
  <2> QED
    BY <1>7, <1>8, <2>1
<1> QED
  BY <1>1, <1>5, <1>8, <1>9, <1>10 DEF new, m

-----------------------------------------------------------------------------
(* Between the running configuration and the plan: what a candidate looks  *)
(* like at every moment of a push that began on a clean one.               *)

(* Lists are the old ones or the planned ones; a set that comes after the  *)
(* edit of a new entry adds to it.                                         *)
Holds(c, p, i, e) ==
    /\ e.kind = Extended(c, p)[i].kind /\ e.value = Extended(c, p)[i].value
    /\ \A f \in Fields :
        \/ e.fields[f] = Extended(c, p)[i].fields[f]
        \/ e.fields[f] = NewList(Extended(c, p), p.edits, i, f)
        \/ /\ i \notin DOMAIN c
           /\ e.fields[f] = Extended(c, p)[i].fields[f]
                                \cup NewList(Extended(c, p), p.edits, i, f)

Between(c, p, d) ==
    /\ IsConfig(d)
    /\ \A i \in DOMAIN c \ Gone(p) : i \in DOMAIN d \/ Moved(p.renames, i) \in DOMAIN d
    /\ \A i \in DOMAIN p.renames : ~(i \in DOMAIN d /\ Moved(p.renames, i) \in DOMAIN d)
    /\ \A j \in DOMAIN d : \E i \in DOMAIN Extended(c, p) : IsAt(p, i, j)
    /\ \A i \in DOMAIN Extended(c, p) : \A j \in DOMAIN d :
        IsAt(p, i, j) => Holds(c, p, i, d[j])

(* What an operation leaves behind, whatever is sent after it.             *)
Written(c, p, o, d) ==
    \A j \in DOMAIN d : IsAt(p, o.id, j) =>
        d[j].fields[Leaf(KindOf(c, p, o.id), o.field)] = p.edits[<<o.id, o.field>>]

Executed(c, p, o, d) ==
    CASE o.do = "set"    -> o.id \in DOMAIN d
      [] o.do = "edit"   -> Written(c, p, o, d)
      [] o.do = "rename" -> o.id \notin DOMAIN d /\ Moved(p.renames, o.id) \in DOMAIN d
      [] OTHER           -> o.id \notin DOMAIN d

(* The key of an edit, and the list of its leaf once it is written.        *)
LEMMA EditKey ==
    ASSUME NEW c, IsConfig(c), NEW p, Fit(c, p), NEW o \in Ops(c, p), o.do = "edit"
    PROVE  /\ <<o.id, o.field>> \in DOMAIN p.edits /\ o.id \in DOMAIN Extended(c, p)
           /\ o.field \in Fields /\ Leaf(KindOf(c, p, o.id), o.field) \in Fields
           /\ KindOf(c, p, o.id) = Extended(c, p)[o.id].kind
           /\ NewList(Extended(c, p), p.edits, o.id, Leaf(KindOf(c, p, o.id), o.field))
                = p.edits[<<o.id, o.field>>]
<1> DEFINE key == <<o.id, o.field>>
           u == Extended(c, p)
           leaf == Leaf(KindOf(c, p, o.id), o.field)
<1>1. Typed(c, p)
  BY DEF Fit
<1>2. key \in DOMAIN p.edits /\ Mappable(KindOf(c, p, o.id), o.field)
  BY <1>1, OpsFacts
<1>3. key[1] = o.id /\ key[2] = o.field
  OBVIOUS
<1> HIDE DEF key, u
<1>4. DOMAIN u = DOMAIN c \cup DOMAIN p.upserts
  BY <1>1, ExtendedFacts DEF u
<1>5. IsConfig(u)
  BY <1>1, ExtendedFacts DEF u
<1>6. o.id \in DOMAIN u /\ o.field \in Fields
  BY <1>2, <1>3, <1>4 DEF Fit, Typed
<1>7. KindOf(c, p, o.id) = u[o.id].kind
  BY <1>1, <1>6, KindFacts DEF u
<1>8. leaf \in Fields
  BY <1>5, <1>6, <1>7, ConfigEntry, LeafField
<1>9. Writers(u, p.edits, o.id, leaf) = {key}
  <2>1. key \in Writers(u, p.edits, o.id, leaf)
    BY <1>2, <1>3, <1>7 DEF Writers
  <2>2. ASSUME NEW k \in Writers(u, p.edits, o.id, leaf) PROVE k = key
    <3>1. k \in DOMAIN p.edits /\ k[1] = o.id /\ Leaf(KindOf(c, p, o.id), k[2]) = leaf
      BY <1>7 DEF Writers
    <3>2. k[1] = key[1] /\ Leaf(KindOf(c, p, k[1]), k[2]) = Leaf(KindOf(c, p, k[1]), key[2])
      BY <1>3, <3>1
    <3> QED
      BY <1>2, <3>1, <3>2 DEF Fit, WritesOnce
  <2> QED
    BY <2>1, <2>2
<1>10. NewList(u, p.edits, o.id, leaf) = p.edits[key]
  BY <1>9 DEF NewList
<1> QED
  BY <1>2, <1>6, <1>7, <1>8, <1>10 DEF key, u

(* What can be renamed is there.                                           *)
LEMMA RenameNames ==
    ASSUME NEW c, IsConfig(c), NEW p, Fit(c, p), NEW d, Between(c, p, d),
           NEW i \in DOMAIN p.renames, i \in DOMAIN d
    PROVE  /\ DOMAIN p.renames \subseteq DOMAIN c /\ i \in DOMAIN c
           /\ DOMAIN p.upserts = {} /\ p.deletes = {} /\ p.ruleDeletes = {}
           /\ DOMAIN Extended(c, p) = DOMAIN c
<1>1. /\ DOMAIN p.upserts = {} /\ p.deletes = {} /\ p.ruleDeletes = {}
      /\ DOMAIN p.renames \subseteq DOMAIN c \/ DOMAIN p.renames \cap DOMAIN c = {}
  BY DEF Fit, RenamesFree
<1>2. DOMAIN Extended(c, p) = DOMAIN c
  <2>1. DOMAIN Extended(c, p) = DOMAIN c \cup DOMAIN p.upserts
    BY ExtendedFacts DEF Fit
  <2> QED
    BY <1>1, <2>1
<1>3. PICK x \in DOMAIN c : IsAt(p, x, i)
  BY <1>2 DEF Between
<1>4. x \notin DOMAIN p.renames => x = i
  BY <1>3 DEF IsAt, Moved
<1> QED
  BY <1>1, <1>2, <1>3, <1>4

LEMMA SetBetween ==
    ASSUME IsConfig(running), Fit(running, plan), NEW d, Between(running, plan, d),
           NEW o \in Ops(running, plan), o.do = "set"
    PROVE  Between(running, plan, Effect(d, o)) /\ Executed(running, plan, o, Effect(d, o))
<1> DEFINE new == Effect(d, o)
           u == Extended(running, plan)
<1>1. IsConfig(d) /\ Typed(running, plan)
  BY DEF Between, Fit
<1>2. o.id \in DOMAIN plan.upserts
  BY <1>1, OpsFacts
<1>3. o.id \notin DOMAIN running
  BY <1>1, <1>2 DEF Typed
<1>4. o.id \in DOMAIN u /\ u[o.id] = plan.upserts[o.id]
  <2>1. DOMAIN u = DOMAIN running \cup DOMAIN plan.upserts
    BY <1>1, ExtendedFacts
  <2>2. \A x \in DOMAIN plan.upserts : u[x] = plan.upserts[x]
    BY <1>1, CreatedShape DEF Extended, Typed
  <2> QED
    BY <1>2, <2>1, <2>2
<1>5. /\ IsConfig(new) /\ DOMAIN new = DOMAIN d \cup {o.id}
      /\ \A i \in DOMAIN d \ {o.id} : new[i] = d[i]
  BY <1>1, SetEffect
<1>6. /\ new[o.id].kind = u[o.id].kind /\ new[o.id].value = u[o.id].value
      /\ \A f \in Fields : new[o.id].fields[f] =
            IF o.id \in DOMAIN d THEN d[o.id].fields[f] \cup u[o.id].fields[f] ELSE u[o.id].fields[f]
  <2> DEFINE e == plan.upserts[o.id]
  <2>1. PutAs(d, o.id, e, new[o.id])
    BY <1>1, SetEffect
  <2>2. u[o.id] = e
    BY <1>4
  <2> HIDE DEF new, u, e
  <2> QED
    BY <2>1, <2>2 DEF PutAs
<1> HIDE DEF new
<1>7. DOMAIN plan.renames = {}
  BY <1>2 DEF Fit, RenamesFree
<1>8. \A i, j : IsAt(plan, i, j) <=> i = j
  BY <1>7 DEF IsAt, Moved
<1>9. Holds(running, plan, o.id, new[o.id])
  <2>1. CASE o.id \notin DOMAIN d
    BY <1>6, <2>1 DEF Holds, u
  <2>2. CASE o.id \in DOMAIN d
    <3>1. Holds(running, plan, o.id, d[o.id])
      BY <1>4, <1>8, <2>2 DEF Between
    <3>2. ASSUME NEW f \in Fields
          PROVE  \/ new[o.id].fields[f] = u[o.id].fields[f]
                 \/ new[o.id].fields[f] = NewList(u, plan.edits, o.id, f)
                 \/ new[o.id].fields[f] = u[o.id].fields[f] \cup NewList(u, plan.edits, o.id, f)
      <4>1. \/ d[o.id].fields[f] = u[o.id].fields[f]
            \/ d[o.id].fields[f] = NewList(u, plan.edits, o.id, f)
            \/ d[o.id].fields[f] = u[o.id].fields[f] \cup NewList(u, plan.edits, o.id, f)
        BY <3>1 DEF Holds
      <4>2. new[o.id].fields[f] = d[o.id].fields[f] \cup u[o.id].fields[f]
        BY <1>6, <2>2
      <4> HIDE DEF u
      <4> QED
        BY <4>1, <4>2
    <3> HIDE DEF u
    <3> QED
      BY <1>3, <1>6, <3>2 DEF Holds, u
  <2> QED
    BY <2>1, <2>2
<1> HIDE DEF u
<1>10. Between(running, plan, new)
  <2>1. \A j \in DOMAIN new : \E i \in DOMAIN u : IsAt(plan, i, j)
    BY <1>4, <1>5 DEF Between, IsAt, u
  <2>2. \A i \in DOMAIN u : \A j \in DOMAIN new : IsAt(plan, i, j) => Holds(running, plan, i, new[j])
    BY <1>5, <1>8, <1>9 DEF Between, u
  <2>3. \A i \in DOMAIN running \ Gone(plan) :
            i \in DOMAIN new \/ Moved(plan.renames, i) \in DOMAIN new
    BY <1>5 DEF Between
  <2> QED
    BY <1>5, <1>7, <2>1, <2>2, <2>3 DEF Between, u
<1>11. Executed(running, plan, o, new)
  BY <1>5 DEF Executed
<1> QED
  BY <1>10, <1>11 DEF new

LEMMA EditBetween ==
    ASSUME IsConfig(running), Fit(running, plan), NEW d, Between(running, plan, d),
           NEW o \in Ops(running, plan), o.do = "edit", Executable(d, o)
    PROVE  Between(running, plan, Effect(d, o)) /\ Executed(running, plan, o, Effect(d, o))
<1> DEFINE new == Effect(d, o)
           u == Extended(running, plan)
           leaf == Leaf(KindOf(running, plan, o.id), o.field)
           list == plan.edits[<<o.id, o.field>>]
<1>1. IsConfig(d) /\ Typed(running, plan) /\ o.id \in DOMAIN d
  BY DEF Between, Fit, Executable
<1>2. /\ o.id \in DOMAIN u /\ leaf \in Fields /\ KindOf(running, plan, o.id) = u[o.id].kind
      /\ NewList(u, plan.edits, o.id, leaf) = list
  BY EditKey
<1>3. Holds(running, plan, o.id, d[o.id])
  BY <1>1, <1>2 DEF Between, IsAt
<1>4. d[o.id].kind = KindOf(running, plan, o.id)
  BY <1>2, <1>3 DEF Holds
<1>5. IsConfig(new) /\ DOMAIN new = DOMAIN d
  BY <1>1, EditEffect
<1>6. \A i \in DOMAIN d :
        /\ new[i].kind = d[i].kind /\ new[i].value = d[i].value
        /\ \A f \in Fields : new[i].fields[f] =
              IF i = o.id /\ f = leaf THEN list ELSE d[i].fields[f]
  BY <1>1, <1>4, EditEffect
<1> HIDE DEF new, u, leaf, list
<1>7. ASSUME NEW i \in DOMAIN u, NEW j \in DOMAIN d, IsAt(plan, i, j)
      PROVE  Holds(running, plan, i, new[j])
  <2>1. Holds(running, plan, i, d[j])
    BY <1>7 DEF Between, u
  <2>2. j = o.id => i = o.id
    BY <1>2, <1>7, IsAtOnce DEF IsAt, u
  <2>3. \A f \in Fields : new[j].fields[f] = d[j].fields[f]
                          \/ new[j].fields[f] = NewList(u, plan.edits, i, f)
    BY <1>2, <1>6, <2>2
  <2>4. new[j].kind = d[j].kind /\ new[j].value = d[j].value
    BY <1>6
  <2> QED
    BY <2>1, <2>3, <2>4 DEF Holds, u
<1>8. Between(running, plan, new)
  BY <1>5, <1>7 DEF Between, u
<1>9. Executed(running, plan, o, new)
  <2> SUFFICES ASSUME NEW j \in DOMAIN new, IsAt(plan, o.id, j) PROVE new[j].fields[leaf] = list
    BY DEF Executed, Written, leaf, list
  <2>1. j = o.id
    <3>1. j # o.id => o.id \in DOMAIN plan.renames /\ j = Moved(plan.renames, o.id)
      BY DEF IsAt, Moved
    <3> QED
      BY <1>1, <1>5, <3>1 DEF Between
  <2> QED
    BY <1>1, <1>2, <1>6, <2>1
<1> QED
  BY <1>8, <1>9 DEF new

LEMMA RemoveBetween ==
    ASSUME IsConfig(running), Fit(running, plan), NEW d, Between(running, plan, d),
           NEW o \in Ops(running, plan), o.do \in {"rule", "delete"}
    PROVE  Between(running, plan, Effect(d, o)) /\ Executed(running, plan, o, Effect(d, o))
<1> DEFINE new == Effect(d, o)
<1>1. IsConfig(d) /\ Typed(running, plan)
  BY DEF Between, Fit
<1>2. /\ IsConfig(new) /\ DOMAIN new = DOMAIN d \ {o.id}
      /\ \A i \in DOMAIN d \ {o.id} : new[i] = d[i]
      /\ o.id \in Gone(plan)
  BY <1>1, RemoveEffect
<1> HIDE DEF new
<1>3. DOMAIN plan.renames = {}
  BY <1>2 DEF Fit, RenamesFree, Gone
<1>4. \A i : Moved(plan.renames, i) = i
  BY <1>3 DEF Moved
<1>5. \A i \in DOMAIN running \ Gone(plan) :
            i \in DOMAIN new \/ Moved(plan.renames, i) \in DOMAIN new
  BY <1>2, <1>4 DEF Between
<1>6. Between(running, plan, new)
  BY <1>2, <1>3, <1>5 DEF Between
<1>7. Executed(running, plan, o, new)
  BY <1>2 DEF Executed
<1> QED
  BY <1>6, <1>7 DEF new

LEMMA RenameBetween ==
    ASSUME IsConfig(running), Fit(running, plan), NEW d, Between(running, plan, d),
           NEW o \in Ops(running, plan), o.do = "rename", Executable(d, o)
    PROVE  Between(running, plan, Effect(d, o)) /\ Executed(running, plan, o, Effect(d, o))
<1> DEFINE new == Effect(d, o)
           u == Extended(running, plan)
           m == Moved(plan.renames, o.id)
<1>1. IsConfig(d) /\ Typed(running, plan) /\ o.id \in DOMAIN d /\ m \notin DOMAIN d
  BY DEF Between, Fit, Executable
<1>2. /\ IsConfig(new) /\ o.id \in DOMAIN plan.renames
      /\ DOMAIN new = (DOMAIN d \ {o.id}) \cup {m}
      /\ new[m] = d[o.id]
      /\ \A j \in DOMAIN d \ {o.id} : new[j] = d[j]
  BY <1>1, RenameEffect
<1>3. /\ DOMAIN plan.renames \subseteq DOMAIN running /\ o.id \in DOMAIN running
      /\ DOMAIN u = DOMAIN running
  BY <1>1, <1>2, RenameNames
<1>4. m # o.id
  BY <1>1
<1> HIDE DEF new, u
<1>5. \A i \in DOMAIN u : IsAt(plan, i, o.id) => i = o.id
  BY <1>2, <1>3, IsAtOnce DEF IsAt, u
<1>6. \A i \in DOMAIN u : IsAt(plan, i, m) => i = o.id
  BY <1>2, <1>3, IsAtOnce DEF IsAt, u
<1>7. \A i \in DOMAIN running \ Gone(plan) :
            i \in DOMAIN new \/ Moved(plan.renames, i) \in DOMAIN new
  BY <1>2, <1>3, <1>5 DEF Between, IsAt
<1>8. ASSUME NEW i \in DOMAIN plan.renames, i \in DOMAIN new, Moved(plan.renames, i) \in DOMAIN new
      PROVE  FALSE
  <2>1. i \in DOMAIN u
    BY <1>3
  <2>2. CASE i = o.id
    BY <1>2, <1>4, <1>8, <2>2
  <2>3. CASE i # o.id
    <3>1. i # m /\ Moved(plan.renames, i) # m
      BY <1>6, <2>1, <2>3 DEF IsAt
    <3>2. i \in DOMAIN d /\ Moved(plan.renames, i) \in DOMAIN d
      BY <1>2, <1>8, <3>1
    <3> QED
      BY <3>2 DEF Between
  <2> QED
    BY <2>2, <2>3
<1>9. \A j \in DOMAIN new : \E i \in DOMAIN u : IsAt(plan, i, j)
  BY <1>2, <1>3 DEF Between, IsAt, u
<1>10. ASSUME NEW i \in DOMAIN u, NEW j \in DOMAIN new, IsAt(plan, i, j)
       PROVE  Holds(running, plan, i, new[j])
  <2>1. CASE j = m
    <3>1. i = o.id
      BY <1>6, <1>10, <2>1
    <3>2. Holds(running, plan, i, d[o.id])
      BY <1>1, <1>10, <3>1 DEF Between, IsAt, u
    <3> QED
      BY <1>2, <2>1, <3>2
  <2>2. CASE j # m
    BY <1>2, <1>10, <2>2 DEF Between, u
  <2> QED
    BY <2>1, <2>2
<1>11. Between(running, plan, new)
  BY <1>2, <1>7, <1>8, <1>9, <1>10 DEF Between, u
<1>12. Executed(running, plan, o, new)
  BY <1>2, <1>4 DEF Executed
<1> QED
  BY <1>11, <1>12 DEF new

(* An operation keeps the candidate between the two.                       *)
LEMMA EffectBetween ==
    ASSUME IsConfig(running), Fit(running, plan), NEW d, Between(running, plan, d),
           NEW o \in Ops(running, plan), Executable(d, o)
    PROVE  Between(running, plan, Effect(d, o)) /\ Executed(running, plan, o, Effect(d, o))
<1>1. o.do \in {"set", "edit", "rule", "rename", "delete"}
  BY OpsFacts DEF Fit
<1> QED
  BY <1>1, SetBetween, EditBetween, RemoveBetween, RenameBetween

LEMMA RankValues ==
    ASSUME Typed(running, plan), NEW o \in Ops(running, plan)
    PROVE  /\ Rank(running, o) \in Nat
           /\ o.do = "set" => Rank(running, o) = 1
           /\ o.do = "edit" => Rank(running, o) = 2
           /\ o.do = "rule" => Rank(running, o) = 3
           /\ o.do = "rename" => Rank(running, o) = 4
           /\ o.do = "delete" => Rank(running, o) >= 5
<1>1. o.do \in {"set", "edit", "rule", "rename", "delete"}
  BY OpsFacts
<1>2. \A k : DeleteRank(k) \in 5..9
  BY DEF DeleteRank
<1>3. CASE o.do # "delete"
  BY <1>1, <1>3 DEF Rank
<1>4. CASE o.do = "delete"
  BY <1>2, <1>4 DEF Rank
<1> QED
  BY <1>3, <1>4

(* An operation undoes none that was sent before it, and no edit of an old *)
(* entry at all.                                                           *)
LEMMA EffectKeeps ==
    ASSUME IsConfig(running), Fit(running, plan), NEW d, Between(running, plan, d),
           NEW o \in Ops(running, plan), Executable(d, o),
           NEW other \in Ops(running, plan), Executed(running, plan, other, d),
           \/ Rank(running, other) <= Rank(running, o)
           \/ other.do = "edit" /\ other.id \in DOMAIN running
    PROVE  Executed(running, plan, other, Effect(d, o))
<1> DEFINE new == Effect(d, o)
<1>1. IsConfig(d) /\ Typed(running, plan)
  BY DEF Between, Fit
<1>2. o.do \in {"set", "edit", "rule", "rename", "delete"}
  BY <1>1, OpsFacts
<1>3. other.do \in {"set", "edit", "rule", "rename", "delete"}
  BY <1>1, OpsFacts
<1>4. CASE o.do = "set"
  <2>1. o.id \in DOMAIN plan.upserts /\ o.id \notin DOMAIN running
    BY <1>1, <1>4, OpsFacts DEF Typed
  <2>2. DOMAIN new = DOMAIN d \cup {o.id} /\ \A i \in DOMAIN d \ {o.id} : new[i] = d[i]
    BY <1>1, <1>4, SetEffect
  <2>3. other.do = "set" \/ (other.do = "edit" /\ other.id \in DOMAIN running)
    BY <1>1, <1>3, <1>4, RankValues
  <2>4. \A i, j : IsAt(plan, i, j) <=> i = j
    BY <2>1 DEF Fit, RenamesFree, IsAt, Moved
  <2> HIDE DEF new
  <2> QED
    BY <2>1, <2>2, <2>3, <2>4 DEF Executed, Written, new
<1>5. CASE o.do = "edit"
  <2> DEFINE leaf == Leaf(KindOf(running, plan, o.id), o.field)
             list == plan.edits[<<o.id, o.field>>]
  <2>1. o.id \in DOMAIN d
    BY <1>5 DEF Executable
  <2>2. DOMAIN new = DOMAIN d
    BY <1>1, <1>5, <2>1, EditEffect
  <2>3. Executed(running, plan, o, new)
    BY <1>5, EditBetween
  <2>4. new[o.id].fields[leaf] = list
    BY <1>5, <2>1, <2>2, <2>3 DEF Executed, Written, IsAt
  <2>5. d[o.id].kind = KindOf(running, plan, o.id)
    <3>1. /\ o.id \in DOMAIN Extended(running, plan)
          /\ KindOf(running, plan, o.id) = Extended(running, plan)[o.id].kind
      BY <1>5, EditKey
    <3>2. Holds(running, plan, o.id, d[o.id])
      BY <2>1, <3>1 DEF Between, IsAt
    <3> QED
      BY <3>1, <3>2 DEF Holds
  <2>6. \A i \in DOMAIN d : \A f \in Fields :
            ~(i = o.id /\ f = leaf) => new[i].fields[f] = d[i].fields[f]
    <3>1. \A i \in DOMAIN d : \A f \in Fields : new[i].fields[f] =
              IF i = o.id /\ f = leaf THEN list ELSE d[i].fields[f]
      BY <1>1, <1>5, <2>1, <2>5, EditEffect
    <3> HIDE DEF new, leaf, list
    <3> QED
      BY <3>1
  <2>7. CASE other.do # "edit"
    BY <2>2, <2>7 DEF Executed
  <2>8. CASE other.do = "edit"
    <3> DEFINE oleaf == Leaf(KindOf(running, plan, other.id), other.field)
               olist == plan.edits[<<other.id, other.field>>]
    <3>1. other.id \in DOMAIN Extended(running, plan) /\ oleaf \in Fields
      BY <2>8, EditKey
    <3>2. o.id \in DOMAIN Extended(running, plan) /\ leaf \in Fields
      BY <1>5, EditKey
    <3> HIDE DEF new
    <3> SUFFICES ASSUME NEW j \in DOMAIN new, IsAt(plan, other.id, j)
                 PROVE  new[j].fields[oleaf] = olist
      BY <2>8 DEF Executed, Written, new
    <3>3. d[j].fields[oleaf] = olist
      BY <2>2, <2>8 DEF Executed, Written
    <3>4. CASE ~(j = o.id /\ oleaf = leaf)
      <4> HIDE DEF oleaf, olist, leaf
      <4> QED
        BY <2>2, <2>6, <3>1, <3>3, <3>4
    <3>5. CASE j = o.id /\ oleaf = leaf
      <4>1. other.id = o.id
        BY <3>1, <3>2, <3>5, IsAtOnce DEF IsAt
      <4>2. <<o.id, o.field>> \in DOMAIN plan.edits /\ <<other.id, other.field>> \in DOMAIN plan.edits
        BY <1>5, <2>8, EditKey
      <4>3. WritesOnce(running, plan)
        BY DEF Fit
      <4>4. <<o.id, o.field>> = <<other.id, other.field>>
        BY <3>5, <4>1, <4>2, <4>3 DEF WritesOnce
      <4> QED
        BY <2>4, <3>5, <4>4
    <3> QED
      BY <3>4, <3>5
  <2> QED
    BY <2>7, <2>8
<1>6. CASE o.do \in {"rule", "delete"}
  <2>1. /\ DOMAIN new = DOMAIN d \ {o.id} /\ \A i \in DOMAIN d \ {o.id} : new[i] = d[i]
        /\ o.id \in Gone(plan)
    BY <1>1, <1>6, RemoveEffect
  <2>2. o.id \notin DOMAIN plan.upserts /\ DOMAIN plan.renames = {}
    BY <2>1 DEF Fit, Typed, RenamesFree, Gone
  <2>3. other.do = "set" => other.id \in DOMAIN plan.upserts
    BY <1>1, OpsFacts
  <2>4. other.do # "rename"
    BY <1>1, <2>2, OpsFacts
  <2> HIDE DEF new
  <2> QED
    BY <1>3, <2>1, <2>2, <2>3, <2>4 DEF Executed, Written, new
<1>7. CASE o.do = "rename"
  <2> DEFINE m == Moved(plan.renames, o.id)
  <2>1. /\ DOMAIN new = (DOMAIN d \ {o.id}) \cup {m} /\ new[m] = d[o.id]
        /\ \A j \in DOMAIN d \ {o.id} : new[j] = d[j]
        /\ o.id \in DOMAIN plan.renames
    BY <1>1, <1>7, RenameEffect
  <2>2. o.id \in DOMAIN d /\ m \notin DOMAIN d
    BY <1>7 DEF Executable
  <2>3. /\ DOMAIN plan.renames \subseteq DOMAIN running /\ o.id \in DOMAIN running
        /\ DOMAIN plan.upserts = {} /\ plan.deletes = {} /\ plan.ruleDeletes = {}
        /\ DOMAIN Extended(running, plan) = DOMAIN running
    BY <2>1, <2>2, RenameNames
  <2> HIDE DEF new
  <2>4. other.do = "edit" \/ (other.do = "rename" /\ other.id \in DOMAIN plan.renames)
    BY <1>1, <2>3, OpsFacts
  <2>5. CASE other.do = "edit"
    <3>1. other.id \in DOMAIN Extended(running, plan)
      BY <2>5, EditKey
    <3>2. ASSUME NEW j \in DOMAIN new, IsAt(plan, other.id, j)
          PROVE  \E k \in DOMAIN d : IsAt(plan, other.id, k) /\ new[j] = d[k]
      <4>1. CASE j # m
        BY <2>1, <3>2, <4>1
      <4>2. CASE j = m
        <5>1. other.id = o.id
          BY <2>3, <3>1, <3>2, <4>2, IsAtOnce DEF IsAt
        <5> QED
          BY <2>1, <2>2, <4>2, <5>1 DEF IsAt
      <4> QED
        BY <4>1, <4>2
    <3> QED
      BY <2>5, <3>2 DEF Executed, Written, new
  <2>6. CASE other.do = "rename" /\ other.id \in DOMAIN plan.renames
    <3>1. other.id \in DOMAIN running /\ \A i \in DOMAIN plan.renames : Moved(plan.renames, i) \notin DOMAIN running
      BY <2>3, <2>6 DEF Fit, RenamesFree
    <3>2. other.id # m /\ Moved(plan.renames, other.id) # o.id
      BY <2>1, <2>3, <2>6, <3>1
    <3> QED
      BY <2>1, <2>6, <3>2 DEF Executed, new
  <2> QED
    BY <2>4, <2>5, <2>6
<1> QED
  BY <1>2, <1>4, <1>5, <1>6, <1>7

-----------------------------------------------------------------------------
(* The order of a push, as the candidate shows it.                         *)

(* The old entries have the lists they had.                                *)
Untouched(c, p, d) ==
    \A i \in DOMAIN c : \A j \in DOMAIN d :
        IsAt(p, i, j) => \A f \in Fields : d[j].fields[f] = c[i].fields[f]

Created(c, p, d) == Untouched(c, p, d) \/ DOMAIN p.upserts \subseteq DOMAIN d

(* No object has gone from where references look for it.                   *)
Intact(c, p, d) ==
    p.deletes \subseteq DOMAIN d /\ \A i \in DOMAIN p.renames \cap DOMAIN c : i \in DOMAIN d

Scrubbed(c, p, d) ==
    \A o \in Ops(c, p) : o.do = "edit" /\ o.id \in DOMAIN c => Executed(c, p, o, d)

(* Nothing goes before every list is written.                              *)
Ordered(c, p, d) ==
    Intact(c, p, d) \/ (Scrubbed(c, p, d) /\ DOMAIN p.upserts \subseteq DOMAIN d)

InOrder(c, p, d) == Between(c, p, d) /\ Created(c, p, d) /\ Ordered(c, p, d)

LEMMA EffectInOrder ==
    ASSUME IsConfig(running), Fit(running, plan), NEW d, InOrder(running, plan, d),
           NEW o \in Ops(running, plan), Executable(d, o),
           o.do # "set" => DOMAIN plan.upserts \subseteq DOMAIN d,
           o.do \in {"rule", "rename", "delete"} => Scrubbed(running, plan, d)
    PROVE  InOrder(running, plan, Effect(d, o))
<1> DEFINE new == Effect(d, o)
<1>1. /\ IsConfig(d) /\ Typed(running, plan) /\ Between(running, plan, d)
      /\ Created(running, plan, d) /\ Ordered(running, plan, d)
  BY DEF InOrder, Between, Fit
<1>2. Between(running, plan, new)
  BY <1>1, EffectBetween
<1>3. o.do \in {"set", "edit", "rule", "rename", "delete"}
  BY <1>1, OpsFacts
<1>4. Scrubbed(running, plan, d) => Scrubbed(running, plan, new)
  BY <1>1, EffectKeeps DEF Scrubbed
<1>5. CASE o.do = "set"
  <2>1. o.id \in DOMAIN plan.upserts /\ o.id \notin DOMAIN running
    BY <1>1, <1>5, OpsFacts DEF Typed
  <2>2. DOMAIN new = DOMAIN d \cup {o.id} /\ \A i \in DOMAIN d \ {o.id} : new[i] = d[i]
    BY <1>1, <1>5, SetEffect
  <2>3. \A i, j : IsAt(plan, i, j) <=> i = j
    BY <2>1 DEF Fit, RenamesFree, IsAt, Moved
  <2> HIDE DEF new
  <2>4. Untouched(running, plan, d) => Untouched(running, plan, new)
    BY <2>1, <2>2, <2>3 DEF Untouched
  <2>5. Intact(running, plan, d) => Intact(running, plan, new)
    BY <2>2 DEF Intact
  <2> QED
    BY <1>1, <1>2, <1>4, <2>2, <2>4, <2>5 DEF InOrder, Created, Ordered, new
<1>6. CASE o.do = "edit"
  <2>1. DOMAIN new = DOMAIN d
    BY <1>1, <1>6, EditEffect DEF Executable
  <2>2. Intact(running, plan, d) => Intact(running, plan, new)
    BY <2>1 DEF Intact
  <2> HIDE DEF new
  <2> QED
    BY <1>1, <1>2, <1>4, <1>6, <2>1, <2>2 DEF InOrder, Created, Ordered, new
<1>7. CASE o.do \in {"rule", "rename", "delete"}
  <2>1. DOMAIN plan.upserts \subseteq DOMAIN new
    <3> SUFFICES ASSUME NEW i \in DOMAIN plan.upserts PROVE i \in DOMAIN new
      OBVIOUS
    <3>1. o.do # "rename"
      BY <1>1, OpsFacts DEF Fit, RenamesFree
    <3>2. DOMAIN new = DOMAIN d \ {o.id} /\ o.id \in Gone(plan)
      BY <1>1, <1>7, <3>1, RemoveEffect
    <3>3. i # o.id
      BY <3>2 DEF Fit, Typed, Gone
    <3> HIDE DEF new
    <3> QED
      BY <1>7, <3>2, <3>3
  <2> HIDE DEF new
  <2> QED
    BY <1>2, <1>4, <1>7, <2>1 DEF InOrder, Created, Ordered, new
<1> QED
  BY <1>3, <1>5, <1>6, <1>7

(* A plan that was just made on a candidate equal to the configuration.    *)
LEMMA FreshPlan ==
    ASSUME NEW c, IsConfig(c), NEW p, Fit(c, p)
    PROVE  InOrder(c, p, c)
<1>1. DOMAIN Extended(c, p) = DOMAIN c \cup DOMAIN p.upserts
  BY ExtendedFacts DEF Fit
<1>2. \A i \in DOMAIN c : Extended(c, p)[i] = c[i]
  BY ExtendedFacts DEF Fit
<1>3. ASSUME NEW i \in DOMAIN Extended(c, p), NEW j \in DOMAIN c, IsAt(p, i, j)
      PROVE  i = j
  BY <1>1, <1>3, IsAtOnce DEF IsAt
<1>4. \A i \in DOMAIN p.renames : Moved(p.renames, i) \notin DOMAIN c
  BY DEF Fit, RenamesFree
<1>5. \A i \in DOMAIN Extended(c, p) : \A j \in DOMAIN c : IsAt(p, i, j) => Holds(c, p, i, c[j])
  BY <1>2, <1>3 DEF Holds
<1>6. Between(c, p, c)
  BY <1>1, <1>4, <1>5 DEF Between, IsAt
<1>7. Untouched(c, p, c)
  BY <1>1, <1>3 DEF Untouched
<1>8. Intact(c, p, c)
  BY DEF Intact, Fit
<1> QED
  BY <1>6, <1>7, <1>8 DEF InOrder, Created, Ordered

-----------------------------------------------------------------------------
(* The inductive invariant.  On a candidate that was clean when the        *)
(* command was given, it lies between the configuration and the plan, the  *)
(* lists are written before an object goes, and what was sent is there.    *)
Followed == Clean /\ Covered(running, intent)

PlanKept ==
    state # "idle" => /\ intent \in Intents
                      /\ plan = PlanFor(running, intent)
                      /\ ~Refused(running, plan)

SentOrder ==
    \A o \in todo : \A other \in Ops(running, plan) \ todo :
        Rank(running, other) <= Rank(running, o)

OnTheWay == (Followed /\ state # "idle") => InOrder(running, plan, candidate)

SentIsThere ==
    (Followed /\ state \in {"pushing", "pushed"}) =>
        \A o \in Ops(running, plan) \ todo : Executed(running, plan, o, candidate)

IInv == TypeOK /\ PlanKept /\ SentOrder /\ OnTheWay /\ SentIsThere

LEMMA PlanFit ==
    ASSUME IInv, state # "idle"
    PROVE  /\ IsConfig(running) /\ IsConfig(candidate) /\ Typed(running, plan)
           /\ Covered(running, intent) =>
                Fit(running, plan) /\ Strands(running, plan, Added(intent))
<1>1. IsConfig(running) /\ IsConfig(candidate)
  BY DEF IInv, TypeOK
<1>2. Planned(running, intent, plan)
  BY <1>1, PlanCarried DEF IInv, PlanKept
<1> QED
  BY <1>1, <1>2 DEF Planned, Carried

(* One operation, executed by the manager.                                 *)
LEMMA SendStep ==
    ASSUME IInv, state = "pushing", NEW o \in Sendable, Executable(candidate, o)
    PROVE  /\ IsConfig(Effect(candidate, o))
           /\ Followed =>
                /\ InOrder(running, plan, Effect(candidate, o))
                /\ \A other \in Ops(running, plan) \ (todo \ {o}) :
                      Executed(running, plan, other, Effect(candidate, o))
<1> DEFINE new == Effect(candidate, o)
<1>1. /\ o \in todo /\ o \in Ops(running, plan)
      /\ \A other \in todo : Rank(running, o) <= Rank(running, other)
  BY DEF IInv, TypeOK, Sendable
<1>2. /\ IsConfig(running) /\ IsConfig(candidate) /\ Typed(running, plan)
      /\ Covered(running, intent) => Fit(running, plan)
  BY PlanFit
<1>3. IsConfig(new)
  <2>1. CASE o.do = "set"
    BY <1>1, <1>2, <2>1, SetEffect
  <2>2. CASE o.do = "edit"
    BY <1>1, <1>2, <2>2, EditEffect DEF Executable
  <2>3. CASE o.do \in {"rule", "delete"}
    BY <1>1, <1>2, <2>3, RemoveEffect
  <2>4. CASE o.do = "rename"
    BY <1>1, <1>2, <2>4, RenameEffect
  <2> QED
    BY <1>1, <1>2, <2>1, <2>2, <2>3, <2>4, OpsFacts
<1> HIDE DEF new
<1>4. ASSUME Followed
      PROVE  /\ InOrder(running, plan, new)
             /\ \A other \in Ops(running, plan) \ (todo \ {o}) : Executed(running, plan, other, new)
  <2>1. InOrder(running, plan, candidate) /\ Between(running, plan, candidate) /\ Fit(running, plan)
    BY <1>2, <1>4 DEF IInv, OnTheWay, Followed, InOrder
  <2>2. \A other \in Ops(running, plan) \ todo : Executed(running, plan, other, candidate)
    BY <1>4 DEF IInv, SentIsThere
  <2>3. Executed(running, plan, o, new)
    BY <1>1, <1>2, <2>1, EffectBetween DEF new
  <2>4. ASSUME NEW other \in Ops(running, plan) \ todo PROVE Executed(running, plan, other, new)
    <3>1. Rank(running, other) <= Rank(running, o)
      BY <1>1 DEF IInv, SentOrder
    <3> QED
      BY <1>1, <1>2, <2>1, <2>2, <3>1, EffectKeeps DEF new
  <2>5. ASSUME NEW other \in Ops(running, plan), Rank(running, other) < Rank(running, o)
        PROVE  Executed(running, plan, other, candidate)
    <3>1. Rank(running, other) \in Nat /\ Rank(running, o) \in Nat
      BY <1>1, <1>2, RankValues
    <3>2. other \notin todo
      BY <1>1, <2>5, <3>1
    <3> QED
      BY <2>2, <3>2
  <2>6. o.do # "set" => DOMAIN plan.upserts \subseteq DOMAIN candidate
    <3> SUFFICES ASSUME o.do # "set", NEW i \in DOMAIN plan.upserts PROVE i \in DOMAIN candidate
      OBVIOUS
    <3> DEFINE other == Op("set", i, "static")
    <3>1. other \in Ops(running, plan)
      BY DEF Ops
    <3>2. other.do = "set" /\ other.id = i
      BY DEF Op
    <3> HIDE DEF other
    <3>3. Rank(running, other) = 1 /\ Rank(running, o) >= 2 /\ Rank(running, o) \in Nat
      <4>1. Rank(running, other) = 1
        BY <1>2, <3>1, <3>2, RankValues
      <4>2. o.do \in {"set", "edit", "rule", "rename", "delete"}
        BY <1>1, <1>2, OpsFacts
      <4>3. Rank(running, o) >= 2 /\ Rank(running, o) \in Nat
        BY <1>1, <1>2, <4>2, RankValues
      <4> QED
        BY <4>1, <4>3
    <3>4. Executed(running, plan, other, candidate)
      BY <2>5, <3>1, <3>3
    <3> QED
      BY <3>2, <3>4 DEF Executed
  <2>7. o.do \in {"rule", "rename", "delete"} => Scrubbed(running, plan, candidate)
    <3> SUFFICES ASSUME o.do \in {"rule", "rename", "delete"},
                        NEW other \in Ops(running, plan), other.do = "edit"
                 PROVE  Executed(running, plan, other, candidate)
      BY DEF Scrubbed
    <3>1. Rank(running, other) = 2 /\ Rank(running, o) >= 3 /\ Rank(running, o) \in Nat
      BY <1>1, <1>2, RankValues
    <3> QED
      BY <2>5, <3>1
  <2>8. InOrder(running, plan, new)
    BY <1>1, <1>2, <2>1, <2>6, <2>7, EffectInOrder DEF new
  <2> QED
    BY <2>3, <2>4, <2>8
<1> QED
  BY <1>3, <1>4 DEF new

LEMMA InitIInv == Init => IInv
<1> SUFFICES ASSUME Init PROVE IInv
  OBVIOUS
<1>1. IsConfig(running) /\ Ops(running, plan) = {} /\ attempts \in 0..MaxAttempts
  BY RunningsAssumption, AttemptsAssumption DEF Init, Ops, EmptyPlan
<1> QED
  BY <1>1 DEF Init, IInv, TypeOK, PlanKept, SentOrder, OnTheWay, SentIsThere

LEMMA StartIInv ==
    ASSUME IInv, NEW x \in Intents, Start(x), state # "pushing",
           \/ base' = candidate
           \/ base' = base /\ state # "idle" /\ x = intent
    PROVE  IInv'
<1>1. /\ running' = running /\ candidate' = candidate /\ intent' = x /\ state' = "pushing"
      /\ plan' = PlanFor(running, x) /\ todo' = Ops(running, plan')
      /\ attempts' = attempts + 1 /\ attempts < MaxAttempts /\ ~Refused(running, plan')
  BY DEF Start
<1>2. IsConfig(running) /\ IsConfig(candidate) /\ attempts \in 0..MaxAttempts
  BY DEF IInv, TypeOK
<1>3. TypeOK'
  BY <1>1, <1>2, AttemptsAssumption DEF TypeOK
<1>4. PlanKept'
  BY <1>1 DEF PlanKept
<1>5. Covered(running, x) => Fit(running, plan')
  <2>1. Planned(running, x, plan')
    BY <1>1, <1>2, PlanCarried
  <2> QED
    BY <2>1 DEF Planned, Carried
<1>6. OnTheWay'
  <2> SUFFICES ASSUME Followed' PROVE InOrder(running, plan', candidate)
    BY <1>1 DEF OnTheWay
  <2>1. Fit(running, plan') /\ base' = running /\ Covered(running, x)
    BY <1>1, <1>5 DEF Followed, Clean, Covered
  <2>2. CASE base' = candidate
    BY <1>2, <2>1, <2>2, FreshPlan
  <2>3. CASE base' = base /\ state # "idle" /\ x = intent
    <3>1. plan' = plan /\ Followed
      BY <1>1, <2>1, <2>3 DEF IInv, PlanKept, Clean, Followed
    <3> QED
      BY <2>3, <3>1 DEF IInv, OnTheWay
  <2> QED
    BY <2>2, <2>3
<1>7. SentIsThere' /\ SentOrder'
  <2>1. Ops(running', plan') \ todo' = {}
    BY <1>1
  <2> QED
    BY <2>1 DEF SentIsThere, SentOrder
<1> QED
  BY <1>3, <1>4, <1>6, <1>7 DEF IInv

LEMMA SettleIInv == ASSUME IInv, NEW c, IsConfig(c), Settle(c) PROVE IInv'
<1>1. /\ IsConfig(running') /\ IsConfig(candidate') /\ todo' = {} /\ state' = "idle"
      /\ intent' = intent /\ attempts' = attempts
  BY DEF Settle, IInv, TypeOK
<1>2. TypeOK'
  BY <1>1 DEF IInv, TypeOK
<1> QED
  BY <1>1, <1>2 DEF IInv, PlanKept, SentOrder, OnTheWay, SentIsThere

LEMMA NextIInv == IInv /\ [Next]_vars => IInv'
<1> SUFFICES ASSUME IInv, [Next]_vars PROVE IInv'
  OBVIOUS
<1>1. ASSUME NEW x \in Intents, Push(x) PROVE IInv'
  BY <1>1, StartIInv DEF Push
<1>2. CASE Retry
  BY <1>2, StartIInv DEF Retry, IInv, PlanKept
<1>3. CASE Send
  <2>1. PICK o \in Sendable : /\ Executable(candidate, o)
                              /\ candidate' = Effect(candidate, o)
                              /\ todo' = todo \ {o}
    BY <1>3 DEF Send
  <2>2. state = "pushing" /\ UNCHANGED <<running, intent, plan, state, base, attempts>>
    BY <1>3 DEF Send
  <2>3. /\ IsConfig(candidate')
        /\ Followed => /\ InOrder(running, plan, candidate')
                       /\ \A other \in Ops(running, plan) \ todo' :
                             Executed(running, plan, other, candidate')
    BY <2>1, <2>2, SendStep
  <2>4. TypeOK'
    BY <2>1, <2>2, <2>3 DEF IInv, TypeOK
  <2>5. PlanKept'
    BY <2>2 DEF IInv, PlanKept
  <2>6. SentOrder'
    <3>1. \A e : Rank(running, e)' = Rank(running, e)
      BY <2>2 DEF Rank
    <3>2. \A e \in todo \ {o} : \A other \in Ops(running, plan) \ (todo \ {o}) :
              Rank(running, other) <= Rank(running, e)
      BY <2>1 DEF IInv, SentOrder, Sendable
    <3> QED
      BY <2>1, <2>2, <3>1, <3>2 DEF SentOrder
  <2>7. Followed' = Followed
    BY <2>2 DEF Followed, Clean
  <2>8. OnTheWay' /\ SentIsThere'
    BY <2>2, <2>3, <2>7 DEF OnTheWay, SentIsThere
  <2> QED
    BY <2>4, <2>5, <2>6, <2>8 DEF IInv
<1>4. CASE Fail
  <2>1. PICK o \in Sendable : \/ candidate' = candidate
                              \/ Executable(candidate, o) /\ candidate' = Effect(candidate, o)
    BY <1>4 DEF Fail
  <2>2. /\ state = "pushing" /\ state' = "failed" /\ todo' = {}
        /\ UNCHANGED <<running, intent, plan, base, attempts>>
    BY <1>4 DEF Fail
  <2>3. IsConfig(candidate') /\ (Followed => InOrder(running, plan, candidate'))
    <3>1. CASE candidate' = candidate
      BY <2>2, <3>1 DEF IInv, TypeOK, OnTheWay
    <3>2. CASE Executable(candidate, o) /\ candidate' = Effect(candidate, o)
      BY <2>2, <3>2, SendStep
    <3> QED
      BY <2>1, <3>1, <3>2
  <2>4. TypeOK'
    BY <2>2, <2>3 DEF IInv, TypeOK
  <2>5. PlanKept' /\ SentOrder'
    BY <2>2 DEF IInv, PlanKept, SentOrder
  <2>6. Followed' = Followed
    BY <2>2 DEF Followed, Clean
  <2>7. OnTheWay' /\ SentIsThere'
    BY <2>2, <2>3, <2>6 DEF OnTheWay, SentIsThere
  <2> QED
    BY <2>4, <2>5, <2>7 DEF IInv
<1>5. CASE Done
  <2>1. /\ state = "pushing" /\ todo = {} /\ state' = "pushed"
        /\ UNCHANGED <<running, candidate, intent, plan, todo, base, attempts>>
    BY <1>5 DEF Done
  <2>2. Followed' = Followed
    BY <2>1 DEF Followed, Clean
  <2> QED
    BY <2>1, <2>2 DEF IInv, TypeOK, PlanKept, SentOrder, OnTheWay, SentIsThere
<1>6. CASE Commit
  BY <1>6, SettleIInv, ReadBackShape DEF Commit, IInv, TypeOK
<1>7. CASE Revert
  BY <1>7, SettleIInv DEF Revert, IInv, TypeOK
<1>8. CASE UNCHANGED vars
  <2>1. Followed' = Followed
    BY <1>8 DEF vars, Followed, Clean
  <2> QED
    BY <1>8, <2>1 DEF vars, IInv, TypeOK, PlanKept, SentOrder, Rank, OnTheWay, SentIsThere
<1> QED
  BY <1>1, <1>2, <1>3, <1>4, <1>5, <1>6, <1>7, <1>8 DEF Next

LEMMA PushInvariant == Spec => []IInv
BY InitIInv, NextIInv, PTL DEF Spec

(* Type correctness.                                                       *)
THEOREM PushTypes == Spec => []TypeOK
BY PushInvariant, PTL DEF IInv

-----------------------------------------------------------------------------
(* What a push leaves.                                                     *)

(* An entry of the candidate has one identity in the configuration.        *)
LEMMA OriginFacts ==
    ASSUME NEW c, IsConfig(c), NEW p, Fit(c, p), NEW d, Between(c, p, d), NEW j \in DOMAIN d
    PROVE  /\ Origin(p.renames, j) \in DOMAIN Extended(c, p)
           /\ IsAt(p, Origin(p.renames, j), j)
<1>1. PICK i \in DOMAIN Extended(c, p) : IsAt(p, i, j)
  BY DEF Between
<1>2. CASE \E x \in DOMAIN p.renames : Moved(p.renames, x) = j
  <2> DEFINE o == Origin(p.renames, j)
  <2>1. o \in DOMAIN p.renames /\ Moved(p.renames, o) = j
    BY <1>2 DEF Origin
  <2> HIDE DEF o
  <2>2. CASE DOMAIN p.renames \subseteq DOMAIN c
    <3>1. DOMAIN Extended(c, p) = DOMAIN c \cup DOMAIN p.upserts
      BY ExtendedFacts DEF Fit
    <3> QED
      BY <2>1, <2>2, <3>1 DEF IsAt, o
  <2>3. CASE DOMAIN p.renames \cap DOMAIN c = {}
    <3>1. DOMAIN Extended(c, p) = DOMAIN c \cup DOMAIN p.upserts
      BY ExtendedFacts DEF Fit
    <3>2. DOMAIN p.upserts = {} /\ j \notin DOMAIN c
      BY <2>1 DEF Fit, RenamesFree
    <3>3. Moved(p.renames, i) = i
      BY <1>1, <2>3, <3>1, <3>2 DEF Moved
    <3> QED
      BY <1>1, <3>1, <3>2, <3>3 DEF IsAt
  <2> QED
    BY <2>2, <2>3 DEF Fit, RenamesFree
<1>3. CASE ~\E x \in DOMAIN p.renames : Moved(p.renames, x) = j
  <2>1. Origin(p.renames, j) = j
    BY <1>3 DEF Origin
  <2>2. i = j
    BY <1>1, <1>3 DEF IsAt, Moved
  <2> QED
    BY <1>1, <2>1, <2>2
<1> QED
  BY <1>2, <1>3

(* The edits of an entry were executed: its lists are the new ones.        *)
LEMMA ExecutedList ==
    ASSUME NEW c, IsConfig(c), NEW p, Fit(c, p), NEW d, Between(c, p, d),
           NEW i \in DOMAIN Extended(c, p), NEW j \in DOMAIN d, IsAt(p, i, j), NEW f \in Fields,
           \A o \in Ops(c, p) : o.do = "edit" /\ o.id = i => Executed(c, p, o, d)
    PROVE  d[j].fields[f] = NewList(Extended(c, p), p.edits, i, f)
<1>1. Holds(c, p, i, d[j])
  BY DEF Between
<1>2. CASE Writers(Extended(c, p), p.edits, i, f) = {}
  <2>1. NewList(Extended(c, p), p.edits, i, f) = Extended(c, p)[i].fields[f]
    BY <1>2 DEF NewList
  <2>2. \/ d[j].fields[f] = Extended(c, p)[i].fields[f]
        \/ d[j].fields[f] = NewList(Extended(c, p), p.edits, i, f)
        \/ d[j].fields[f] = Extended(c, p)[i].fields[f] \cup NewList(Extended(c, p), p.edits, i, f)
    BY <1>1 DEF Holds
  <2> QED
    BY <2>1, <2>2
<1>3. CASE Writers(Extended(c, p), p.edits, i, f) # {}
  <2>1. PICK k \in DOMAIN p.edits :
            /\ k[1] = i /\ Mappable(Extended(c, p)[i].kind, k[2])
            /\ Leaf(Extended(c, p)[i].kind, k[2]) = f
    BY <1>3 DEF Writers
  <2>2. KindOf(c, p, i) = Extended(c, p)[i].kind
    BY KindFacts DEF Fit
  <2> DEFINE o == Op("edit", k[1], k[2])
  <2>3. o \in Ops(c, p)
    BY <2>1, <2>2 DEF Ops
  <2>4. o.do = "edit" /\ o.id = i /\ o.field = k[2]
    BY <2>1 DEF Op
  <2> HIDE DEF o
  <2>5. NewList(Extended(c, p), p.edits, i, f) = p.edits[<<o.id, o.field>>]
    BY <2>1, <2>2, <2>3, <2>4, EditKey
  <2>6. d[j].fields[f] = p.edits[<<o.id, o.field>>]
    BY <2>1, <2>2, <2>3, <2>4 DEF Executed, Written
  <2> QED
    BY <2>5, <2>6
<1> QED
  BY <1>2, <1>3

(* An entry that a rename or a deletion takes is not where it was.         *)
LEMMA ExecutedAll ==
    ASSUME NEW c, IsConfig(c), NEW p, Fit(c, p), NEW d,
           \A o \in Ops(c, p) : Executed(c, p, o, d)
    PROVE  /\ DOMAIN p.upserts \subseteq DOMAIN d
           /\ \A i \in Gone(p) : i \notin DOMAIN d
           /\ \A i \in DOMAIN p.renames : i \notin DOMAIN d
<1>1. ASSUME NEW i \in DOMAIN p.upserts PROVE i \in DOMAIN d
  <2>1. Op("set", i, "static") \in Ops(c, p)
    BY DEF Ops
  <2> QED
    BY <2>1 DEF Executed, Op
<1>2. ASSUME NEW i \in p.ruleDeletes PROVE i \notin DOMAIN d
  <2>1. Op("rule", i, "static") \in Ops(c, p)
    BY DEF Ops
  <2> QED
    BY <2>1 DEF Executed, Op
<1>3. ASSUME NEW i \in p.deletes PROVE i \notin DOMAIN d
  <2>1. Op("delete", i, "static") \in Ops(c, p)
    BY DEF Ops
  <2> QED
    BY <2>1 DEF Executed, Op
<1>4. ASSUME NEW i \in DOMAIN p.renames PROVE i \notin DOMAIN d
  <2>1. Op("rename", i, "static") \in Ops(c, p)
    BY DEF Ops
  <2> QED
    BY <2>1 DEF Executed, Op
<1> QED
  BY <1>1, <1>2, <1>3, <1>4 DEF Gone

(* A push that ran to its end, after any number of failed ones, leaves     *)
(* what the offline executor leaves.  (Where references are repointed,     *)
(* groups with tags of their own are set apart: an edit of such a tag      *)
(* writes the member list, and so may two edits write one list.)           *)
THEOREM PushedTheorem == Spec => [](Covered(running, intent) => PushedIsPlan)
<1>1. IInv => (Covered(running, intent) => PushedIsPlan)
  <2> SUFFICES ASSUME IInv, Covered(running, intent), Clean, state = "pushed"
               PROVE  ReadBack(candidate) = Apply(running, plan)
    BY DEF PushedIsPlan
  <2>1. IsConfig(running) /\ Fit(running, plan)
    BY PlanFit
  <2>2. Between(running, plan, candidate)
    BY DEF IInv, OnTheWay, Followed, InOrder
  <2>3. \A o \in Ops(running, plan) : Executed(running, plan, o, candidate)
    BY DEF IInv, TypeOK, SentIsThere, Followed
  <2>4. PICK w : Outcome(running, plan, w) /\ Apply(running, plan) = ReadBack(w)
    BY <2>1, OutcomeFacts
  <2> DEFINE u == Extended(running, plan)
  <2>5. DOMAIN u = DOMAIN running \cup DOMAIN plan.upserts
    BY <2>1, ExtendedFacts DEF Fit
  <2>6. /\ DOMAIN plan.upserts \subseteq DOMAIN candidate
        /\ \A i \in Gone(plan) : i \notin DOMAIN candidate
        /\ \A i \in DOMAIN plan.renames : i \notin DOMAIN candidate
    BY <2>1, <2>3, ExecutedAll
  <2> HIDE DEF u
  <2>7. ASSUME NEW j \in DOMAIN candidate
        PROVE  \E i \in DOMAIN u \ Gone(plan) : j = Moved(plan.renames, i)
    <3>1. PICK i \in DOMAIN u : IsAt(plan, i, j)
      BY <2>2 DEF Between, u
    <3>2. j = Moved(plan.renames, i)
      BY <2>6, <3>1 DEF IsAt, Moved
    <3>3. i \notin Gone(plan)
      BY <2>1, <2>6, <3>1 DEF IsAt, Moved, Fit, RenamesFree, Gone
    <3> QED
      BY <3>2, <3>3
  <2>8. ASSUME NEW i \in DOMAIN u \ Gone(plan) PROVE Moved(plan.renames, i) \in DOMAIN candidate
    <3>1. CASE i \in DOMAIN running
      <4>1. i \in DOMAIN candidate \/ Moved(plan.renames, i) \in DOMAIN candidate
        BY <2>2, <3>1 DEF Between
      <4> QED
        BY <2>6, <4>1 DEF Moved
    <3>2. CASE i \in DOMAIN plan.upserts
      BY <2>1, <2>6, <3>2 DEF Moved, Fit, RenamesFree
    <3> QED
      BY <2>5, <3>1, <3>2
  <2>9. DOMAIN candidate = DOMAIN w
    BY <2>4, <2>7, <2>8 DEF Outcome, u
  <2>10. ASSUME NEW j \in DOMAIN candidate
         PROVE  /\ candidate[j].kind = w[j].kind /\ candidate[j].value = w[j].value
                /\ \A f \in Fields : candidate[j].fields[f] = w[j].fields[f]
    <3>1. PICK i \in DOMAIN u \ Gone(plan) : j = Moved(plan.renames, i)
      BY <2>7
    <3>2. Holds(running, plan, i, candidate[j])
      BY <2>2, <3>1 DEF Between, IsAt, u
    <3>3. /\ w[j].kind = u[i].kind /\ w[j].value = u[i].value
          /\ \A f \in Fields : w[j].fields[f] = NewList(u, plan.edits, i, f)
      BY <2>4, <3>1 DEF Outcome, u
    <3>4. \A f \in Fields : candidate[j].fields[f] = NewList(u, plan.edits, i, f)
      BY <2>1, <2>2, <2>3, <3>1, ExecutedList DEF IsAt, u
    <3> QED
      BY <3>2, <3>3, <3>4 DEF Holds, u
  <2>11. candidate = w
    BY <2>2, <2>4, <2>9, <2>10, SameConfig DEF Between, Outcome
  <2> QED
    BY <2>4, <2>11
<1> QED
  BY <1>1, PushInvariant, PTL

(* An entry on its way, and the entry the executor leaves in its place.    *)
LEMMA OutcomeOf ==
    ASSUME NEW c, IsConfig(c), NEW p, Fit(c, p), NEW w, Outcome(c, p, w),
           NEW i \in DOMAIN Extended(c, p), Moved(p.renames, i) \in DOMAIN w
    PROVE  /\ i \notin Gone(p)
           /\ w[Moved(p.renames, i)].kind = Extended(c, p)[i].kind
           /\ \A f \in Fields :
                w[Moved(p.renames, i)].fields[f] = NewList(Extended(c, p), p.edits, i, f)
<1>1. PICK x \in DOMAIN Extended(c, p) \ Gone(p) : Moved(p.renames, i) = Moved(p.renames, x)
  BY DEF Outcome
<1>2. x = i
  BY <1>1, MovedOnce
<1> QED
  BY <1>1, <1>2 DEF Outcome

(* A list as the next parse reads it.                                      *)
Read(kind, f, list) == IF f \in AnyFields(kind) /\ list = {} THEN {AnyName} ELSE list

LEMMA ReadFacts ==
    ASSUME NEW c, IsConfig(c), NEW i \in DOMAIN c, NEW f \in Fields
    PROVE  /\ i \in DOMAIN ReadBack(c)
           /\ ReadBack(c)[i].kind = c[i].kind
           /\ ReadBack(c)[i].fields[f] = Read(c[i].kind, f, c[i].fields[f])
BY ReadBackShape DEF Read

LEMMA ReadGrows == \A kind, f, list : list \subseteq Read(kind, f, list)
BY DEF Read

(* Wherever a push stands, it wrote nothing the plan does not say.  (The   *)
(* same groups are set apart.)                                             *)
THEOREM UnplannedTheorem == Spec => [](Covered(running, intent) => NothingUnplanned)
<1>1. IInv => (Covered(running, intent) => NothingUnplanned)
  <2> SUFFICES ASSUME IInv, Covered(running, intent), Clean, state # "idle"
               PROVE  NothingUnplanned
    BY DEF NothingUnplanned
  <2> DEFINE u == Extended(running, plan)
             planned == Apply(running, plan)
             old == ReadBack(running)
             seen == ReadBack(candidate)
  <2>1. IsConfig(running) /\ Fit(running, plan)
    BY PlanFit
  <2>2. Between(running, plan, candidate) /\ IsConfig(candidate)
    BY DEF IInv, OnTheWay, Followed, InOrder, Between
  <2>3. PICK w : Outcome(running, plan, w) /\ planned = ReadBack(w)
    BY <2>1, OutcomeFacts
  <2>4. IsConfig(w) /\ DOMAIN planned = DOMAIN w
    BY <2>3, ReadBackShape DEF Outcome
  <2>5. DOMAIN u = DOMAIN running \cup DOMAIN plan.upserts
    BY <2>1, ExtendedFacts DEF Fit
  <2>6. \A i \in DOMAIN running : u[i] = running[i]
    BY <2>1, ExtendedFacts DEF Fit
  <2>7. \A i \in DOMAIN plan.upserts : u[i] = plan.upserts[i]
    BY <2>1, CreatedShape DEF Extended, Fit, Typed
  <2> HIDE DEF u, planned, old, seen
  <2>8. ASSUME NEW i \in Survivors PROVE Kept(i) /\ ~TwiceThere(i)
    <3>1. Kept(i)
      BY <2>2, <2>8 DEF Survivors, Between, Kept, Gone
    <3>2. ~TwiceThere(i)
      BY <2>2 DEF Between, TwiceThere, Moved
    <3> QED
      BY <3>1, <3>2
  <2>9. ASSUME NEW j \in DOMAIN candidate PROVE j \in DOMAIN running \cup DOMAIN planned
    <3>1. PICK i \in DOMAIN u : IsAt(plan, i, j)
      BY <2>2 DEF Between, u
    <3>2. CASE i \in DOMAIN plan.upserts
      <4>1. j = i /\ j = Moved(plan.renames, i) /\ i \notin Gone(plan)
        BY <2>1, <3>1, <3>2 DEF IsAt, Moved, Fit, Typed, RenamesFree, Gone
      <4> QED
        BY <2>3, <2>4, <3>1, <4>1 DEF Outcome, u
    <3>3. CASE i \in DOMAIN running /\ j # i
      <4>1. j = Moved(plan.renames, i) /\ Gone(plan) = {}
        BY <2>1, <3>1, <3>3 DEF IsAt, Moved, Fit, RenamesFree, Gone
      <4> QED
        BY <2>3, <2>4, <3>1, <4>1 DEF Outcome, u
    <3> QED
      BY <2>5, <3>1, <3>2, <3>3
  <2>10. ASSUME NEW j \in DOMAIN candidate, NEW f \in Fields, NEW i, NEW k,
                i = Origin(plan.renames, j), k = Moved(plan.renames, i), k \in DOMAIN planned
         PROVE  IF i \in DOMAIN running
                THEN seen[j].fields[f] \in {old[i].fields[f], planned[k].fields[f]}
                ELSE candidate[j].fields[f]
                        \subseteq plan.upserts[j].fields[f] \cup planned[k].fields[f]
    <3>1. i \in DOMAIN u /\ IsAt(plan, i, j)
      BY <2>1, <2>2, <2>10, OriginFacts DEF u
    <3>2. k \in DOMAIN w
      BY <2>4, <2>10
    <3>3. w[k].kind = u[i].kind /\ w[k].fields[f] = NewList(u, plan.edits, i, f)
      BY <2>1, <2>3, <2>10, <3>1, <3>2, OutcomeOf DEF u
    <3>4. planned[k].fields[f] = Read(u[i].kind, f, NewList(u, plan.edits, i, f))
      BY <2>3, <2>4, <3>2, <3>3, ReadFacts
    <3>5. Holds(running, plan, i, candidate[j])
      BY <2>2, <3>1 DEF Between, u
    <3>6. CASE i \in DOMAIN running
      <4>1. candidate[j].kind = running[i].kind
        BY <2>6, <3>5, <3>6 DEF Holds, u
      <4>2. \/ candidate[j].fields[f] = running[i].fields[f]
            \/ candidate[j].fields[f] = NewList(u, plan.edits, i, f)
        BY <2>6, <3>5, <3>6 DEF Holds, u
      <4>3. seen[j].fields[f] = Read(running[i].kind, f, candidate[j].fields[f])
        BY <2>2, <4>1, ReadFacts DEF seen
      <4>4. old[i].fields[f] = Read(running[i].kind, f, running[i].fields[f])
        BY <2>1, <3>6, ReadFacts DEF old
      <4>5. u[i].kind = running[i].kind
        BY <2>6, <3>6
      <4> QED
        BY <3>4, <3>6, <4>2, <4>3, <4>4, <4>5
    <3>7. CASE i \notin DOMAIN running
      <4>1. i \in DOMAIN plan.upserts
        BY <2>5, <3>1, <3>7
      <4>2. j = i
        BY <2>1, <3>1, <4>1 DEF IsAt, Moved, Fit, RenamesFree
      <4>3. u[i].fields[f] = plan.upserts[j].fields[f]
        BY <2>7, <4>1, <4>2
      <4>4. candidate[j].fields[f] \subseteq u[i].fields[f] \cup NewList(u, plan.edits, i, f)
        <5>1. \/ candidate[j].fields[f] = u[i].fields[f]
              \/ candidate[j].fields[f] = NewList(u, plan.edits, i, f)
              \/ candidate[j].fields[f] = u[i].fields[f] \cup NewList(u, plan.edits, i, f)
          BY <3>5 DEF Holds, u
        <5> QED
          BY <5>1
      <4>5. NewList(u, plan.edits, i, f) \subseteq planned[k].fields[f]
        BY <3>4, ReadGrows
      <4> QED
        BY <3>7, <4>3, <4>4, <4>5
    <3> QED
      BY <3>6, <3>7
  <2> QED
    BY <2>8, <2>9, <2>10 DEF NothingUnplanned, planned, old, seen
<1> QED
  BY <1>1, PushInvariant, PTL

(* A name that an object slot answers for is not lost with a rule.         *)
LEMMA NotLostWithRules ==
    ASSUME NEW c, NEW live, \A i \in DOMAIN c : i.space \in ObjectSpaces => i \in live,
           NEW r, r.by.loc \in Locs, r.name \in Names, NsOf(r.field) \in ObjectSpaces,
           Target(live, r) = Nil
    PROVE  Target(DOMAIN c, r) = Nil
<1>1. NsOf(r.field) \in Spaces
  BY DEF Spaces
<1>2. \A i \in DOMAIN Chain[r.by.loc] : Slot(NsOf(r.field), r.name, Chain[r.by.loc][i]) \notin live
  BY <1>1, ResolveProperties DEF Target
<1>3. \A i \in DOMAIN Chain[r.by.loc] : Slot(NsOf(r.field), r.name, Chain[r.by.loc][i]) \notin DOMAIN c
  BY <1>2 DEF Slot
<1>4. Resolve(DOMAIN c, NsOf(r.field), r.name, r.by.loc) = Nil
  <2> DEFINE known == DOMAIN c
  <2>1. \A i \in DOMAIN Chain[r.by.loc] : Slot(NsOf(r.field), r.name, Chain[r.by.loc][i]) \notin known
    BY <1>3
  <2> HIDE DEF known
  <2>2. Resolve(known, NsOf(r.field), r.name, r.by.loc) = Nil
    BY <1>1, <2>1, ResolveProperties
  <2> QED
    BY <2>2 DEF known
<1> QED
  BY <1>4 DEF Target

(* Where no object has gone, a reference by an old list dangled before.    *)
LEMMA IntactRefs ==
    ASSUME NEW c, IsConfig(c), NEW p, Fit(c, p), NEW d, Between(c, p, d), Intact(c, p, d),
           NEW r \in Unresolved(d), NEW i \in DOMAIN c, IsAt(p, i, r.by),
           d[r.by].fields[r.field] = c[i].fields[r.field]
    PROVE  RefTo(i, r.field, r.name) \in Unresolved(c)
<1> DEFINE q == RefTo(i, r.field, r.name)
<1>1. r \in Refs(d) /\ Target(DOMAIN d, r) = Nil
  BY DEF Unresolved
<1>2. /\ r.by \in DOMAIN d /\ r.by.loc \in Locs /\ r.field \in Fields /\ r.name \in Names
      /\ r.field \in Walked(d[r.by].kind) /\ r.name \in d[r.by].fields[r.field]
      /\ NsOf(r.field) \in ObjectSpaces
  BY <1>1, RefsType DEF Between
<1>3. DOMAIN Extended(c, p) = DOMAIN c \cup DOMAIN p.upserts
  BY ExtendedFacts DEF Fit
<1>4. Extended(c, p)[i] = c[i]
  BY ExtendedFacts DEF Fit
<1>5. d[r.by].kind = c[i].kind
  BY <1>2, <1>3, <1>4 DEF Between, Holds
<1>6. q.by = i /\ q.field = r.field /\ q.name = r.name /\ q \in [by : DOMAIN c, field : Fields, name : Names]
  BY <1>2 DEF RefTo
<1>7. r.by.loc = i.loc
  BY DEF IsAt, Moved, Slot
<1> HIDE DEF q
<1>8. q \in Refs(c)
  BY <1>2, <1>5, <1>6, RefsMembership
<1>9. Target(DOMAIN d, q) = Nil
  BY <1>1, <1>6, <1>7 DEF Target
<1>10. \A x \in DOMAIN c : x.space \in ObjectSpaces => x \in DOMAIN d
  <2> SUFFICES ASSUME NEW x \in DOMAIN c, x.space \in ObjectSpaces, x \notin DOMAIN d PROVE FALSE
    OBVIOUS
  <2>1. x \notin p.ruleDeletes
    BY DEF Fit, RuleSpaces, ObjectSpaces
  <2>2. x \notin p.deletes /\ x \notin DOMAIN p.renames
    BY DEF Intact
  <2>3. Moved(p.renames, x) = x
    BY <2>2 DEF Moved
  <2> QED
    BY <2>1, <2>2, <2>3 DEF Between, Gone
<1>11. Target(DOMAIN c, q) = Nil
  BY <1>2, <1>6, <1>7, <1>9, <1>10, NotLostWithRules
<1> QED
  BY <1>8, <1>11 DEF Unresolved, q

(* A reference by a new list dangles when the plan is carried out, or      *)
(* waits for the object it names to be renamed.                            *)
LEMMA RepointedRefs ==
    ASSUME NEW c, IsConfig(c), NEW p, Fit(c, p), NEW d, Between(c, p, d),
           DOMAIN p.upserts \subseteq DOMAIN d,
           NEW r \in Unresolved(d), NEW i \in DOMAIN c \ Gone(p), IsAt(p, i, r.by),
           d[r.by].fields[r.field] = NewList(Extended(c, p), p.edits, i, r.field)
    PROVE  \/ RefTo(Moved(p.renames, i), r.field, r.name) \in Unresolved(Apply(c, p))
           \/ \E x \in DOMAIN p.renames \cap DOMAIN d :
                r.name = p.renames[x] /\ NsOf(r.field) = x.space
<1> DEFINE k == Moved(p.renames, i)
           q == RefTo(k, r.field, r.name)
           after == Apply(c, p)
<1>1. r \in Refs(d) /\ Target(DOMAIN d, r) = Nil
  BY DEF Unresolved
<1>2. /\ r.by \in DOMAIN d /\ r.by.loc \in Locs /\ r.field \in Fields /\ r.name \in Names
      /\ r.field \in Walked(d[r.by].kind) /\ r.name \in d[r.by].fields[r.field]
      /\ NsOf(r.field) \in Spaces
  BY <1>1, RefsType DEF Between
<1>3. DOMAIN Extended(c, p) = DOMAIN c \cup DOMAIN p.upserts
  BY ExtendedFacts DEF Fit
<1>4. PICK w : Outcome(c, p, w) /\ after = ReadBack(w)
  BY OutcomeFacts
<1>5. IsConfig(w) /\ DOMAIN after = DOMAIN w
  BY <1>4, ReadBackShape DEF Outcome
<1>6. k \in DOMAIN w /\ w[k].kind = Extended(c, p)[i].kind
      /\ w[k].fields[r.field] = NewList(Extended(c, p), p.edits, i, r.field)
  BY <1>2, <1>3, <1>4 DEF Outcome
<1>7. d[r.by].kind = Extended(c, p)[i].kind
  BY <1>2, <1>3 DEF Between, Holds
<1>8. r.by.loc = i.loc /\ k.loc = i.loc
  BY DEF IsAt, Moved, Slot
<1> HIDE DEF after
<1>9. k \in DOMAIN after /\ after[k].kind = d[r.by].kind
      /\ after[k].fields[r.field] = Read(w[k].kind, r.field, w[k].fields[r.field])
  BY <1>2, <1>4, <1>5, <1>6, <1>7, ReadFacts
<1> HIDE DEF k
<1>10. r.name \in after[k].fields[r.field]
  BY <1>2, <1>6, <1>9, ReadGrows
<1>11. q.by = k /\ q.field = r.field /\ q.name = r.name
       /\ q \in [by : DOMAIN after, field : Fields, name : Names]
  BY <1>2, <1>9 DEF RefTo
<1> HIDE DEF q
<1>12. q \in Refs(after)
  BY <1>2, <1>9, <1>10, <1>11, RefsMembership
<1>13. CASE Target(DOMAIN after, q) = Nil
  BY <1>12, <1>13 DEF Unresolved, q, k, after
<1>14. CASE Target(DOMAIN after, q) # Nil
  <2> DEFINE ns == NsOf(r.field)
             loc == r.by.loc
             live == DOMAIN after
  <2>1. Target(DOMAIN after, q) = Resolve(live, ns, r.name, loc)
    BY <1>8, <1>11 DEF Target
  <2>2. Resolve(live, ns, r.name, loc) # Nil
    BY <1>14, <2>1
  <2> HIDE DEF live
  <2>3. PICK n \in DOMAIN Chain[loc] : Slot(ns, r.name, Chain[loc][n]) \in live
    <3> DEFINE name == r.name
    <3>1. ns \in Spaces /\ loc \in Locs /\ name \in Names /\ Resolve(live, ns, name, loc) # Nil
      BY <1>2, <2>2
    <3> HIDE DEF ns, loc, name
    <3>2. ~\A n \in DOMAIN Chain[loc] : Slot(ns, name, Chain[loc][n]) \notin live
      BY <3>1, ResolveProperties
    <3> QED
      BY <3>2 DEF name
  <2> DEFINE t == Slot(ns, r.name, Chain[loc][n])
  <2>4. t \notin DOMAIN d
    BY <1>1, <1>2, ResolveProperties DEF Target
  <2>5. t.name = r.name /\ t.space = ns /\ t \in DOMAIN w
    BY <1>5, <2>3 DEF Slot, live
  <2> HIDE DEF t
  <2>6. PICK x \in DOMAIN Extended(c, p) \ Gone(p) : t = Moved(p.renames, x)
    BY <1>4, <2>5 DEF Outcome
  <2>7. x \notin DOMAIN p.upserts
    <3>1. DOMAIN p.upserts # {} => DOMAIN p.renames = {}
      BY DEF Fit, RenamesFree
    <3> QED
      BY <2>4, <2>6, <3>1 DEF Moved
  <2>8. x \in DOMAIN d
    BY <1>3, <2>4, <2>6, <2>7 DEF Between
  <2>9. x \in DOMAIN p.renames
    BY <2>4, <2>6, <2>8 DEF Moved
  <2>10. t = Slot(x.space, p.renames[x], x.loc)
    BY <2>6, <2>9 DEF Moved
  <2>11. r.name = p.renames[x] /\ ns = x.space
    BY <2>5, <2>10 DEF Slot
  <2> QED
    BY <2>8, <2>9, <2>11
<1> QED
  BY <1>13, <1>14

(* "Repoint before delete" on the wire, at every prefix of every push.     *)
(* (The same groups are set apart.)                                        *)
THEOREM SurvivorsTheorem == Spec => [](Covered(running, intent) => SurvivorsNeverDangle)
<1>1. IInv => (Covered(running, intent) => SurvivorsNeverDangle)
  <2> SUFFICES ASSUME IInv, Covered(running, intent), Clean, state # "idle",
                      NEW r \in Unresolved(candidate), NEW by,
                      by = Origin(plan.renames, r.by), by \in Survivors
               PROVE  \/ [r EXCEPT !.by = by] \in Unresolved(running)
                      \/ intent.op \in {"member", "rule"} /\ r.name = intent.member
                      \/ AwaitsRename(r)
    BY DEF SurvivorsNeverDangle
  <2> DEFINE u == Extended(running, plan)
             q == RefTo(by, r.field, r.name)
  <2>1. IsConfig(running) /\ Fit(running, plan) /\ Strands(running, plan, Added(intent))
    BY PlanFit
  <2>2. /\ Between(running, plan, candidate) /\ Created(running, plan, candidate)
        /\ Ordered(running, plan, candidate) /\ IsConfig(candidate)
    BY DEF IInv, OnTheWay, Followed, InOrder, Between
  <2>3. r.by \in DOMAIN candidate /\ r.field \in Fields
        /\ r = [by |-> r.by, field |-> r.field, name |-> r.name]
    BY <2>2, RefsType DEF Unresolved
  <2>4. by \in DOMAIN running \ Gone(plan)
    BY DEF Survivors, Gone
  <2>5. IsAt(plan, by, r.by)
    BY <2>1, <2>2, <2>3, OriginFacts
  <2>6. [r EXCEPT !.by = by] = q
    <3> SUFFICES ASSUME NEW s, s = [r EXCEPT !.by = by] PROVE s = q
      OBVIOUS
    <3> QED
      BY <2>3 DEF RefTo
  <2>7. DOMAIN u = DOMAIN running \cup DOMAIN plan.upserts
    BY <2>1, ExtendedFacts DEF Fit
  <2>8. u[by] = running[by]
    BY <2>1, <2>4, ExtendedFacts DEF Fit
  <2> HIDE DEF u, q
  <2>9. ASSUME DOMAIN plan.upserts \subseteq DOMAIN candidate,
               candidate[r.by].fields[r.field] = NewList(u, plan.edits, by, r.field)
        PROVE  q \in Unresolved(running) \/ r.name \in Added(intent) \/ AwaitsRename(r)
    <3> DEFINE s == RefTo(Moved(plan.renames, by), r.field, r.name)
    <3>1. s \in Unresolved(Apply(running, plan)) \/ AwaitsRename(r)
      BY <2>1, <2>2, <2>4, <2>5, <2>9, RepointedRefs DEF AwaitsRename, u
    <3>2. s.by = Moved(plan.renames, by) /\ s.field = r.field /\ s.name = r.name
      BY DEF RefTo
    <3> HIDE DEF s
    <3>3. s \in Unresolved(Apply(running, plan)) => q \in Unresolved(running) \/ r.name \in Added(intent)
      BY <2>1, <2>4, <3>2 DEF Strands, q
    <3> QED
      BY <3>1, <3>3
  <2>10. CASE Scrubbed(running, plan, candidate) /\ DOMAIN plan.upserts \subseteq DOMAIN candidate
    <3>1. candidate[r.by].fields[r.field] = NewList(u, plan.edits, by, r.field)
      BY <2>1, <2>2, <2>3, <2>4, <2>5, <2>7, <2>10, ExecutedList DEF Scrubbed, u
    <3> QED
      BY <2>6, <2>9, <2>10, <3>1 DEF Added
  <2>11. CASE Intact(running, plan, candidate)
    <3>1. Holds(running, plan, by, candidate[r.by])
      BY <2>2, <2>3, <2>4, <2>5, <2>7 DEF Between, u
    <3>2. \/ candidate[r.by].fields[r.field] = running[by].fields[r.field]
          \/ candidate[r.by].fields[r.field] = NewList(u, plan.edits, by, r.field)
      BY <2>3, <2>4, <2>8, <3>1 DEF Holds, u
    <3>3. CASE candidate[r.by].fields[r.field] = running[by].fields[r.field]
      <4>1. q \in Unresolved(running)
        BY <2>1, <2>2, <2>4, <2>5, <2>11, <3>3, IntactRefs DEF q
      <4> QED
        BY <2>6, <4>1
    <3>4. CASE /\ candidate[r.by].fields[r.field] # running[by].fields[r.field]
               /\ candidate[r.by].fields[r.field] = NewList(u, plan.edits, by, r.field)
      <4>1. ~Untouched(running, plan, candidate)
        BY <2>3, <2>4, <2>5, <3>4 DEF Untouched
      <4>2. DOMAIN plan.upserts \subseteq DOMAIN candidate
        BY <2>2, <4>1 DEF Created
      <4> QED
        BY <2>6, <2>9, <3>4, <4>2 DEF Added
    <3> QED
      BY <3>2, <3>3, <3>4
  <2> QED
    BY <2>2, <2>10, <2>11 DEF Ordered
<1> QED
  BY <1>1, PushInvariant, PTL
=============================================================================
