-------------------------- MODULE WorkbenchProofs --------------------------
(***************************************************************************)
(* The workbench session, for every source, hierarchy, form input and      *)
(* bound: its types, that the working configuration is the source with the *)
(* staged changes replayed, that no change leaves a stale selection, and   *)
(* that new groups bind their picks.                                       *)
(***************************************************************************)
EXTENDS Workbench, PlanProofs

-----------------------------------------------------------------------------
(* Items name objects.                                                     *)
LEMMA ItemFacts ==
    ASSUME NEW c, IsConfig(c), NEW it \in Items(c)
    PROVE  /\ it \in AllItems /\ IdOf(it) \in DOMAIN c
           /\ IdOf(it) \in ObjectIds /\ IdOf(it).name = it.name /\ IdOf(it).loc = it.loc
<1>1. PICK i \in DOMAIN c : i.space \in ObjectSpaces /\ it = Item(c, i)
  BY DEF Items
<1>2. /\ i \in Ids /\ c[i].kind \in Kinds /\ SpaceOf(c[i].kind) = i.space
  BY ConfigEntry
<1>3. c[i].kind \notin RuleSpaces
  BY <1>1, <1>2, SpaceOfFacts DEF ObjectSpaces, RuleSpaces
<1>4. /\ ItemKind(c[i].kind) \in {"address", "address-group", "service", "service-group", "tag"}
      /\ SpaceOf(ItemKind(c[i].kind)) = i.space
  BY <1>2, <1>3, SpaceOfFacts DEF Kinds, ItemKind
<1>5. it = [kind |-> ItemKind(c[i].kind), name |-> i.name, loc |-> i.loc]
  BY <1>1 DEF Item
<1>6. IdOf(it) = i
  BY <1>2, <1>4, <1>5 DEF IdOf, Slot, Ids
<1> QED
  BY <1>1, <1>2, <1>4, <1>5, <1>6 DEF AllItems, Ids, ObjectIds

-----------------------------------------------------------------------------
(* What is kept of a selection: in any order, the items asked for, once.   *)
LEMMA KeepingFacts ==
    ASSUME NEW S, NEW sel \in Seq(S), IsInjective(sel), NEW kept
    PROVE  /\ Keeping(sel, kept) \in Seq(S) /\ IsInjective(Keeping(sel, kept))
           /\ ToSet(Keeping(sel, kept)) = ToSet(sel) \cap kept
<1> DEFINE step(p, k) == IF sel[k] \in kept THEN Append(p, sel[k]) ELSE p
           Walk(g, n) == g = [k \in 0 .. n |-> IF k = 0 THEN <<>> ELSE step(g[k - 1], k)]
           seen(n) == {sel[k] : k \in 1 .. n}
           good(p, n) == p \in Seq(S) /\ IsInjective(p) /\ ToSet(p) = seen(n) \cap kept
           G(n) == \E g : Walk(g, n)
           upTo == CHOOSE g : Walk(g, Len(sel))
           N == {n \in Nat : G(n)}
           M == {n \in Nat : n <= Len(sel) => good(upTo[n], n)}
<1>1. Len(sel) \in Nat /\ DOMAIN sel = 1 .. Len(sel)
  OBVIOUS
<1>2. Keeping(sel, kept) = upTo[Len(sel)]
  BY DEF Keeping
<1>3. G(0)
  <2> DEFINE g == [k \in 0 .. 0 |-> <<>>]
  <2>1. Walk(g, 0)
    OBVIOUS
  <2> QED
    BY <2>1
<1>4. ASSUME NEW n \in Nat, G(n) PROVE G(n + 1)
  <2>1. PICK g : Walk(g, n)
    BY <1>4
  <2> DEFINE h == [k \in 0 .. n + 1 |-> IF k = n + 1 THEN step(g[n], n + 1) ELSE g[k]]
  <2> HIDE DEF step
  <2>2. ASSUME NEW k \in 0 .. n + 1
        PROVE  h[k] = IF k = 0 THEN <<>> ELSE step(h[k - 1], k)
    BY <2>1
  <2>3. Walk(h, n + 1)
    <3>1. h = [k \in 0 .. n + 1 |-> h[k]]
      OBVIOUS
    <3> HIDE DEF h
    <3> QED
      BY <3>1, <2>2
  <2> QED
    BY <2>3
<1> HIDE DEF G
<1>5. G(Len(sel))
  <2>1. N \in SUBSET Nat /\ 0 \in N /\ \A n \in N : n + 1 \in N
    BY <1>3, <1>4
  <2> HIDE DEF N
  <2>2. N = Nat
    BY <2>1, Induction
  <2> QED
    BY <1>1, <2>2 DEF N
<1>6. Walk(upTo, Len(sel))
  <2> HIDE DEF Walk
  <2> QED
    BY <1>5 DEF G
<1> HIDE DEF upTo
<1>7. good(upTo[0], 0)
  <2>1. upTo[0] = <<>>
    BY <1>1, <1>6
  <2>2. seen(0) = {}
    OBVIOUS
  <2> HIDE DEF seen
  <2> QED
    BY <2>1, <2>2, EmptyDistinct
<1>8. ASSUME NEW n \in Nat, n + 1 <= Len(sel), good(upTo[n], n)
      PROVE  good(upTo[n + 1], n + 1)
  <2>1. upTo[n + 1] = step(upTo[n], n + 1)
    <3>1. n + 1 \in 0 .. Len(sel) /\ n + 1 # 0 /\ n + 1 - 1 = n
      BY <1>1, <1>8
    <3> HIDE DEF step
    <3> QED
      BY <3>1, <1>6
  <2>2. seen(n + 1) = seen(n) \cup {sel[n + 1]} /\ sel[n + 1] \in S /\ sel[n + 1] \notin seen(n)
    BY <1>1, <1>8 DEF IsInjective
  <2> HIDE DEF seen
  <2>3. CASE sel[n + 1] \in kept
    <3>1. upTo[n + 1] = Append(upTo[n], sel[n + 1]) /\ sel[n + 1] \notin ToSet(upTo[n])
      BY <1>8, <2>1, <2>2, <2>3
    <3> QED
      BY <1>8, <2>2, <2>3, <3>1, AppendDistinct
  <2>4. CASE sel[n + 1] \notin kept
    BY <1>8, <2>1, <2>2, <2>4
  <2> QED
    BY <2>3, <2>4
<1> HIDE DEF good
<1>9. good(upTo[Len(sel)], Len(sel))
  <2>1. M \in SUBSET Nat /\ 0 \in M
    BY <1>7
  <2>2. ASSUME NEW n \in M PROVE n + 1 \in M
    <3>1. n \in Nat /\ (n + 1 <= Len(sel) => n <= Len(sel))
      BY <1>1
    <3>2. n + 1 <= Len(sel) => good(upTo[n + 1], n + 1)
      BY <3>1, <1>8
    <3> QED
      BY <3>1, <3>2
  <2> HIDE DEF M
  <2>3. M = Nat
    BY <2>1, <2>2, Induction
  <2> QED
    BY <1>1, <2>3 DEF M
<1>10. seen(Len(sel)) = ToSet(sel)
  BY <1>1 DEF ToSet
<1> HIDE DEF seen
<1> QED
  BY <1>2, <1>9, <1>10 DEF good

-----------------------------------------------------------------------------
(* The replay goes through one configuration per change.                   *)
ReplaySteps(g, base, changes) ==
    g = [k \in 0 .. Len(changes) |-> IF k = 0 THEN base ELSE Apply(g[k - 1], changes[k])]

LEMMA ReplayWalk ==
    ASSUME NEW base, NEW S, NEW changes \in Seq(S)
    PROVE  \E g : /\ ReplaySteps(g, base, changes)
                  /\ Replay(base, changes) = g[Len(changes)]
<1> DEFINE Walk(g, n) == g = [k \in 0 .. n |-> IF k = 0 THEN base ELSE Apply(g[k - 1], changes[k])]
           G(n) == \E g : Walk(g, n)
           upTo == CHOOSE g : Walk(g, Len(changes))
           N == {n \in Nat : G(n)}
<1>1. Len(changes) \in Nat
  OBVIOUS
<1>2. Replay(base, changes) = upTo[Len(changes)]
  BY DEF Replay
<1>3. G(0)
  <2> DEFINE g == [k \in 0 .. 0 |-> base]
  <2>1. Walk(g, 0)
    OBVIOUS
  <2> QED
    BY <2>1
<1>4. ASSUME NEW n \in Nat, G(n) PROVE G(n + 1)
  <2>1. PICK g : Walk(g, n)
    BY <1>4
  <2> DEFINE h == [k \in 0 .. n + 1 |-> IF k = n + 1 THEN Apply(g[n], changes[n + 1]) ELSE g[k]]
  <2>2. ASSUME NEW k \in 0 .. n + 1
        PROVE  h[k] = IF k = 0 THEN base ELSE Apply(h[k - 1], changes[k])
    BY <2>1
  <2>3. Walk(h, n + 1)
    <3>1. h = [k \in 0 .. n + 1 |-> h[k]]
      OBVIOUS
    <3> HIDE DEF h
    <3> QED
      BY <3>1, <2>2
  <2> QED
    BY <2>3
<1> HIDE DEF G
<1>5. G(Len(changes))
  <2>1. N \in SUBSET Nat /\ 0 \in N /\ \A n \in N : n + 1 \in N
    BY <1>3, <1>4
  <2> HIDE DEF N
  <2>2. N = Nat
    BY <2>1, Induction
  <2> QED
    BY <1>1, <2>2 DEF N
<1>6. Walk(upTo, Len(changes))
  <2> HIDE DEF Walk
  <2> QED
    BY <1>5 DEF G
<1> HIDE DEF upTo
<1> QED
  BY <1>2, <1>6 DEF ReplaySteps

LEMMA ReplayNothing == ASSUME NEW base PROVE Replay(base, <<>>) = base
<1>1. <<>> \in Seq({}) /\ Len(<<>>) = 0
  OBVIOUS
<1>2. PICK g : ReplaySteps(g, base, <<>>) /\ Replay(base, <<>>) = g[Len(<<>>)]
  BY <1>1, ReplayWalk
<1> QED
  BY <1>1, <1>2 DEF ReplaySteps

(* One change more is one application more.                                *)
LEMMA ReplayAppend ==
    ASSUME NEW base, NEW S, NEW changes \in Seq(S), NEW plan \in S
    PROVE  Replay(base, Append(changes, plan)) = Apply(Replay(base, changes), plan)
<1> DEFINE n == Len(changes)
           more == Append(changes, plan)
<1>1. /\ n \in Nat /\ more \in Seq(S) /\ Len(more) = n + 1 /\ more[n + 1] = plan
      /\ \A k \in 1 .. n : more[k] = changes[k]
  BY AppendProperties
<1> HIDE DEF more
<1>2. PICK g : ReplaySteps(g, base, changes) /\ Replay(base, changes) = g[n]
  BY ReplayWalk
<1>3. PICK h : ReplaySteps(h, base, more) /\ Replay(base, more) = h[n + 1]
  BY <1>1, ReplayWalk
<1> HIDE DEF n
<1>4. /\ g[0] = base
      /\ \A k \in Nat : k + 1 <= n => g[k + 1] = Apply(g[k], changes[k + 1])
  BY <1>1, <1>2 DEF ReplaySteps, n
<1>5. /\ h[0] = base
      /\ \A k \in Nat : k <= n => h[k + 1] = Apply(h[k], more[k + 1])
  BY <1>1, <1>3 DEF ReplaySteps
<1> DEFINE N == {k \in Nat : k <= n => h[k] = g[k]}
<1>6. N = Nat
  <2>1. N \in SUBSET Nat /\ 0 \in N
    BY <1>4, <1>5
  <2>2. ASSUME NEW k \in N PROVE k + 1 \in N
    <3>1. k \in Nat /\ (k + 1 <= n => h[k] = g[k] /\ more[k + 1] = changes[k + 1])
      BY <1>1
    <3> QED
      BY <3>1, <1>1, <1>4, <1>5
  <2> HIDE DEF N
  <2> QED
    BY <2>1, <2>2, Induction
<1>7. h[n] = g[n] /\ h[n + 1] = Apply(h[n], plan)
  BY <1>1, <1>5, <1>6
<1> QED
  BY <1>2, <1>3, <1>7 DEF more

(* Replaying plans over well-formed data keeps configurations well formed. *)
LEMMA ReplayTyped ==
    ASSUME NEW base, IsConfig(base), NEW S, NEW changes \in Seq(S), \A p \in S : IsPlan(p)
    PROVE  IsConfig(Replay(base, changes))
<1> DEFINE n == Len(changes)
<1>1. n \in Nat /\ \A k \in 1 .. n : changes[k] \in S
  OBVIOUS
<1>2. PICK g : ReplaySteps(g, base, changes) /\ Replay(base, changes) = g[n]
  BY ReplayWalk
<1> HIDE DEF n
<1>3. /\ g[0] = base
      /\ \A k \in Nat : k + 1 <= n => g[k + 1] = Apply(g[k], changes[k + 1])
  BY <1>1, <1>2 DEF ReplaySteps, n
<1> DEFINE N == {k \in Nat : k <= n => IsConfig(g[k])}
<1>4. N = Nat
  <2>1. N \in SUBSET Nat /\ 0 \in N
    BY <1>3
  <2>2. ASSUME NEW k \in N PROVE k + 1 \in N
    <3>1. k \in Nat /\ (k + 1 <= n => k <= n /\ k + 1 \in 1 .. n)
      BY <1>1
    <3>2. k + 1 <= n => IsConfig(g[k + 1])
      <4>1. k + 1 <= n => IsConfig(g[k]) /\ IsPlan(changes[k + 1])
        BY <3>1, <1>1
      <4> QED
        BY <3>1, <4>1, <1>3, ApplyTyped
    <3> QED
      BY <3>1, <3>2
  <2> HIDE DEF N
  <2> QED
    BY <2>1, <2>2, Induction
<1> QED
  BY <1>1, <1>2, <1>4

-----------------------------------------------------------------------------
(* A list of staged changes: plans over well-formed data, each with        *)
(* something to execute.                                                   *)
Changes(st) ==
    /\ st \in Seq(ToSet(st))
    /\ \A p \in ToSet(st) : IsPlan(p) /\ ~p.blocked /\ ~IsEmptyPlan(p)

LEMMA ChangesIndexed ==
    ASSUME NEW S, NEW st \in Seq(S)
    PROVE  /\ st \in Seq(ToSet(st))
           /\ (\A k \in DOMAIN st : IsPlan(st[k]) /\ ~st[k].blocked /\ ~IsEmptyPlan(st[k]))
                <=> Changes(st)
<1>1. \A k \in DOMAIN st : st[k] \in ToSet(st)
  BY DEF ToSet
<1>2. st \in Seq(ToSet(st))
  BY <1>1
<1> QED
  BY <1>1, <1>2 DEF Changes, ToSet

LEMMA ChangesAppend ==
    ASSUME NEW st, Changes(st), NEW p, IsPlan(p), ~p.blocked, ~IsEmptyPlan(p)
    PROVE  Changes(Append(st, p)) /\ Len(Append(st, p)) = Len(st) + 1
<1> DEFINE S == ToSet(st) \cup {p}
           t == Append(st, p)
<1>1. st \in Seq(S) /\ p \in S
  BY DEF Changes
<1>2. /\ t \in Seq(S) /\ Len(t) = Len(st) + 1
  BY <1>1, AppendProperties
<1>3. \A q \in S : IsPlan(q) /\ ~q.blocked /\ ~IsEmptyPlan(q)
  BY DEF Changes
<1> HIDE DEF S, t
<1>4. \A k \in DOMAIN t : t[k] \in S
  BY <1>2
<1> QED
  BY <1>2, <1>3, <1>4, ChangesIndexed DEF t

LEMMA ChangesRemove ==
    ASSUME NEW st, Changes(st), NEW k \in DOMAIN st
    PROVE  Changes(RemoveAt(st, k)) /\ Len(RemoveAt(st, k)) = Len(st) - 1
<1> DEFINE t == RemoveAt(st, k)
<1>1. t \in Seq(ToSet(st)) /\ Len(t) = Len(st) - 1
  BY RemoveProperties DEF Changes
<1> HIDE DEF t
<1>2. \A j \in DOMAIN t : t[j] \in ToSet(st)
  BY <1>1
<1> QED
  BY <1>1, <1>2, ChangesIndexed DEF Changes, t

LEMMA ChangesNone == Changes(<<>>)
BY EmptyDistinct DEF Changes

(* A session under way: its working configuration is well formed and, if   *)
(* nothing was committed, the replay of its own changes.                   *)
Coherent(s) ==
    /\ IsConfig(s.working) /\ Changes(s.staging)
    /\ committed = 0 => s.working = Replay(source, s.staging)

LEMMA StagedCoherent ==
    ASSUME NEW s, Coherent(s), NEW plan, IsPlan(plan)
    PROVE  /\ Coherent(Staged(s, plan))
           /\ \/ Staged(s, plan).staging = s.staging /\ Staged(s, plan).working = s.working
              \/ /\ ~plan.blocked /\ ~IsEmptyPlan(plan)
                 /\ Staged(s, plan) = Session(Apply(s.working, plan), Append(s.staging, plan))
<1>1. CASE plan.blocked
  <2>1. Staged(s, plan) = [s EXCEPT !.refused = TRUE]
    BY <1>1 DEF Staged
  <2>2. Staged(s, plan).working = s.working /\ Staged(s, plan).staging = s.staging
    BY <2>1
  <2> QED
    BY <2>2 DEF Coherent
<1>2. CASE ~plan.blocked /\ IsEmptyPlan(plan)
  <2>1. Staged(s, plan) = s
    BY <1>2 DEF Staged
  <2> QED
    BY <2>1
<1>3. CASE ~plan.blocked /\ ~IsEmptyPlan(plan)
  <2> DEFINE t == Staged(s, plan)
  <2>1. t = Session(Apply(s.working, plan), Append(s.staging, plan))
    BY <1>3 DEF Staged
  <2>2. t.working = Apply(s.working, plan) /\ t.staging = Append(s.staging, plan)
    BY <2>1 DEF Session
  <2> HIDE DEF t
  <2>3. IsConfig(t.working)
    BY <2>2, ApplyTyped DEF Coherent
  <2>4. Changes(t.staging)
    BY <2>2, <1>3, ChangesAppend DEF Coherent
  <2>5. committed = 0 => t.working = Replay(source, t.staging)
    <3>1. s.staging \in Seq(ToSet(s.staging) \cup {plan})
      BY DEF Coherent, Changes
    <3>2. Replay(source, Append(s.staging, plan)) = Apply(Replay(source, s.staging), plan)
      BY <3>1, ReplayAppend
    <3> QED
      BY <2>2, <3>2 DEF Coherent
  <2> QED
    BY <1>3, <2>1, <2>3, <2>4, <2>5 DEF Coherent, t
<1> QED
  BY <1>1, <1>2, <1>3

-----------------------------------------------------------------------------
(* The adding spokes stage one plan after the other.                       *)
LEMMA PlanAddPlan ==
    ASSUME NEW c, IsConfig(c), NEW place, NEW m \in Names
    PROVE  IsPlan(PlanAdd(c, place, m))
<1>1. m \in Members
  BY DEF Members
<1> QED
  BY <1>1, GroupMemberPlan, RuleMemberPlan DEF PlanAdd

LEMMA StagedForEachCoherent ==
    ASSUME Coherent(Here), selection \in Seq(AllItems), NEW place
    PROVE  Coherent(StagedForEach(place))
<1> DEFINE sel == selection
           here == Here
           step(s, k) == IF s.refused THEN s ELSE Staged(s, PlanAdd(s.working, place, sel[k].name))
           Walk(g, n) == g = [k \in 0 .. n |-> IF k = 0 THEN here ELSE step(g[k - 1], k)]
           G(n) == \E g : Walk(g, n)
           upTo == CHOOSE g : Walk(g, Len(sel))
           N == {n \in Nat : G(n)}
           M == {n \in Nat : n <= Len(sel) => Coherent(upTo[n])}
<1>1. Len(sel) \in Nat /\ \A k \in 1 .. Len(sel) : sel[k] \in AllItems
  OBVIOUS
<1>2. StagedForEach(place) = upTo[Len(sel)]
  BY DEF StagedForEach
<1> HIDE DEF sel, here
<1>3. G(0)
  <2> DEFINE g == [k \in 0 .. 0 |-> here]
  <2>1. Walk(g, 0)
    OBVIOUS
  <2> QED
    BY <2>1
<1>4. ASSUME NEW n \in Nat, G(n) PROVE G(n + 1)
  <2>1. PICK g : Walk(g, n)
    BY <1>4
  <2> DEFINE h == [k \in 0 .. n + 1 |-> IF k = n + 1 THEN step(g[n], n + 1) ELSE g[k]]
  <2> HIDE DEF step
  <2>2. ASSUME NEW k \in 0 .. n + 1
        PROVE  h[k] = IF k = 0 THEN here ELSE step(h[k - 1], k)
    BY <2>1
  <2>3. Walk(h, n + 1)
    <3>1. h = [k \in 0 .. n + 1 |-> h[k]]
      OBVIOUS
    <3> HIDE DEF h
    <3> QED
      BY <3>1, <2>2
  <2> QED
    BY <2>3
<1> HIDE DEF G
<1>5. G(Len(sel))
  <2>1. N \in SUBSET Nat /\ 0 \in N /\ \A n \in N : n + 1 \in N
    BY <1>3, <1>4
  <2> HIDE DEF N
  <2>2. N = Nat
    BY <2>1, Induction
  <2> QED
    BY <1>1, <2>2 DEF N
<1>6. Walk(upTo, Len(sel))
  <2> HIDE DEF Walk
  <2> QED
    BY <1>5 DEF G
<1> HIDE DEF upTo
<1>7. upTo[0] = here /\ \A n \in Nat : n + 1 <= Len(sel) => upTo[n + 1] = step(upTo[n], n + 1)
  <2>1. \A n \in Nat : n + 1 <= Len(sel) => n + 1 \in 0 .. Len(sel) /\ n + 1 # 0 /\ n + 1 - 1 = n
    BY <1>1
  <2> HIDE DEF step
  <2> QED
    BY <2>1, <1>1, <1>6
<1>8. ASSUME NEW n \in Nat, n + 1 <= Len(sel), Coherent(upTo[n])
      PROVE  Coherent(upTo[n + 1])
  <2>1. upTo[n + 1] = step(upTo[n], n + 1)
    BY <1>7, <1>8
  <2>2. sel[n + 1].name \in Names
    BY <1>1, <1>8 DEF AllItems
  <2>3. IsPlan(PlanAdd(upTo[n].working, place, sel[n + 1].name))
    BY <1>8, <2>2, PlanAddPlan DEF Coherent
  <2>4. Coherent(Staged(upTo[n], PlanAdd(upTo[n].working, place, sel[n + 1].name)))
    BY <1>8, <2>3, StagedCoherent
  <2> QED
    BY <1>8, <2>1, <2>4
<1>9. M = Nat
  <2>1. M \in SUBSET Nat /\ 0 \in M
    BY <1>7 DEF here
  <2>2. ASSUME NEW n \in M PROVE n + 1 \in M
    <3>1. n \in Nat /\ (n + 1 <= Len(sel) => n <= Len(sel))
      BY <1>1
    <3>2. n + 1 <= Len(sel) => Coherent(upTo[n + 1])
      BY <3>1, <1>8
    <3> QED
      BY <3>1, <3>2
  <2> HIDE DEF M
  <2> QED
    BY <2>1, <2>2, Induction
<1> QED
  BY <1>1, <1>2, <1>9

-----------------------------------------------------------------------------
(* The inductive invariant.                                                *)
IInv == TypeOK /\ Changes(staging) /\ WorkingIsReplay

LEMMA HereCoherent == ASSUME IInv PROVE Coherent(Here) /\ selection \in Seq(AllItems)
BY DEF IInv, TypeOK, WorkingIsReplay, Coherent, Here, Session

LEMMA ItemsTyped == ASSUME NEW c, IsConfig(c) PROVE Items(c) \subseteq AllItems
BY ItemFacts

LEMMA ReconciledFacts ==
    ASSUME NEW sel \in Seq(AllItems), IsInjective(sel), NEW c
    PROVE  /\ Reconciled(sel, c) \in Seq(AllItems) /\ IsInjective(Reconciled(sel, c))
           /\ ToSet(Reconciled(sel, c)) = ToSet(sel) \cap Items(c)
BY KeepingFacts DEF Reconciled

(* Taking over a session keeps the invariant, whatever is selected.        *)
LEMMA SessionIInv ==
    ASSUME IInv, NEW s, Coherent(s), Len(s.staging) + committed <= MaxStaged,
           working' = s.working, staging' = s.staging,
           selection' \in Seq(AllItems), IsInjective(selection'),
           UNCHANGED <<source, results, committed>>
    PROVE  IInv'
<1>1. IsConfig(working') /\ Changes(staging') /\ (committed' = 0 => working' = Replay(source', staging'))
  BY DEF Coherent
<1>2. \A k \in DOMAIN staging' :
        IsPlan(staging'[k]) /\ ~staging'[k].blocked /\ ~IsEmptyPlan(staging'[k])
  BY <1>1, ChangesIndexed DEF Changes
<1> QED
  BY <1>1, <1>2 DEF IInv, TypeOK, WorkingIsReplay

LEMMA StageIInv == ASSUME IInv, NEW s, Coherent(s), Stage(s) PROVE IInv'
<1>1. /\ selection' = Reconciled(selection, s.working)
      /\ selection \in Seq(AllItems) /\ IsInjective(selection)
  BY DEF IInv, TypeOK, Stage
<1>2. selection' \in Seq(AllItems) /\ IsInjective(selection')
  BY <1>1, ReconciledFacts
<1> QED
  BY <1>2, SessionIInv DEF Stage

-----------------------------------------------------------------------------
(* Every spoke plans over well-formed data.                                *)
LEMMA DeletePlanned ==
    ASSUME NEW c, IsConfig(c), NEW items \in SUBSET AllItems, NEW op \in {"purge", "decommission"},
           NEW keepRules \in BOOLEAN
    PROVE  LET cm == [op |-> op, targets |-> {IdOf(it) : it \in items},
                      keepGroups |-> FALSE, keepRules |-> keepRules]
           IN  IsPlan(PlanTeardown(c, cm, Cascade(c, cm)))
<1> DEFINE cm == [op |-> op, targets |-> {IdOf(it) : it \in items},
                  keepGroups |-> FALSE, keepRules |-> keepRules]
<1>1. \A it \in AllItems : IdOf(it) \in ObjectIds
  BY SpaceOfFacts DEF AllItems, IdOf, Slot, ObjectIds, ObjectSpaces
<1>2. cm \in Commands
  BY <1>1 DEF Commands
<1> HIDE DEF cm
<1> QED
  BY <1>2, TeardownPlan DEF cm

LEMMA GroupPicks ==
    ASSUME IInv, Groupable \subseteq Items(working)
    PROVE  {IdOf(it) : it \in Groupable} \in SUBSET ObjectIds
BY ItemFacts DEF IInv, TypeOK

(* The group the new-group spoke would stage.                              *)
NewGroupPlan(id) ==
    IF Groupable \subseteq Items(working)
    THEN PlanGroupCreate(working, id, {IdOf(it) : it \in Groupable}, {})
    ELSE Refusal

LEMMA NewGroupPlanned ==
    ASSUME IInv, NEW n \in GroupNames, NEW space \in {"address", "service"}, NEW l \in Locs
    PROVE  /\ Slot(space, n, l) \in ObjectIds
           /\ IsPlan(NewGroupPlan(Slot(space, n, l)))
           /\ Coherent(Staged(Here, NewGroupPlan(Slot(space, n, l))))
<1>1. Slot(space, n, l) \in ObjectIds /\ Slot(space, n, l).space # "tag"
  BY GroupNamesAssumption DEF Slot, ObjectIds, ObjectSpaces
<1>2. IsPlan(NewGroupPlan(Slot(space, n, l)))
  BY <1>1, GroupPicks, GroupCreatePlan, SimplePlans DEF NewGroupPlan
<1> QED
  BY <1>1, <1>2, HereCoherent, StagedCoherent

LEMMA StagingIInv == ASSUME IInv, Staging PROVE IInv'
<1>1. Coherent(Here) /\ selection \in Seq(AllItems) /\ IsConfig(working)
  BY HereCoherent DEF IInv, TypeOK
<1>2. ASSUME NEW x \in Creations, Create(x[1], x[2]) PROVE IInv'
  <2>1. x[1] \in Ids /\ x[2] \in Entry /\ SpaceOf(x[2].kind) = x[1].space
    BY CreationsAssumption DEF ObjectIds, Ids, Spaces
  <2>2. IsPlan(PlanPut(working, x[1], x[2]))
    BY <2>1, PutPlan
  <2> QED
    BY <1>1, <1>2, <2>2, StagedCoherent, StageIInv DEF Create
<1>3. ASSUME NEW n \in GroupNames, AddToGroup(n) PROVE IInv'
  BY <1>1, <1>3, StagedForEachCoherent, StageIInv DEF AddToGroup
<1>4. ASSUME NEW n \in Names, NEW f \in {"source", "service"}, AddToRule(n, f) PROVE IInv'
  BY <1>1, <1>4, StagedForEachCoherent, StageIInv DEF AddToRule
<1>5. ASSUME NEW n \in GroupNames, NEW space \in {"address", "service"}, NEW l \in Locs,
             NewGroup(Slot(space, n, l))
      PROVE  IInv'
  <2> DEFINE s == Staged(Here, NewGroupPlan(Slot(space, n, l)))
  <2>1. Coherent(s)
    BY NewGroupPlanned
  <2>2. /\ Len(s.staging) + committed <= MaxStaged
        /\ working' = s.working /\ staging' = s.staging /\ selection' = <<>>
        /\ UNCHANGED <<source, results, committed>>
    BY <1>5 DEF NewGroup, NewGroupPlan
  <2> HIDE DEF s
  <2>3. selection' \in Seq(AllItems) /\ IsInjective(selection')
    BY <2>2, EmptyDistinct
  <2> QED
    BY <2>1, <2>2, <2>3, SessionIInv
<1>6. ASSUME NEW keepRules \in BOOLEAN, Delete(keepRules) PROVE IInv'
  <2> DEFINE items == {selection[k] : k \in DOMAIN selection}
             cm == [op |-> "purge", targets |-> {IdOf(it) : it \in items},
                    keepGroups |-> FALSE, keepRules |-> keepRules]
             plan == IF items \subseteq Items(working)
                     THEN PlanTeardown(working, cm, Cascade(working, cm)) ELSE Refusal
  <2>1. items \in SUBSET AllItems
    BY <1>1
  <2>2. IsPlan(PlanTeardown(working, cm, Cascade(working, cm)))
    <3> HIDE DEF items
    <3> QED
      BY <1>1, <2>1, DeletePlanned
  <2>3. IsPlan(plan)
    <3> HIDE DEF cm, items
    <3> QED
      BY <2>2, SimplePlans
  <2>4. Stage(Staged(Here, plan))
    BY <1>6 DEF Delete
  <2> HIDE DEF plan
  <2> QED
    BY <1>1, <2>3, <2>4, StagedCoherent, StageIInv
<1>7. ASSUME Decommission PROVE IInv'
  <2> DEFINE live == {selection[k] : k \in DOMAIN selection} \cap Items(working)
             picked == {x \in live : x.kind = "address"}
             cm == [op |-> "decommission", targets |-> {IdOf(it) : it \in picked},
                    keepGroups |-> FALSE, keepRules |-> FALSE]
             plan == PlanTeardown(working, cm, Cascade(working, cm))
  <2>1. picked \in SUBSET AllItems
    BY <1>1
  <2>2. IsPlan(plan)
    <3> HIDE DEF picked
    <3> QED
      BY <1>1, <2>1, DeletePlanned
  <2>3. Stage(Staged(Here, plan))
    BY <1>7 DEF Decommission
  <2> HIDE DEF plan
  <2> QED
    BY <1>1, <2>2, <2>3, StagedCoherent, StageIInv
<1> QED
  BY <1>2, <1>3, <1>4, <1>5, <1>6, <1>7 DEF Staging

-----------------------------------------------------------------------------
LEMMA DropIInv == ASSUME IInv, NEW k, Drop(k) PROVE IInv'
<1>1. /\ k \in DOMAIN staging /\ staging' = RemoveAt(staging, k)
      /\ working' = Replay(source, staging')
      /\ selection' = Reconciled(selection, working')
      /\ UNCHANGED <<source, results, committed>>
  BY DEF Drop
<1>2. /\ Changes(staging) /\ IsConfig(source) /\ source \in Sources
      /\ selection \in Seq(AllItems) /\ IsInjective(selection)
      /\ Len(staging) + committed <= MaxStaged
      /\ committed \in 0 .. MaxStaged /\ results \subseteq AllItems
  BY SourcesAssumption DEF IInv, TypeOK
<1>3. Changes(staging') /\ Len(staging') = Len(staging) - 1
  BY <1>1, <1>2, ChangesRemove
<1>4. IsConfig(working')
  <2>1. staging' \in Seq(ToSet(staging')) /\ \A p \in ToSet(staging') : IsPlan(p)
    BY <1>3 DEF Changes
  <2> QED
    BY <1>1, <1>2, <2>1, ReplayTyped
<1>5. selection' \in Seq(AllItems) /\ IsInjective(selection')
  BY <1>1, <1>2, ReconciledFacts
<1>6. Len(staging') + committed' <= MaxStaged
  <2>1. Len(staging) \in Nat
    BY <1>2 DEF Changes
  <2> QED
    BY <1>1, <1>2, <1>3, <2>1, BoundsAssumption
<1>7. \A j \in DOMAIN staging' :
        IsPlan(staging'[j]) /\ ~staging'[j].blocked /\ ~IsEmptyPlan(staging'[j])
  BY <1>3, ChangesIndexed DEF Changes
<1> QED
  BY <1>1, <1>2, <1>3, <1>4, <1>5, <1>6, <1>7 DEF IInv, TypeOK, WorkingIsReplay

(* A source just loaded.                                                   *)
LEMMA FreshIInv ==
    ASSUME NEW s \in Sources
    PROVE  /\ IsConfig(s) /\ Changes(<<>>) /\ s = Replay(s, <<>>)
           /\ <<>> \in Seq(AllItems) /\ IsInjective(<<>>)
           /\ Len(<<>>) + 0 <= MaxStaged /\ 0 \in 0 .. MaxStaged
           /\ DOMAIN <<>> = {}
<1>1. Len(<<>>) = 0 /\ DOMAIN <<>> = {}
  OBVIOUS
<1> QED
  BY <1>1, SourcesAssumption, ChangesNone, ReplayNothing, EmptyDistinct, BoundsAssumption

LEMMA InitIInv == Init => IInv
BY FreshIInv DEF Init, IInv, TypeOK, WorkingIsReplay

LEMMA NextIInv == IInv /\ [Next]_vars => IInv'
<1> SUFFICES ASSUME IInv, [Next]_vars PROVE IInv'
  OBVIOUS
<1>1. ASSUME NEW names \in Queries, Search(names) PROVE IInv'
  <2>1. results' \subseteq AllItems
    BY <1>1, ItemsTyped DEF Search, IInv, TypeOK
  <2> QED
    BY <1>1, <2>1 DEF Search, IInv, TypeOK, WorkingIsReplay
<1>2. ASSUME NEW it \in results, Toggle(it) PROVE IInv'
  <2>1. it \in AllItems /\ selection \in Seq(AllItems) /\ IsInjective(selection)
    BY DEF IInv, TypeOK
  <2>2. selection' \in Seq(AllItems) /\ IsInjective(selection')
    <3>1. CASE it \in ToSet(selection)
      BY <1>2, <2>1, <3>1, KeepingFacts DEF Toggle
    <3>2. CASE it \notin ToSet(selection)
      <4>1. selection' = Append(selection, it)
        BY <1>2, <3>2 DEF Toggle
      <4> QED
        BY <2>1, <3>2, <4>1, AppendDistinct
    <3> QED
      BY <3>1, <3>2
  <2> QED
    BY <1>2, <2>2 DEF Toggle, IInv, TypeOK, WorkingIsReplay
<1>3. ASSUME NEW k \in 1 .. MaxSelected, RemoveSelected(k) PROVE IInv'
  <2>1. selection' \in Seq(AllItems) /\ IsInjective(selection')
    BY <1>3, RemoveDistinct DEF RemoveSelected, IInv, TypeOK
  <2> QED
    BY <1>3, <2>1 DEF RemoveSelected, IInv, TypeOK, WorkingIsReplay
<1>4. CASE Staging
  BY <1>4, StagingIInv
<1>5. ASSUME NEW k \in 1 .. MaxStaged, Drop(k) PROVE IInv'
  BY <1>5, DropIInv
<1>6. CASE Commit
  <2>1. /\ staging # <<>> /\ staging' = <<>> /\ committed' = committed + Len(staging)
        /\ UNCHANGED <<source, working, selection, results>>
    BY <1>6 DEF Commit
  <2>2. Len(staging) \in Nat /\ Len(staging) # 0
    <3>1. staging \in Seq(ToSet(staging))
      BY DEF IInv, Changes
    <3> QED
      BY <2>1, <3>1
  <2>3. committed' \in 0 .. MaxStaged /\ committed' # 0 /\ Len(staging') + committed' <= MaxStaged
    BY <2>1, <2>2, BoundsAssumption DEF IInv, TypeOK
  <2>4. Changes(staging') /\ DOMAIN staging' = {}
    BY <2>1, ChangesNone
  <2> QED
    BY <2>1, <2>3, <2>4 DEF IInv, TypeOK, WorkingIsReplay
<1>7. ASSUME NEW s \in Sources, Reload(s) PROVE IInv'
  BY <1>7, FreshIInv DEF Reload, IInv, TypeOK, WorkingIsReplay
<1>8. CASE UNCHANGED vars
  BY <1>8 DEF vars, IInv, TypeOK, WorkingIsReplay, Changes
<1> QED
  BY <1>1, <1>2, <1>3, <1>4, <1>5, <1>6, <1>7, <1>8 DEF Next

LEMMA WorkbenchInvariant == Spec => []IInv
<1> QED
  BY InitIInv, NextIInv, PTL DEF Spec

(* The session keeps its types: what is staged are plans over well-formed  *)
(* data with something to execute, and the selection holds an item once.   *)
THEOREM WorkbenchTypes == Spec => []TypeOK
<1>1. IInv => TypeOK
  BY DEF IInv
<1> QED
  BY <1>1, WorkbenchInvariant, PTL

(* However changes are staged and dropped, what the operator reviews is    *)
(* what the batch does to the source.                                      *)
THEOREM ReplayTheorem == Spec => []WorkingIsReplay
<1>1. IInv => WorkingIsReplay
  BY DEF IInv
<1> QED
  BY <1>1, WorkbenchInvariant, PTL

-----------------------------------------------------------------------------
(* Every step that changes the working configuration takes over the        *)
(* reconciled selection or none.                                           *)
LEMMA ReconciledLive ==
    ASSUME selection \in Seq(AllItems), IsInjective(selection), NEW c,
           selection' = Reconciled(selection, c)
    PROVE  \A k \in DOMAIN selection' : selection'[k] \in Items(c)
<1>1. ToSet(selection') \subseteq Items(c)
  BY ReconciledFacts
<1> QED
  BY <1>1 DEF ToSet

THEOREM SelectionTheorem == Spec => NoNewStaleSelection
<1> DEFINE Live == \A k \in DOMAIN selection' : selection'[k] \in Items(working')
<1>1. ASSUME IInv, [Next]_vars, working' # working PROVE Live
  <2>1. selection \in Seq(AllItems) /\ IsInjective(selection)
    BY <1>1 DEF IInv, TypeOK
  <2>2. ASSUME selection' = <<>> PROVE Live
    BY <2>2
  <2>3. ASSUME NEW s, Stage(s) PROVE Live
    BY <2>1, <2>3, ReconciledLive DEF Stage
  <2>4. CASE Staging
    BY <2>2, <2>3, <2>4 DEF Staging, Create, AddToGroup, AddToRule, NewGroup, Delete, Decommission
  <2>5. ASSUME NEW k, Drop(k) PROVE Live
    BY <2>1, <2>5, ReconciledLive DEF Drop
  <2>6. ASSUME NEW s, Reload(s) PROVE Live
    BY <2>2, <2>6 DEF Reload
  <2>7. \/ Staging
        \/ \E k \in 1 .. MaxStaged : Drop(k)
        \/ \E s \in Sources : Reload(s)
    BY <1>1 DEF Next, Search, Toggle, RemoveSelected, Commit, vars
  <2> QED
    BY <2>4, <2>5, <2>6, <2>7
<1>2. IInv /\ [Next]_vars => [working' # working => Live]_vars
  BY <1>1
<1> QED
  BY <1>2, WorkbenchInvariant, PTL DEF Spec, NoNewStaleSelection

-----------------------------------------------------------------------------
(* A new definition changes what a name means only for its own name.       *)
LEMMA ResolveOthers ==
    ASSUME NEW live, NEW id, NEW space, NEW name, NEW loc, id.space # space \/ id.name # name
    PROVE  Resolve(live \cup {id}, space, name, loc) = Resolve(live, space, name, loc)
<1>1. \A l : Slot(space, name, l) # id
  BY DEF Slot
<1>2. {i \in DOMAIN Chain[loc] : Slot(space, name, Chain[loc][i]) \in live \cup {id}}
        = {i \in DOMAIN Chain[loc] : Slot(space, name, Chain[loc][i]) \in live}
  BY <1>1
<1> QED
  BY <1>2 DEF Resolve

(* What the new-group spoke did, when it staged something.                 *)
LEMMA NewGroupStep ==
    ASSUME IInv, NEW n \in GroupNames, NEW space \in {"address", "service"}, NEW l \in Locs,
           NewGroup(Slot(space, n, l))
    PROVE  /\ Slot(space, n, l) \in Ids \ DOMAIN working
           /\ DOMAIN working' = DOMAIN working \cup {Slot(space, n, l)}
           /\ \A it \in Groupable : /\ IdOf(it).space = space /\ it.name # n
                                    /\ IdOf(it).name = it.name
                                    /\ Resolve(DOMAIN working, space, it.name, l) = IdOf(it)
<1> DEFINE id == Slot(space, n, l)
           picks == {IdOf(it) : it \in Groupable}
           plan == NewGroupPlan(id)
           s == Staged(Here, plan)
<1>1. id.space = space /\ id.name = n /\ id.loc = l /\ id \in ObjectIds /\ id \in Ids /\ id.space # "tag"
  BY NewGroupPlanned DEF Slot, ObjectIds, Ids, Spaces
<1>2. working' = s.working /\ Len(s.staging) > Len(staging)
  BY DEF NewGroup, NewGroupPlan
<1>3. IsPlan(plan) /\ Coherent(Here) /\ IsConfig(working)
  BY NewGroupPlanned, HereCoherent DEF IInv, TypeOK
<1>4. Here.staging = staging /\ Here.working = working /\ Len(staging) \in Nat
  BY DEF Here, Session, IInv, Changes
<1> HIDE DEF plan, id
<1>5. ~plan.blocked /\ s = Session(Apply(working, plan), Append(staging, plan))
  <2>1. s.staging # staging
    <3> HIDE DEF s
    <3> QED
      BY <1>2, <1>4
  <2> QED
    BY <1>3, <1>4, <2>1, StagedCoherent
<1>6. working' = Apply(working, plan)
  BY <1>2, <1>5 DEF Session
<1> HIDE DEF s, picks
<1>7. /\ Groupable \subseteq Items(working)
      /\ plan = PlanGroupCreate(working, id, picks, {})
  BY <1>5, SimplePlans DEF plan, NewGroupPlan, picks
<1>8. /\ {p.space : p \in picks} = {id.space}
      /\ \A p \in picks : p.name # id.name /\ Binds(working, p, id.loc)
      /\ id \notin DOMAIN working
      /\ plan = Putting(id, GroupOf(picks, {}))
  BY <1>5, <1>7, SimplePlans DEF PlanGroupCreate
<1>9. picks \in SUBSET ObjectIds
  BY <1>7, GroupPicks DEF picks
<1>10. GroupOf(picks, {}) \in Entry /\ SpaceOf(GroupOf(picks, {}).kind) = id.space
  BY <1>1, <1>8, <1>9, GroupEntry
<1>11. DOMAIN working' = DOMAIN working \cup {id}
  <2> DEFINE e == GroupOf(picks, {})
             new == [i \in DOMAIN working \cup DOMAIN plan.upserts |->
                        IF i \in DOMAIN working THEN working[i] ELSE plan.upserts[i]]
  <2> HIDE DEF e
  <2>1. /\ plan.upserts = [i \in {id} |-> e] /\ DOMAIN plan.edits = {} /\ DOMAIN plan.renames = {}
        /\ plan.ruleDeletes = {} /\ plan.deletes = {}
    BY <1>8 DEF Putting, EmptyPlan, e
  <2>2. IsConfig(new) /\ Apply(working, plan) = ReadBack(new)
    BY <1>1, <1>3, <1>8, <1>10, <2>1, ApplyUpserts DEF e
  <2>3. DOMAIN new = DOMAIN working \cup {id}
    BY <2>1
  <2> HIDE DEF new
  <2> QED
    BY <1>6, <2>2, <2>3, ReadBackShape
<1>12. ASSUME NEW it \in Groupable
       PROVE  /\ IdOf(it).space = space /\ it.name # n /\ IdOf(it).name = it.name
              /\ Resolve(DOMAIN working, space, it.name, l) = IdOf(it)
  <2>1. IdOf(it) \in picks
    BY DEF picks
  <2>2. IdOf(it).space = space /\ IdOf(it).name # n /\ Binds(working, IdOf(it), l)
    BY <1>1, <1>8, <2>1
  <2>3. IdOf(it).name = it.name
    BY <1>3, <1>7, ItemFacts
  <2> QED
    BY <2>2, <2>3 DEF Binds
<1> QED
  BY <1>1, <1>8, <1>11, <1>12 DEF id

(* A group made of picked objects holds those objects, for every hierarchy *)
(* and every way of shadowing, and what it captures was announced.         *)
THEOREM PicksTheorem == Spec => NewGroupsBindTheirPicks
<1> DEFINE Good ==
      \A n \in GroupNames, space \in {"address", "service"}, l \in Locs :
        NewGroup(Slot(space, n, l)) =>
            /\ \A it \in Groupable : Resolve(DOMAIN working', space, it.name, l) = IdOf(it)
            /\ \A r \in Refs(working) :
                Target(DOMAIN working', r) # Target(DOMAIN working, r)
                    => (Target(DOMAIN working, r) = Nil \/ ShadowWarned(working, Slot(space, n, l)))
<1>1. ASSUME IInv PROVE Good
  <2> SUFFICES ASSUME NEW n \in GroupNames, NEW space \in {"address", "service"}, NEW l \in Locs,
                      NewGroup(Slot(space, n, l))
               PROVE  /\ \A it \in Groupable : Resolve(DOMAIN working', space, it.name, l) = IdOf(it)
                      /\ \A r \in Refs(working) :
                            Target(DOMAIN working', r) # Target(DOMAIN working, r)
                              => (Target(DOMAIN working, r) = Nil \/ ShadowWarned(working, Slot(space, n, l)))
    OBVIOUS
  <2> DEFINE id == Slot(space, n, l)
  <2>1. id.space = space /\ id.name = n /\ id.loc = l
    BY DEF Slot
  <2> HIDE DEF id
  <2>2. /\ id \in Ids /\ id \notin DOMAIN working /\ DOMAIN working' = DOMAIN working \cup {id}
        /\ \A it \in Groupable : it.name # n /\ Resolve(DOMAIN working, space, it.name, l) = IdOf(it)
    BY <1>1, NewGroupStep DEF id
  <2>3. ASSUME NEW it \in Groupable PROVE Resolve(DOMAIN working', space, it.name, l) = IdOf(it)
    BY <2>1, <2>2, ResolveOthers
  <2>4. ASSUME NEW r \in Refs(working),
               Target(DOMAIN working', r) # Target(DOMAIN working, r),
               Target(DOMAIN working, r) # Nil
        PROVE  ShadowWarned(working, id)
    <3> DEFINE old == Target(DOMAIN working, r)
    <3>1. IsConfig(working)
      BY <1>1 DEF IInv, TypeOK
    <3>2. r.name \in Names /\ r.by.loc \in Locs /\ NsOf(r.field) \in Spaces
      BY <3>1, RefsType
    <3>3. NsOf(r.field) = space /\ r.name = n
      BY <2>1, <2>2, <2>4, ResolveOthers DEF Target
    <3>4. old \in DOMAIN working /\ old \in Ids /\ old.space = space /\ old.name = n
      <4> DEFINE live == DOMAIN working
      <4>1. old = Resolve(live, space, n, r.by.loc)
        BY <3>3 DEF Target
      <4>2. space \in Spaces /\ n \in Names
        BY <3>2, <3>3
      <4> HIDE DEF live, old
      <4>3. old \in live /\ old \in Ids /\ old.space = space /\ old.name = n
        <5>1. Resolve(live, space, n, r.by.loc) # Nil
          BY <2>4, <4>1 DEF old
        <5>2. r.by.loc \in Locs
          BY <3>2
        <5> DEFINE loc == r.by.loc
                   hit == Resolve(live, space, n, loc)
        <5>3. hit \in live /\ hit \in Ids /\ hit.space = space /\ hit.name = n
          <6>1. loc \in Locs /\ hit # Nil
            BY <5>1, <5>2
          <6> HIDE DEF loc
          <6>2. hit \in live /\ hit \in Ids
            BY <4>2, <6>1, ResolveProperties
          <6>3. hit.space = space /\ hit.name = n
            BY <4>2, <6>1, ResolveProperties
          <6> QED
            BY <6>2, <6>3
        <5> QED
          BY <4>1, <5>3
      <4> QED
        BY <4>3 DEF live
    <3> HIDE DEF old
    <3>5. old.loc # l
      BY <2>1, <2>2, <3>4 DEF Ids
    <3> QED
      BY <2>1, <3>4, <3>5 DEF ShadowWarned
  <2> QED
    BY <2>3, <2>4 DEF id
<1>2. IInv /\ [Next]_vars => [Good]_vars
  BY <1>1
<1> QED
  BY <1>2, WorkbenchInvariant, PTL DEF Spec, NewGroupsBindTheirPicks
====
