------------------------- MODULE DeviceGroupsProofs -------------------------
(***************************************************************************)
(* The two hierarchy loops compute the reference, for every set of groups  *)
(* and every set of links, cyclic or cut.                                  *)
(***************************************************************************)
EXTENDS DeviceGroups, PlanProofs

(* The walk up: the chain is a path of links from the argument to where    *)
(* the walk stands, and remembers exactly what it holds.                   *)
Up ==
    pc = "up" =>
        /\ arg \in known \cup {NoGroup}
        /\ chain \in Seq(known) /\ IsInjective(chain) /\ ToSet(chain) = seen
        /\ IF chain = <<>> THEN cur = arg
           ELSE chain[1] = arg /\ Parent(chain[Len(chain)]) = cur
        /\ \A k \in 1 .. Len(chain) - 1 : Parent(chain[k]) = chain[k + 1]
        /\ (seen \cup {cur}) \ {NoGroup} \subseteq {arg} \cup Above(arg)

(* The descent: every group looked at is in the answer exactly if the      *)
(* argument is above it; the walk from the one it looks at has been at     *)
(* groups above that one and has not met the argument.                     *)
Answered(D) == \A d \in D : d \in out <=> arg \in Above(d)

Down ==
    /\ pc \in {"each", "walk"} =>
        chain = <<>> /\ arg \in known /\ todo \subseteq known /\ out \subseteq known \ todo
    /\ pc = "each" => Answered(known \ todo)
    /\ pc = "walk" =>
        /\ dg \in known \ (todo \cup out)
        /\ Answered(known \ (todo \cup {dg}))
        /\ seen \subseteq Above(dg) \ {arg}
        /\ cur \in Above(dg) \cup {NoGroup}
        /\ HoldsParent(seen \cup {cur}, dg)
        /\ \A x \in seen : HoldsParent(seen \cup {cur}, x)

IInv == TypeOK /\ pc \in {"idle", "up", "each", "walk"} /\ Up /\ Down
        /\ AncestorsAreAbove /\ DescendantsAreBelow

-----------------------------------------------------------------------------
(* The parent of a group is a group, or there is none.                     *)
LEMMA ParentKnown == ASSUME TypeOK PROVE \A d : Parent(d) \in known \cup {NoGroup}
BY DEF TypeOK, Parent

LEMMA NoGroupUnknown == ASSUME TypeOK PROVE NoGroup \notin known /\ Shared \notin known
BY GroupsAssumption DEF TypeOK

(* What is above a group is closed under parents.                          *)
LEMMA AboveHoldsParents ==
    ASSUME TypeOK, NEW d
    PROVE  /\ HoldsParent(Above(d), d)
           /\ \A x \in Above(d) : HoldsParent(Above(d), x)
<1>1. ASSUME NEW x \in Above(d) \cup {d}, Parent(x) # NoGroup PROVE Parent(x) \in Above(d)
  <2>1. Parent(x) \in known
    BY <1>1, ParentKnown
  <2>2. ASSUME NEW S \in SUBSET known, HoldsParent(S, d), \A y \in S : HoldsParent(S, y)
        PROVE  Parent(x) \in S
    <3>1. x \in S \/ x = d
      BY <2>2 DEF Above
    <3> QED
      BY <1>1, <2>2, <3>1 DEF HoldsParent
  <2> QED
    BY <2>1, <2>2 DEF Above
<1> QED
  BY <1>1 DEF HoldsParent

(* It is the least such set.                                               *)
LEMMA AboveLeast ==
    ASSUME NEW d, NEW S \in SUBSET known, HoldsParent(S, d), \A x \in S : HoldsParent(S, x)
    PROVE  Above(d) \subseteq S
BY DEF Above

(* It does not depend on the walk.                                         *)
LEMMA AboveUnchanged ==
    ASSUME UNCHANGED <<known, parents>>
    PROVE  \A d : Above(d)' = Above(d) /\ Parent(d)' = Parent(d)
BY DEF Above, HoldsParent, Parent
-----------------------------------------------------------------------------
(* Initially, and by every step.                                           *)
LEMMA InitIInv == Init => IInv
<1> SUFFICES ASSUME Init PROVE IInv
  OBVIOUS
<1>1. PICK mirror \in [Groups -> Groups \cup {NoGroup}] : parents = Links(mirror, known)
  BY DEF Init
<1>2. TypeOK
  BY <1>1 DEF Init, TypeOK, Links
<1> QED
  BY <1>2 DEF Init, IInv, Up, Down, AncestorsAreAbove, DescendantsAreBelow

(* The walk up starts, climbs, and ends at the top.                        *)
LEMMA AncestorsStep ==
    ASSUME IInv, NEW d \in known \cup {NoGroup}, Ancestors(d) PROVE IInv'
<1>1. TypeOK'
  BY EmptyDistinct DEF IInv, TypeOK, Ancestors
<1>2. Up'
  BY EmptyDistinct DEF Ancestors, Up
<1> QED
  BY <1>1, <1>2 DEF Ancestors, IInv, Down, AncestorsAreAbove, DescendantsAreBelow

LEMMA ClimbStep == ASSUME IInv, Climb PROVE IInv'
<1> USE DEF IInv
<1>1. /\ pc = "up" /\ pc' = "up" /\ cur \in known \ seen
      /\ seen' = seen \cup {cur} /\ chain' = Append(chain, cur) /\ cur' = Parent(cur)
      /\ UNCHANGED <<known, parents, arg, todo, out>>
  BY DEF Climb, TypeOK
<1>2. /\ arg \in known \cup {NoGroup} /\ chain \in Seq(known) /\ IsInjective(chain) /\ ToSet(chain) = seen
      /\ chain = <<>> => cur = arg
      /\ chain # <<>> => chain[1] = arg /\ Parent(chain[Len(chain)]) = cur
      /\ \A k \in 1 .. Len(chain) - 1 : Parent(chain[k]) = chain[k + 1]
      /\ (seen \cup {cur}) \ {NoGroup} \subseteq {arg} \cup Above(arg)
  BY <1>1 DEF Up
<1>3. /\ chain' \in Seq(known) /\ IsInjective(chain') /\ ToSet(chain') = seen'
  BY <1>1, <1>2, AppendDistinct
<1>4. /\ Len(chain) \in Nat /\ Len(chain') = Len(chain) + 1 /\ chain' # <<>>
      /\ chain'[Len(chain) + 1] = cur /\ \A k \in 1 .. Len(chain) : chain'[k] = chain[k]
  BY <1>1, <1>2, AppendProperties
<1>5. /\ \A x : Parent(x)' = Parent(x)
      /\ Above(arg)' = Above(arg)
  BY <1>1, AboveUnchanged
<1>6. chain'[1] = arg
  <2>1. CASE chain = <<>>
    BY <2>1, <1>2, <1>4
  <2>2. CASE chain # <<>>
    BY <2>2, <1>2, <1>4
  <2> QED
    BY <2>1, <2>2
<1>7. Parent(chain'[Len(chain')]) = cur'
  BY <1>1, <1>4
<1>8. ASSUME NEW k \in 1 .. Len(chain') - 1 PROVE Parent(chain'[k]) = chain'[k + 1]
  <2>1. CASE k < Len(chain)
    BY <2>1, <1>2, <1>4
  <2>2. CASE k = Len(chain)
    <3>1. chain # <<>> /\ k \in 1 .. Len(chain)
      BY <2>2, <1>4
    <3> QED
      BY <2>2, <3>1, <1>2, <1>4
  <2> QED
    BY <2>1, <2>2, <1>4
<1>9. (seen' \cup {cur'}) \ {NoGroup} \subseteq {arg} \cup Above(arg)
  <2>1. cur \in {arg} \cup Above(arg)
    BY <1>1, <1>2, NoGroupUnknown
  <2>2. HoldsParent(Above(arg), cur)
    BY <2>1, AboveHoldsParents
  <2> QED
    BY <1>1, <1>2, <2>1, <2>2 DEF HoldsParent
<1>10. TypeOK'
  <2>1. Seq(known) \subseteq Seq(known \cup {Shared})
    OBVIOUS
  <2> QED
    BY <1>1, <1>3, <2>1, ParentKnown DEF TypeOK
<1>11. Up'
  BY <1>1, <1>2, <1>3, <1>4, <1>5, <1>6, <1>7, <1>8, <1>9 DEF Up
<1> QED
  BY <1>1, <1>10, <1>11 DEF Down, AncestorsAreAbove, DescendantsAreBelow

LEMMA TopStep == ASSUME IInv, Top PROVE IInv'
<1> USE DEF IInv
<1>1. /\ pc = "up" /\ pc' = "idle" /\ cur \in seen \cup {NoGroup}
      /\ chain' = Append(chain, Shared)
      /\ UNCHANGED <<known, parents, arg, cur, seen, todo, dg, out>>
  BY DEF Top
<1>2. /\ arg \in known \cup {NoGroup} /\ chain \in Seq(known) /\ IsInjective(chain) /\ ToSet(chain) = seen
      /\ chain = <<>> => cur = arg
      /\ chain # <<>> => chain[1] = arg /\ Parent(chain[Len(chain)]) = cur
      /\ \A k \in 1 .. Len(chain) - 1 : Parent(chain[k]) = chain[k + 1]
      /\ (seen \cup {cur}) \ {NoGroup} \subseteq {arg} \cup Above(arg)
  BY <1>1 DEF Up
<1>3. NoGroup \notin known /\ Shared \notin known /\ seen \subseteq known
  BY NoGroupUnknown DEF TypeOK
<1>4. /\ chain' \in Seq(known \cup {Shared}) /\ IsInjective(chain')
      /\ ToSet(chain') = seen \cup {Shared}
  <2>1. chain \in Seq(known \cup {Shared})
    BY DEF TypeOK
  <2> QED
    BY <2>1, <1>1, <1>2, <1>3, AppendDistinct
<1>5. /\ Len(chain) \in Nat /\ Len(chain') = Len(chain) + 1 /\ chain' # <<>>
      /\ chain'[Len(chain) + 1] = Shared /\ \A k \in 1 .. Len(chain) : chain'[k] = chain[k]
  <2>1. chain \in Seq(known \cup {Shared})
    BY DEF TypeOK
  <2> QED
    BY <2>1, <1>1, AppendProperties
<1>6. CASE arg = NoGroup
  <2>1. chain = <<>>
    <3>1. chain # <<>> => 1 \in 1 .. Len(chain) /\ chain[1] \in known
      BY <1>2, <1>5
    <3> QED
      BY <3>1, <1>2, <1>3, <1>6
  <2>2. seen = {}
    BY <2>1, <1>2 DEF ToSet
  <2> QED
    BY <1>1, <1>4, <1>5, <1>6, <2>1, <2>2 DEF TypeOK, Up, Down, AncestorsAreAbove, DescendantsAreBelow, Last
<1>7. CASE arg # NoGroup
  <2>1. chain # <<>> /\ 1 \in 1 .. Len(chain) /\ Len(chain) \in 1 .. Len(chain)
    <3>1. chain = <<>> => seen = {}
      BY <1>2 DEF ToSet
    <3>2. chain # <<>>
      BY <3>1, <1>1, <1>2, <1>7
    <3> QED
      BY <3>2, <1>2, <1>5
  <2>2. arg \in seen /\ arg = chain[1]
    BY <2>1, <1>2 DEF ToSet
  <2>3. ASSUME NEW x \in seen PROVE HoldsParent(seen, x)
    <3>1. PICK k \in 1 .. Len(chain) : chain[k] = x
      BY <1>2, <1>5 DEF ToSet
    <3>2. CASE k = Len(chain)
      BY <3>1, <3>2, <2>1, <1>1, <1>2 DEF HoldsParent
    <3>3. CASE k \in 1 .. Len(chain) - 1
      <4>1. k + 1 \in DOMAIN chain
        BY <3>3, <1>2, <1>5
      <4> QED
        BY <3>1, <3>3, <4>1, <1>2 DEF HoldsParent, ToSet
    <3> QED
      BY <3>1, <3>2, <3>3, <1>5
  <2>4. Above(arg) \subseteq seen
    BY <1>3, <2>2, <2>3, AboveLeast
  <2>5. seen = {arg} \cup Above(arg)
    BY <2>2, <2>4, <1>2, <1>3
  <2>6. Above(arg)' = Above(arg) /\ \A x : Parent(x)' = Parent(x)
    BY <1>1, AboveUnchanged
  <2>7. \A k \in 1 .. Len(chain') - 2 : Parent(chain'[k]) = chain'[k + 1]
    <3> TAKE k \in 1 .. Len(chain') - 2
    <3>1. k \in 1 .. Len(chain) - 1 /\ k \in 1 .. Len(chain) /\ k + 1 \in 1 .. Len(chain)
      BY <1>5
    <3> QED
      BY <3>1, <1>2, <1>5
  <2>8. AncestorsAreAbove'
    BY <1>1, <1>4, <1>5, <1>7, <2>5, <2>6, <2>7 DEF AncestorsAreAbove, Last
  <2> QED
    BY <1>1, <1>4, <1>5, <2>8 DEF TypeOK, Up, Down, DescendantsAreBelow
<1> QED
  BY <1>6, <1>7

-----------------------------------------------------------------------------
(* The descent starts, takes up a group, walks from it, and returns.       *)
LEMMA DescendantsStep == ASSUME IInv, NEW d \in known, Descendants(d) PROVE IInv'
<1>1. TypeOK'
  BY EmptyDistinct DEF IInv, TypeOK, Descendants
<1>2. Down'
  BY DEF Descendants, Down, Answered
<1> QED
  BY <1>1, <1>2 DEF Descendants, IInv, Up, AncestorsAreAbove, DescendantsAreBelow

LEMMA EachStep == ASSUME IInv, Each PROVE IInv'
<1> USE DEF IInv
<1>1. PICK d \in todo : dg' = d /\ todo' = todo \ {d} /\ cur' = Parent(d)
  BY DEF Each
<1>2. /\ pc = "each" /\ pc' = "walk" /\ seen' = {}
      /\ UNCHANGED <<known, parents, arg, chain, out>>
  BY DEF Each
<1>3. /\ chain = <<>> /\ arg \in known /\ d \in known /\ todo \subseteq known
      /\ out \subseteq known \ todo
      /\ Answered(known \ todo)
  BY <1>2, <1>1 DEF Down
<1>4. \A x : Above(x)' = Above(x) /\ Parent(x)' = Parent(x)
  BY <1>2, AboveUnchanged
<1>5. TypeOK'
  BY <1>1, <1>2, <1>3, ParentKnown DEF TypeOK
<1>6. HoldsParent(Above(d), d)
  BY AboveHoldsParents
<1>7. Down'
  <2>1. Above(dg)' = Above(d) /\ Parent(dg)' = Parent(d)
    BY <1>1, <1>2 DEF Above, HoldsParent, Parent
  <2>2. Answered(known \ (todo \cup {dg}))'
    <3>1. known' \ (todo' \cup {dg'}) = known \ todo
      BY <1>1, <1>2, <1>3
    <3> QED
      BY <1>2, <1>3, <1>4, <3>1 DEF Answered
  <2>3. (cur \in Above(dg) \cup {NoGroup})' /\ HoldsParent(seen \cup {cur}, dg)'
    BY <1>1, <1>2, <1>6, <2>1 DEF HoldsParent
  <2>4. (dg \in known \ (todo \cup out))' /\ (out \subseteq known \ todo)'
    BY <1>1, <1>2, <1>3
  <2> QED
    BY <1>1, <1>2, <1>3, <2>2, <2>3, <2>4 DEF Down
<1> QED
  BY <1>2, <1>5, <1>7 DEF Up, AncestorsAreAbove, DescendantsAreBelow

LEMMA WalkStep == ASSUME IInv, Walk PROVE IInv'
<1> USE DEF IInv
<1>1. pc = "walk" /\ UNCHANGED <<known, parents, arg, chain, todo, dg>>
  BY DEF Walk
<1>2. /\ chain = <<>> /\ arg \in known /\ todo \subseteq known /\ out \subseteq known \ todo
      /\ dg \in known \ (todo \cup out)
      /\ Answered(known \ (todo \cup {dg}))
      /\ seen \subseteq Above(dg) \ {arg}
      /\ cur \in Above(dg) \cup {NoGroup}
      /\ HoldsParent(seen \cup {cur}, dg)
      /\ \A x \in seen : HoldsParent(seen \cup {cur}, x)
  BY <1>1 DEF Down
<1>3. \A x : Above(x)' = Above(x) /\ Parent(x)' = Parent(x)
  BY <1>1, AboveUnchanged
<1>4. NoGroup \notin known /\ seen \subseteq known /\ Above(dg) \subseteq known
  BY NoGroupUnknown DEF TypeOK, Above
<1>5. CASE cur = arg /\ out' = out \cup {dg} /\ pc' = "each" /\ UNCHANGED <<cur, seen>>
  <2>1. arg \in Above(dg)
    BY <1>2, <1>4, <1>5
  <2>2. Answered(known \ todo)'
    BY <1>1, <1>2, <1>3, <1>5, <2>1 DEF Answered
  <2>3. Down'
    BY <1>1, <1>2, <1>5, <2>2 DEF Down
  <2> QED
    BY <1>1, <1>2, <1>5, <2>3 DEF TypeOK, Up, AncestorsAreAbove, DescendantsAreBelow
<1>6. CASE cur \in known \ seen /\ cur # arg /\ seen' = seen \cup {cur} /\ cur' = Parent(cur)
           /\ UNCHANGED <<out, pc>>
  <2>1. cur \in Above(dg)
    BY <1>2, <1>4, <1>6
  <2>2. HoldsParent(Above(dg), cur)
    BY <2>1, AboveHoldsParents
  <2>3. cur' \in Above(dg) \cup {NoGroup}
    BY <1>6, <2>2 DEF HoldsParent
  <2>4. HoldsParent(seen' \cup {cur'}, dg) /\ \A x \in seen' : HoldsParent(seen' \cup {cur'}, x)
    BY <1>2, <1>6 DEF HoldsParent
  <2>5. Down'
    BY <1>1, <1>2, <1>3, <1>6, <2>1, <2>3, <2>4 DEF Down, Answered, HoldsParent
  <2>6. TypeOK'
    BY <1>1, <1>6, ParentKnown DEF TypeOK
  <2> QED
    BY <1>1, <1>6, <2>5, <2>6 DEF Up, AncestorsAreAbove, DescendantsAreBelow
<1>7. CASE cur \in seen \cup {NoGroup} /\ pc' = "each" /\ UNCHANGED <<cur, seen, out>>
  <2>1. HoldsParent(seen, dg) /\ \A x \in seen : HoldsParent(seen, x)
    BY <1>2, <1>7 DEF HoldsParent
  <2>2. arg \notin Above(dg)
    BY <1>2, <1>4, <2>1, AboveLeast
  <2>3. Answered(known \ todo)'
    BY <1>1, <1>2, <1>3, <1>7, <2>2 DEF Answered
  <2>4. Down'
    BY <1>1, <1>2, <1>7, <2>3 DEF Down
  <2> QED
    BY <1>1, <1>7, <2>4 DEF TypeOK, Up, AncestorsAreAbove, DescendantsAreBelow
<1> QED
  BY <1>1, <1>5, <1>6, <1>7 DEF Walk

LEMMA ReturnStep == ASSUME IInv, Return PROVE IInv'
<1> USE DEF IInv
<1>1. /\ pc = "each" /\ todo = {} /\ pc' = "idle"
      /\ UNCHANGED <<known, parents, arg, cur, seen, chain, todo, dg, out>>
  BY DEF Return
<1>2. \A x : Above(x)' = Above(x)
  BY <1>1, AboveUnchanged
<1>3. chain = <<>> /\ out \subseteq known /\ \A d \in known : d \in out <=> arg \in Above(d)
  BY <1>1 DEF Down, Answered
<1>4. DescendantsAreBelow'
  BY <1>1, <1>2, <1>3 DEF DescendantsAreBelow
<1> QED
  BY <1>1, <1>3, <1>4 DEF TypeOK, Up, Down, AncestorsAreAbove

(* The inductive invariant holds in every reachable state.                 *)
THEOREM HierarchyInvariant == Spec => []IInv
<1>1. IInv /\ [Next]_vars => IInv'
  <2> SUFFICES ASSUME IInv, [Next]_vars PROVE IInv'
    OBVIOUS
  <2>1. CASE Next
    BY <2>1, AncestorsStep, DescendantsStep, ClimbStep, TopStep, EachStep, WalkStep, ReturnStep
       DEF Next, Loop
  <2>2. CASE UNCHANGED vars
    <3>1. UNCHANGED <<known, parents, pc, arg, cur, seen, chain, todo, dg, out>>
      BY <2>2 DEF vars
    <3>2. \A x : Above(x)' = Above(x) /\ Parent(x)' = Parent(x)
      BY <3>1, AboveUnchanged
    <3>3. TypeOK'
      BY <3>1 DEF IInv, TypeOK
    <3>4. Up'
      BY <3>1, <3>2 DEF IInv, Up
    <3>5. Down'
      BY <3>1, <3>2 DEF IInv, Down, Answered, HoldsParent
    <3>6. AncestorsAreAbove' /\ DescendantsAreBelow'
      BY <3>1, <3>2 DEF IInv, AncestorsAreAbove, DescendantsAreBelow
    <3> QED
      BY <3>1, <3>3, <3>4, <3>5, <3>6 DEF IInv
  <2> QED
    BY <2>1, <2>2
<1> QED
  BY <1>1, InitIInv, PTL DEF Spec

(* The walks never leave the device-groups that carry configuration.       *)
THEOREM HierarchyTypes == Spec => []TypeOK
BY HierarchyInvariant, PTL DEF IInv

(* ancestors returns the group, every group above it and shared, each once *)
(* and every location before its parent, on cyclic and cut links too.      *)
THEOREM AncestorsTheorem == Spec => []AncestorsAreAbove
BY HierarchyInvariant, PTL DEF IInv

(* descendant_dgs returns exactly the groups the argument is above, in     *)
(* whatever order it looks at them.                                        *)
THEOREM DescendantsTheorem == Spec => []DescendantsAreBelow
BY HierarchyInvariant, PTL DEF IInv
=============================================================================
