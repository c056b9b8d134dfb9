---------------------------- MODULE PromotePlans ----------------------------
(***************************************************************************)
(* Promoting a bucket of duplicates (psc/core/promote.py): one object at   *)
(* the destination takes the place of all copies.  `ordered` is the bucket *)
(* in rank order, shared first.                                            *)
(***************************************************************************)
EXTENDS MergePlans, MovePlans, SequencesExt

Elements(ordered) == {ordered[k] : k \in DOMAIN ordered}

(* _pick_survivor: without a name to keep the names must agree. *)
SurvivorName(ordered, keepName) ==
    IF keepName # Nil THEN keepName
    ELSE IF Cardinality({m.name : m \in Elements(ordered)}) = 1 THEN ordered[1].name ELSE Nil

(* The copy of that name nearest to shared. *)
Template(ordered, name) == ordered[Min({k \in DOMAIN ordered : ordered[k].name = name})]

(* _gate_group_equivalence, _check_same_value *)
OneBucket(c, template, members) ==
    IF c[template].kind \in AddressGroupKinds
    THEN \A m \in members : Equivalent(c, template, m)
    ELSE \A m \in members : SameValue(c[template], c[m])

-----------------------------------------------------------------------------
(* --cascade: every copy that is not at the destination brings its closure.*)

(* Who brings what under which name: the copy itself takes the name of the *)
(* survivor, what it needs keeps its own.                                  *)
Claims(c, ordered, dest, name) ==
    LET copies == {k \in DOMAIN ordered : ordered[k].loc # dest}
    IN  UNION {{[by |-> k, source |-> i, kind |-> Family(c[i].kind),
                 name |-> IF i = ordered[k] THEN name ELSE i.name] :
                    i \in Closure(c, ordered[k], dest)} : k \in copies}

SameClaim(x, y) == x.kind = y.kind /\ x.name = y.name

(* Faulty variant: the last claim silently wins. *)
ConflictNever(c, claims) == FALSE

(* Two copies bring different objects of one kind and name. *)
Conflict(c, claims) ==
    \E x, y \in claims : SameClaim(x, y) /\ ~SameValue(c[x.source], c[y.source])

(* Equal claims are folded: the first copy that has one brings it.         *)
Folded(claims) ==
    {CHOOSE x \in claims :
        /\ SameClaim(x, y)
        /\ \A z \in claims : SameClaim(z, y) => x.by <= z.by : y \in claims}

-----------------------------------------------------------------------------
(* What lands where: <<the object copied, its identity at the destination>>.*)
Landings(c, ordered, dest, name, cascade) ==
    IF cascade
    THEN {<<x.source, Slot(x.source.space, x.name, dest)>> :
             x \in Folded(Claims(c, ordered, dest, name))}
    ELSE {<<Template(ordered, name), [Template(ordered, name) EXCEPT !.loc = dest]>>}

(* A cascade leaves a copy that is at the destination alone, and what a    *)
(* staying object still needs.                                             *)
Departures(c, ordered, dest, name, cascade) ==
    LET copies  == Elements(ordered)
        sources == {x.source : x \in Claims(c, ordered, dest, name)}
    IN  IF cascade THEN {i \in sources : i \in copies \/ ~StillNeeded(c, i, sources)}
        ELSE copies \ {[Template(ordered, name) EXCEPT !.loc = dest]}

(* The gates before any operation is planned. *)
Unpromotable(c, ordered, dest, name, cascade) ==
    \/ name = Nil
    \/ ~OneBucket(c, Template(ordered, name), Elements(ordered))
    \/ \E m \in Elements(ordered) : m.loc # dest /\ PromotionBlocked(c, m, dest, ~cascade)
    \/ /\ cascade
       /\ \/ Conflict(c, Claims(c, ordered, dest, name))
          \/ \E x \in Folded(Claims(c, ordered, dest, name)) :
                PromotionBlocked(c, x.source, dest, FALSE)

(* _synthetic: name resolution sees the survivor where it will be. *)
Synthetic(c, survivor, entry) ==
    [i \in DOMAIN c \cup {survivor} |-> IF i \in DOMAIN c THEN c[i] ELSE entry]

(* plan_promote *)
PlanPromote(c, ordered, dest, keepName, cascade) ==
    LET name     == SurvivorName(ordered, keepName)
        template == Template(ordered, name)
        survivor == [template EXCEPT !.loc = dest]
        seen     == Synthetic(c, survivor, c[template])
        odd      == {m \in Elements(ordered) : m.name # name}
        repoints == Repointing(seen, survivor, odd, DOMAIN seen \ Elements(ordered))
        ops      == Promoting({Arrival(c, c[l[1]], l[2]) : l \in Landings(c, ordered, dest, name, cascade)},
                              Departures(c, ordered, dest, name, cascade))
    IN  IF Unpromotable(c, ordered, dest, name, cascade) \/ ops.blocked \/ repoints.blocked
        THEN Refusal
        ELSE Gated(seen, [ops EXCEPT !.edits = repoints.edits])

-----------------------------------------------------------------------------
(* --all: every bucket of a kind in one plan.                              *)

(* find_duplicate_addresses, _services, _tags and _groups. *)
Alike(c, i, j) ==
    /\ Family(c[i].kind) = Family(c[j].kind)
    /\ CASE c[i].kind \in AddressGroupKinds -> Equivalent(c, i, j)
         [] c[i].kind = "tag"               -> i.name = j.name
         [] OTHER                           -> c[i].value = c[j].value

(* Any two or more alike: the command line takes all of a value, the       *)
(* workbench the selected ones.                                            *)
AlikeSets(c, kind) ==
    {b \in SUBSET {i \in DOMAIN c : Family(c[i].kind) = kind} :
        Cardinality(b) >= 2 /\ \A i, j \in b : Alike(c, i, j)}

(* select_group_bucket: the groups of one name, alike or not.              *)
Namesakes(c) ==
    {b \in {{i \in AddressGroups(c) : i.name = n} : n \in Names} : Cardinality(b) >= 2}

PromotableKinds == {"address", "service", "address-group", "tag"}

(* The buckets of a kind an operator can select.                           *)
Selections(c, kind) ==
    AlikeSets(c, kind) \cup (IF kind = "address-group" THEN Namesakes(c) ELSE {})

Buckets(c, kind) ==
    {b \in {{j \in DOMAIN c : Alike(c, i, j)} : i \in {x \in DOMAIN c : Family(c[x].kind) = kind}} :
        Cardinality(b) >= 2}

Ranked(bucket) ==
    CHOOSE s \in [1..Cardinality(bucket) -> bucket] :
        /\ Elements(s) = bucket
        /\ \A i, j \in DOMAIN s : i < j => Len(Chain[s[i].loc]) <= Len(Chain[s[j].loc])

(* An empty group cannot be created: the planner raises, and the sweep     *)
(* ends there.                                                             *)
Raises(c, bucket, dest, cascade) ==
    LET ordered == Ranked(bucket)
        name    == SurvivorName(ordered, Nil)
    IN  /\ ~Unpromotable(c, ordered, dest, name, cascade)
        /\ \E l \in Landings(c, ordered, dest, name, cascade) :
            Memberless(c[l[1]]) /\ ~Defines(c, c[l[1]].kind, l[2])

(* _colliding_buckets: the first plan to define a name at the destination  *)
(* and every one that defines it differently.                              *)
Collides(plans, p) ==
    \E i \in DOMAIN p.upserts :
        LET rivals  == {q \in plans : i \in DOMAIN q.upserts /\ q.upserts[i].kind = p.upserts[i].kind}
            owner   == CHOOSE q \in rivals : TRUE
            differs(q) == q.upserts[i] # p.upserts[i]
        IN  IF p = owner THEN \E q \in rivals : differs(q) ELSE differs(owner)

(* _prune_retained_orphans: a copy of what is at the destination goes when *)
(* everything that refers to it goes.                                      *)
Pruned(c, dest, plan) ==
    LET at(i)      == [i EXCEPT !.loc = dest]
        copied(i)  == IF Defines(c, c[i].kind, at(i)) THEN SameValue(c[i], c[at(i)])
                      ELSE at(i) \in DOMAIN plan.upserts
                           /\ Family(plan.upserts[at(i)].kind) = Family(c[i].kind)
        copies     == {i \in DOMAIN c : /\ i.space \in ObjectSpaces /\ c[i].kind # "service-group"
                                        /\ Upward(i.loc, dest) /\ copied(i)}
        swept(s)   == s \cup {i \in copies : WhereUsed(c, {i}) # {} /\ ~StillNeeded(c, i, s)}
        gone[n \in 0..Cardinality(copies)] == IF n = 0 THEN plan.deletes ELSE swept(gone[n - 1])
    IN  [plan EXCEPT !.deletes = gone[Cardinality(copies)]]

(* plan_promote_all: what cannot be promoted is left out, it blocks no one.*)
PlanPromoteAll(c, kind, dest, cascade) ==
    LET plans == {p \in {PlanPromote(c, Ranked(b), dest, Nil, cascade) : b \in Buckets(c, kind)} :
                     ~p.blocked}
        kept  == {p \in plans : ~Collides(plans, p)}
    IN  IF \E b \in Buckets(c, kind) : Raises(c, b, dest, cascade) THEN Refusal
        ELSE Pruned(c, dest, Promoting(kept, UNION {p.deletes : p \in kept}))
=============================================================================
