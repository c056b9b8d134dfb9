----------------------------- MODULE MovePlans ------------------------------
(***************************************************************************)
(* Promoting one object towards shared (psc/core/relocate.py): created at  *)
(* the destination, deleted at the source, and every reference falls       *)
(* through to it.                                                          *)
(***************************************************************************)
EXTENDS AuthoringPlans

(* A device-group inherits from its parents in the order they do.          *)
ASSUME BranchAssumption ==
    \A l \in Locs : \A k \in DOMAIN Chain[l] :
        Chain[Chain[l][k]] = SubSeq(Chain[l], k, Len(Chain[l]))

(* An object's kind as commands name it: both modes of a group are one.    *)
Family(kind) == IF kind = "dynamic-group" THEN "address-group" ELSE kind

(* find_object: the object of that kind defined at the very location. *)
Defines(c, kind, id) == id \in DOMAIN c /\ Family(c[id].kind) = Family(kind)

(* same_value, of two entries of one kind: groups compare the names they   *)
(* list, tags always agree.                                                *)
SameValue(e, f) ==
    /\ e.value = f.value
    /\ \A x \in {"static", "members", "filter", "filter-not"} : e.fields[x] = f.fields[x]

-----------------------------------------------------------------------------
(* What an object needs: its members, its tags, the tags of its filter.    *)

Dependencies(e) ==
    {<<"tag", t>> : t \in e.fields["tag"] \cup FilterTags(e)}
        \cup {<<"address", m>> : m \in e.fields["static"]}
        \cup {<<"service", m>> : m \in e.fields["members"]}

DependsOn(c, dep, loc) == Resolve(DOMAIN c, dep[1], dep[2], loc)

(* Below the destination, from the source up. *)
Local(source, dest) ==
    LET k == CHOOSE n \in DOMAIN Chain[source] : Chain[source][n] = dest
    IN  {Chain[source][n] : n \in 1..(k - 1)}

Upward(source, dest) ==
    dest # source /\ \E k \in DOMAIN Chain[source] : Chain[source][k] = dest

(* The reference would fall through to something else than the destination.*)
ShadowedBelow(c, id, dest) ==
    \E l \in Local(id.loc, dest) \ {id.loc} : Slot(id.space, id.name, l) \in DOMAIN c

(* A dependency means something else, or nothing, at the destination.      *)
Uprooted(c, id, dest) ==
    \E dep \in Dependencies(c[id]) :
        DependsOn(c, dep, id.loc) \notin {Nil, DependsOn(c, dep, dest)}

(* promotion_blocker *)
PromotionBlocked(c, id, dest, checkDependencies) ==
    \/ ~Upward(id.loc, dest)
    \/ ShadowedBelow(c, id, dest)
    \/ checkDependencies /\ Uprooted(c, id, dest)

-----------------------------------------------------------------------------
(* The object at its destination: an equal one is adopted, another one     *)
(* blocks, otherwise it is created.                                        *)
Arrival(c, entry, id) ==
    IF Defines(c, entry.kind, id)
    THEN [EmptyPlan EXCEPT !.blocked = ~SameValue(entry, c[id])]
    ELSE PlanPut(c, id, entry)

(* _plan_cascade, cascade_closure: the object and what it needs, step by   *)
(* step, as far as it is defined below the destination.                    *)
Closure(c, root, dest) ==
    LET local == Local(root.loc, dest)
        needs(i) == {t \in {DependsOn(c, dep, i.loc) : dep \in Dependencies(c[i])} :
                        t # Nil /\ t.loc \in local}
        grown(s) == s \cup UNION {needs(i) : i \in s}
        reach[n \in 0..Cardinality(DOMAIN c)] == IF n = 0 THEN {root} ELSE grown(reach[n - 1])
    IN  reach[Cardinality(DOMAIN c)]

(* has_remaining_local_referrer *)
StillNeeded(c, id, leaving) ==
    \E r \in Refs(c) : Target(DOMAIN c, r) = id /\ r.by \notin leaving

(* A plan that promotes several objects at once. *)
Promoting(arrivals, deletes) ==
    [EmptyPlan EXCEPT
        !.upserts = [i \in UNION {DOMAIN p.upserts : p \in arrivals} |->
                        (CHOOSE p \in arrivals : i \in DOMAIN p.upserts).upserts[i]],
        !.deletes = deletes,
        !.blocked = \E p \in arrivals : p.blocked]

(* plan_move: with `cascade` the dependencies come along, and the ones a   *)
(* staying object still needs keep their copy.                             *)
PlanMove(c, id, dest, cascade) ==
    IF PromotionBlocked(c, id, dest, ~cascade) THEN Refusal
    ELSE LET moving == IF cascade THEN Closure(c, id, dest) ELSE {id}
         IN  IF \E i \in moving : PromotionBlocked(c, i, dest, FALSE) THEN Refusal
             ELSE Sealed(Promoting({Arrival(c, c[i], [i EXCEPT !.loc = dest]) : i \in moving},
                                   {id} \cup {i \in moving : ~StillNeeded(c, i, moving)}))
=============================================================================
