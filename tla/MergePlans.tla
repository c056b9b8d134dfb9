----------------------------- MODULE MergePlans -----------------------------
(***************************************************************************)
(* Collapsing duplicates onto a survivor (psc/core/dedup.py): every        *)
(* reference to what goes is rewritten to the survivor, or the plan is     *)
(* refused.                                                                *)
(***************************************************************************)
EXTENDS AuthoringPlans, Meaning

-----------------------------------------------------------------------------
(* Rewriting references. `renames` gives objects the name that their       *)
(* references take.                                                        *)

WhereUsed(c, ids) == {r \in Refs(c) : Target(DOMAIN c, r) \in ids}

(* field_members: the list an edit of a field starts from; a group answers *)
(* with its members whatever the field is.                                 *)
FieldMembers(c, by, field, name) ==
    IF c[by].kind \in GroupKinds \cup RuleSpaces
    THEN c[by].fields[Leaf(c[by].kind, field)] ELSE {name}

(* The edits of every field that names one of the objects by another name. *)
(* Edits of one field chain: each takes over what the one before left.     *)
Repoints(c, renames) ==
    LET refs     == {r \in WhereUsed(c, DOMAIN renames) : renames[Target(DOMAIN c, r)] # r.name}
        ref(k, m) == [by |-> k[1], field |-> k[2], name |-> m]
        after(k, m) == IF ref(k, m) \in refs THEN renames[Target(DOMAIN c, ref(k, m))] ELSE m
    IN  [k \in {<<r.by, r.field>> : r \in refs} |->
            {after(k, m) : m \in UNION {FieldMembers(c, k[1], k[2], r.name) :
                                           r \in {x \in refs : <<x.by, x.field>> = k}}}]

(* Faulty variant: the name has to mean something where it is written. *)
ReachesSomething(live, r, keep) == Resolve(live, "address", keep.name, r.by.loc) # Nil

(* Seen from the referrer, among what the plan leaves, the name of the     *)
(* survivor is the survivor.  Looked up among the addresses, whatever the  *)
(* kind of the bucket.                                                     *)
Reaches(live, r, keep) == Resolve(live, "address", keep.name, r.by.loc) = keep

(* plan_repoints, for all the objects that give way to one survivor.       *)
Repointing(c, keep, drops, live) ==
    [EmptyPlan EXCEPT
        !.edits   = Repoints(c, [d \in drops |-> keep.name]),
        !.blocked = \E r \in WhereUsed(c, drops) : ~Reaches(live, r, keep)]

(* Faulty variant: a blocked plan keeps its operations. *)
GatedOnly(c, plan) == [plan EXCEPT !.blocked = @ \/ GateBlocks(c, plan)]

Gated(c, plan) == Sealed([plan EXCEPT !.blocked = @ \/ GateBlocks(c, plan)])

-----------------------------------------------------------------------------
(* Addresses.                                                              *)

(* plan_merge, and with several drops plan_merge_bucket: what goes does    *)
(* not shadow the survivor.                                                *)
PlanMerge(c, keep, drops, allowValueChange) ==
    IF \/ \E i \in drops \cup {keep} : i \notin DOMAIN c \/ c[i].kind # "address"
       \/ keep \in drops
       \/ ~allowValueChange /\ \E d \in drops : c[d].value # c[keep].value
    THEN Refusal
    ELSE Gated(c, [Repointing(c, keep, drops, DOMAIN c \ drops) EXCEPT !.deletes = drops])

(* _reachable_by_referrers_of *)
Reachable(c, m, members) ==
    \A r \in WhereUsed(c, members \ {m}) : \E k \in DOMAIN Chain[r.by.loc] : Chain[r.by.loc][k] = m.loc

(* The survivor by default: the first, from shared downwards, that every   *)
(* referrer of the others can see.                                         *)
DefaultKeep(c, ordered) ==
    LET members == {ordered[k] : k \in DOMAIN ordered}
        seen    == {k \in DOMAIN ordered : Reachable(c, ordered[k], members)}
    IN  IF seen = {} THEN ordered[1] ELSE ordered[Min(seen)]

-----------------------------------------------------------------------------
(* Address groups.                                                         *)

(* Faulty variant: nested groups may be merged. *)
PlanMergeNested(c, keep, drop) ==
    IF keep = drop \/ ~({keep, drop} \subseteq AddressGroups(c)) \/ ~Equivalent(c, keep, drop)
    THEN Refusal
    ELSE Gated(c, [Repointing(c, keep, {drop}, DOMAIN c \ {drop}) EXCEPT !.deletes = {drop}])

(* plan_merge_group *)
PlanMergeGroup(c, keep, drop) ==
    IF \/ keep = drop
       \/ ~({keep, drop} \subseteq AddressGroups(c))
       \/ ~Equivalent(c, keep, drop)
       \/ drop \in Contained(c, keep) \/ keep \in Contained(c, drop)
    THEN Refusal
    ELSE Gated(c, [Repointing(c, keep, {drop}, DOMAIN c \ {drop}) EXCEPT !.deletes = {drop}])
=============================================================================
