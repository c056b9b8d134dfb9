--------------------------- MODULE TeardownPlans ---------------------------
(***************************************************************************)
(* Reference-safe removal of objects: the plans of `psc decommission` and  *)
(* `psc delete` (psc/core/decommission.py, purge.py).  The two planners    *)
(* share one safety model and differ in what they may remove, which fields *)
(* they scrub and which emptied fields orphan a rule; a command names its  *)
(* planner in `op`.                                                        *)
(***************************************************************************)
EXTENDS ChangeSets

(* A command: its planner, the identities the operator named, its flags.   *)
Commands == [op : {"none", "decommission", "purge"}, targets : SUBSET ObjectIds,
             keepGroups : BOOLEAN, keepRules : BOOLEAN]

-----------------------------------------------------------------------------
(* Phase 1: the delete set grows by the groups it empties.                 *)

ListField(kind) == IF kind = "address-group" THEN "static" ELSE "members"

MemberRefs(c, g) ==
    LET f == ListField(c[g].kind)
    IN  {[by |-> g, field |-> f, name |-> m] : m \in c[g].fields[f]}

(* Faulty variant: the loop looks at address-groups only. *)
NewlyEmptyAddressGroups(c, dead) ==
    {g \in DOMAIN c \ dead :
        /\ c[g].kind = "address-group"
        /\ MemberRefs(c, g) # {}
        /\ \A r \in MemberRefs(c, g) : Breaks(c, r, dead)}

(* Static groups none of whose member names resolves any more. *)
NewlyEmptyGroups(c, dead) ==
    {g \in DOMAIN c \ dead :
        /\ c[g].kind \in {"address-group", "service-group"}
        /\ MemberRefs(c, g) # {}
        /\ \A r \in MemberRefs(c, g) : Breaks(c, r, dead)}

(* The targets the planner keeps: decommission is handed objects it has    *)
(* found, purge resolves names and refuses the ones that name nothing.     *)
Matched(c, cm) == cm.targets \cap DOMAIN c

-----------------------------------------------------------------------------
(* Phase 2: the references the delete set touches.                         *)

NestedFields == {"translation", "nexthop"}

Scrubbable(c, cm, r) ==
    LET kind == c[r.by].kind IN
    IF cm.op = "decommission"
    THEN r.field \in {"static", "source", "destination"}
    ELSE r.field \in {"static", "members"} \/ (kind \in RuleSpaces /\ r.field \in RuleFlatFields)

(* An object's own tag list, which no edit can rewrite. *)
OwnTag(c, r) == r.field = "tag" /\ c[r.by].kind \notin RuleSpaces

InReach(c, cm, r) ==
    \/ Scrubbable(c, cm, r)
    \/ r.field \in NestedFields
    \/ cm.op = "purge" /\ OwnTag(c, r)

RefsInto(c, cm, dead) ==
    {r \in Refs(c) : Target(DOMAIN c, r) \in dead /\ InReach(c, cm, r)}

(* Faulty variant: the scrub asks only whether the target itself goes. *)
TouchedIgnoringShadows(c, cm, dead) == RefsInto(c, cm, dead)

(* A reference that still resolves keeps its name, except that keepGroups  *)
(* takes the member out of a flat list whatever the name means afterwards. *)
Touched(c, cm, dead) ==
    {r \in RefsInto(c, cm, dead) :
        Breaks(c, r, dead) \/ (cm.keepGroups /\ Scrubbable(c, cm, r))}

ScrubEdits(c, cm, touched) ==
    [k \in {<<r.by, r.field>> : r \in {t \in touched : ~OwnTag(c, t)}} |->
        c[k[1]].fields[k[2]]
            \ {r.name : r \in {t \in touched :
                t.by = k[1] /\ t.field = k[2] /\ Scrubbable(c, cm, t)}}]

(* Faulty variant: the note is lost. *)
NoNotes(c, cm, dead) == {}

(* fall_through_note: the name stays and now means another object.         *)
FallThrough(c, cm, dead) ==
    IF cm.keepGroups THEN {}
    ELSE {r \in RefsInto(c, cm, dead) : ~Breaks(c, r, dead)}

-----------------------------------------------------------------------------
(* Phases 3 to 6: blockers, orphaned rules, the plan.                      *)

(* Faulty variant: only the objects named by the operator are looked at,   *)
(* never their tags.                                                       *)
DagBlocksByNameOnly(c, cm, dead) ==
    \E g \in DOMAIN c : c[g].kind = "dynamic-group" /\ g \in dead

(* A dynamic group that stays and selects, by tag, what the operator named.*)
DagBlocks(c, cm, dead) ==
    LET tags == UNION {c[t].fields["tag"] :
                          t \in {u \in Matched(c, cm) : c[u].kind = "address"}}
                \cup {t.name : t \in {u \in Matched(c, cm) : u.space = "tag"}}
    IN  /\ ~cm.keepGroups
        /\ \E g \in DOMAIN c :
            /\ c[g].kind = "dynamic-group"
            /\ cm.op = "purge" => g \notin dead
            /\ tags \cap FilterTags(c[g]) # {}

(* A surviving object carries a tag that goes: psc cannot rewrite the list.*)
TagBlocks(c, touched, dead) ==
    \E r \in touched : OwnTag(c, r) /\ r.by \notin dead

RequiredFields(op) ==
    IF op = "decommission" THEN {"source", "destination"}
    ELSE {"source", "destination", "service", "application"}

(* Faulty variant: only an emptied source orphans a rule. *)
OrphanedBySourceOnly(c, cm, edits) ==
    {k[1] : k \in {e \in DOMAIN edits :
        c[e[1]].kind \in RuleSpaces /\ e[2] = "source" /\ edits[e] = {}}}

(* Rules the scrub leaves with an empty required field. *)
Orphaned(c, cm, edits) ==
    {k[1] : k \in {e \in DOMAIN edits :
        /\ c[e[1]].kind \in RuleSpaces
        /\ e[2] \in RequiredFields(cm.op)
        /\ edits[e] = {}}}

(* The operations, before any blocker is looked at. *)
Draft(c, cm, dead) ==
    LET edits   == ScrubEdits(c, cm, Touched(c, cm, dead))
        orphans == IF cm.keepRules THEN {} ELSE Orphaned(c, cm, edits)
        deletes == IF cm.keepGroups THEN {} ELSE dead
        kept    == {k \in DOMAIN edits : c[k[1]].kind \in RuleSpaces \/ k[1] \notin dead}
    IN  [EmptyPlan EXCEPT
            !.edits       = [k \in kept |-> edits[k]],
            !.ruleDeletes = orphans,
            !.deletes     = deletes,
            !.notes       = {r \in FallThrough(c, cm, dead) : r.by \notin orphans \cup deletes}]

Blocked(c, cm, dead) ==
    \/ cm.op = "purge" /\ ~(cm.targets \subseteq DOMAIN c)
    \/ TagBlocks(c, Touched(c, cm, dead), dead)
    \/ DagBlocks(c, cm, dead)
    \/ GateBlocks(c, Draft(c, cm, dead))

(* plan_decommission, plan_purge. *)
PlanTeardown(c, cm, dead) ==
    IF Matched(c, cm) = {}
    THEN [EmptyPlan EXCEPT !.blocked = (cm.op = "purge" /\ cm.targets # {})]
    ELSE Sealed([Draft(c, cm, dead) EXCEPT !.blocked = Blocked(c, cm, dead)])

(* The delete set of a planner run to its end: the cascade of groups stops *)
(* at the least set that leaves no group emptied (Teardown walks there one *)
(* group at a time).                                                       *)
Cascade(c, cm) ==
    LET groups == {g \in DOMAIN c : c[g].kind \in {"address-group", "service-group"}}
        closed == {Matched(c, cm) \cup gs : gs \in SUBSET groups}
    IN  IF cm.keepGroups THEN Matched(c, cm)
        ELSE CHOOSE s \in closed :
                /\ NewlyEmptyGroups(c, s) = {}
                /\ \A t \in closed : NewlyEmptyGroups(c, t) = {} => s \subseteq t
=============================================================================
