--------------------------- MODULE AuthoringPlans ---------------------------
(***************************************************************************)
(* The plans that create objects and edit memberships (psc/core/crud.py,   *)
(* group_edit.py, rule_edit.py).  A planner that raises and one that       *)
(* records a blocker both refuse; neither leaves an operation to execute.  *)
(***************************************************************************)
EXTENDS ChangeSets

CONSTANT TypeOf  \* value -> its type: ip-netmask, fqdn, tcp, ...

ASSUME TypeOfAssumption == DOMAIN TypeOf = Values \cup {Nil}

Refusal == [EmptyPlan EXCEPT !.blocked = TRUE]

IsEmptyPlan(plan) ==
    /\ DOMAIN plan.upserts = {} /\ DOMAIN plan.edits = {} /\ DOMAIN plan.renames = {}
    /\ plan.ruleDeletes = {} /\ plan.deletes = {}

Putting(id, entry) == [EmptyPlan EXCEPT !.upserts = [i \in {id} |-> entry]]
Editing(id, field, members) == [EmptyPlan EXCEPT !.edits = [k \in {<<id, field>>} |-> members]]

GroupKinds == {"address-group", "dynamic-group", "service-group"}

-----------------------------------------------------------------------------
(* Create or update an object.                                             *)

Memberless(entry) ==
    entry.kind \in GroupKinds \ {"dynamic-group"} /\ entry.fields[Leaf(entry.kind, "members")] = {}

(* _collision_blocker, and for groups the mode that may not change.        *)
Taken(c, id, entry) == id \in DOMAIN c /\ c[id].kind # entry.kind

(* Faulty variant: an object of the sibling kind does not hinder.          *)
PlanPutOverSiblings(c, id, entry) ==
    LET same     == id \in DOMAIN c /\ c[id].kind = entry.kind
        switched == same /\ TypeOf[c[id].value] # TypeOf[entry.value]
    IN  IF Memberless(entry) \/ switched THEN Refusal ELSE Putting(id, entry)

(* plan_address, plan_address_group, plan_service, plan_service_group,     *)
(* plan_tag: the name may not belong to the sibling kind of its namespace, *)
(* and an update may not switch the type of a value or the mode of a group.*)
PlanPut(c, id, entry) ==
    LET switched == id \in DOMAIN c /\ TypeOf[c[id].value] # TypeOf[entry.value]
    IN  IF Memberless(entry) \/ Taken(c, id, entry) \/ switched THEN Refusal ELSE Putting(id, entry)

(* plan_import: every record is planned by itself against the configuration*)
(* as it was, and one blocker refuses the file.  What is not refused is    *)
(* put in the order of the file.                                           *)
ImportRefused(c, records) ==
    \E k \in DOMAIN records : PlanPut(c, records[k].id, records[k].entry).blocked

-----------------------------------------------------------------------------
(* A new group out of picked objects.                                      *)

(* Faulty variant: a pick only has to be visible under its name. *)
BindsSomething(c, pick, loc) == Resolve(DOMAIN c, pick.space, pick.name, loc) # Nil

(* _member_blocker: seen from the group, the name of the pick is the pick. *)
Binds(c, pick, loc) == Resolve(DOMAIN c, pick.space, pick.name, loc) = pick

GroupOf(picks, tags) ==
    LET kind == IF \A p \in picks : p.space = "address" THEN "address-group" ELSE "service-group"
    IN  [kind |-> kind, value |-> Nil,
         fields |-> [NoFields EXCEPT ![Leaf(kind, "members")] = {p.name : p \in picks}, !["tag"] = tags]]

PlanGroupCreate(c, id, picks, tags) ==
    IF \/ picks = {}
       \/ {p.space : p \in picks} # {id.space}
       \/ \E p \in picks : p.name = id.name
       \/ id \in DOMAIN c
       \/ \E p \in picks : ~Binds(c, p, id.loc)
    THEN Refusal
    ELSE Putting(id, GroupOf(picks, tags))

(* _shadow_warning: the name of the new group is in use elsewhere.         *)
ShadowWarned(c, id) ==
    \E i \in DOMAIN c : i.space = id.space /\ i.name = id.name /\ i.loc # id.loc

-----------------------------------------------------------------------------
(* One member more or less: the edit carries the whole new list.           *)

Rewritten(before, op, member) == IF op = "add" THEN before \cup {member} ELSE before \ {member}

(* The edit of `field` of the one candidate, if it changes anything.       *)
PlanRewrite(c, id, field, leaf, op, member) ==
    LET after == Rewritten(c[id].fields[leaf], op, member)
    IN  IF after = c[id].fields[leaf] THEN EmptyPlan ELSE Editing(id, field, after)

(* plan_group_member_edit, with the locations the operator lets it search. *)
PlanGroupMemberEdit(c, name, locs, op, member) ==
    LET groups == {i \in DOMAIN c : i.name = name /\ i.loc \in locs /\ c[i].kind \in GroupKinds}
        group  == CHOOSE i \in groups : TRUE
    IN  IF \/ op = "add" /\ member = name
           \/ Cardinality(groups) # 1
           \/ c[group].kind = "dynamic-group"
        THEN Refusal
        ELSE PlanRewrite(c, group, "members", Leaf(c[group].kind, "members"), op, member)

EditableFields == {"source", "destination", "service", "application"}

(* The rule the editor takes when one location holds several of the name.  *)
FirstRule(rules) ==
    LET of(space) == {r \in rules : r.space = space} IN
    IF of("security-rule") # {} THEN CHOOSE r \in of("security-rule") : TRUE
    ELSE IF of("nat-rule") # {} THEN CHOOSE r \in of("nat-rule") : TRUE
    ELSE CHOOSE r \in rules : TRUE

(* plan_rule_member_edit.                                                  *)
PlanRuleMemberEdit(c, name, locs, field, op, member) ==
    LET rules == {i \in DOMAIN c : i.name = name /\ i.loc \in locs /\ i.space \in RuleSpaces}
        rule  == FirstRule(rules)
    IN  IF \/ field \notin EditableFields
           \/ Cardinality({i.loc : i \in rules}) # 1
           \/ rule.space = "nat-rule" /\ field \in {"application", "service"}
           \/ rule.space = "policy-rule" /\ field = "application"
        THEN Refusal
        ELSE PlanRewrite(c, rule, field, field, op, member)
=============================================================================
