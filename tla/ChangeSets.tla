----------------------------- MODULE ChangeSets -----------------------------
(***************************************************************************)
(* The mutation plan and its executor (psc/core/changeset.py,              *)
(* apply_xml.py).  A plan is a record of                                   *)
(*   upserts     identity -> the fields it sets: [kind, value, fields]     *)
(*   edits       <<identity, field>> -> the whole new member list          *)
(*   ruleDeletes identities of rules                                       *)
(*   renames     identity -> new name                                      *)
(*   deletes     identities of objects                                     *)
(*   notes       references the plan reports as kept with a new meaning    *)
(*   blocked     some blocker was found                                    *)
(* Edits, renames and upserts are functions: the planners emit at most one *)
(* of each per key, or chain them so that the last one holds.              *)
(***************************************************************************)
EXTENDS Panorama

RuleFlatFields == {"source", "destination", "service", "application", "tag"}

(* Can both appliers express an edit of this field as a flat list?         *)
Mappable(kind, field) ==
    \/ kind \in {"address-group", "dynamic-group", "service-group"}
    \/ kind = "nat-rule" /\ field \in {"source", "destination"}
    \/ kind \in {"security-rule", "policy-rule"} /\ field \in RuleFlatFields

(* The element an edit writes: a group has one list, whatever the field    *)
(* the edit names.                                                         *)
Leaf(kind, field) ==
    CASE kind \in {"address-group", "dynamic-group"} -> "static"
      [] kind = "service-group" -> "members"
      [] OTHER -> field

EmptyPlan ==
    [upserts |-> <<>>, edits |-> <<>>, ruleDeletes |-> {}, renames |-> <<>>,
     deletes |-> {}, notes |-> {}, blocked |-> FALSE]

(* A plan over well-formed data: entries under identities of their space,  *)
(* member lists, new names.                                                *)
IsPlan(plan) ==
    /\ \A i \in DOMAIN plan.upserts :
        i \in Ids /\ plan.upserts[i] \in Entry /\ SpaceOf(plan.upserts[i].kind) = i.space
    /\ \A k \in DOMAIN plan.edits : plan.edits[k] \in SUBSET Members
    /\ \A i \in DOMAIN plan.renames : plan.renames[i] \in Names

(* Faulty variant: there is no gate. *)
GateNever(cfg, plan) == FALSE

(* gate_unmappable_reference_edits: an edit no applier can express, next   *)
(* to any teardown, blocks the plan.                                       *)
GateBlocks(cfg, plan) ==
    /\ \E k \in DOMAIN plan.edits : ~Mappable(cfg[k[1]].kind, k[2])
    /\ plan.deletes # {} \/ DOMAIN plan.renames # {} \/ plan.ruleDeletes # {}

(* A blocked plan carries no operation. *)
Sealed(plan) ==
    IF plan.blocked THEN [EmptyPlan EXCEPT !.notes = plan.notes, !.blocked = TRUE] ELSE plan

-----------------------------------------------------------------------------
(* The executor, in its order.                                             *)

NoFields == [f \in Fields |-> {}]

(* The lists an upsert writes: the ones it has members for, and the filter *)
(* of a dynamic group, which is one text.                                  *)
Gives(entry, field) ==
    \/ entry.fields[field] # {}
    \/ entry.kind = "dynamic-group" /\ field \in {"filter", "filter-not"}

(* A create writes the entry; an update overwrites the leaves and lists it *)
(* gives, and keeps the rest.                                              *)
Upserted(cfg, upserts) ==
    [i \in DOMAIN cfg \cup DOMAIN upserts |->
        IF i \notin DOMAIN upserts THEN cfg[i]
        ELSE IF i \notin DOMAIN cfg THEN upserts[i]
        ELSE [cfg[i] EXCEPT
                !.value  = IF upserts[i].value = Nil THEN @ ELSE upserts[i].value,
                !.fields = [f \in Fields |->
                    IF Gives(upserts[i], f) THEN upserts[i].fields[f] ELSE @[f]]]]

(* The edits that write the list `field` of entry `i`.                     *)
Writers(cfg, edits, i, field) ==
    {k \in DOMAIN edits :
        /\ k[1] = i
        /\ Mappable(cfg[i].kind, k[2])
        /\ Leaf(cfg[i].kind, k[2]) = field}

Edited(cfg, edits) ==
    [i \in DOMAIN cfg |->
        [cfg[i] EXCEPT !.fields = [f \in Fields |->
            IF Writers(cfg, edits, i, f) = {} THEN @[f]
            ELSE edits[CHOOSE k \in Writers(cfg, edits, i, f) : TRUE]]]]

(* Faulty variant: nothing is removed. *)
WithNothingRemoved(cfg, gone) == cfg

Without(cfg, gone) == [i \in DOMAIN cfg \ gone |-> cfg[i]]

(* What the next parse reads in an emptied list of a rule. *)
AnyFields(kind) ==
    CASE kind = "security-rule" -> {"source", "destination", "service", "application"}
      [] kind = "nat-rule" -> {"source", "destination", "service"}
      [] kind = "policy-rule" -> {"source", "destination"}
      [] OTHER -> {}

ReadBack(cfg) ==
    [i \in DOMAIN cfg |->
        [cfg[i] EXCEPT !.fields = [f \in Fields |->
            IF f \in AnyFields(cfg[i].kind) /\ @[f] = {} THEN {AnyName} ELSE @[f]]]]

(* Where an entry is once the renames are made.                            *)
Moved(renames, i) == IF i \in DOMAIN renames THEN Slot(i.space, renames[i], i.loc) ELSE i

Renamed(cfg, renames) ==
    [j \in {Moved(renames, i) : i \in DOMAIN cfg} |->
        cfg[CHOOSE i \in DOMAIN cfg : Moved(renames, i) = j]]

(* apply_changeset followed by the parse of what it wrote. *)
Apply(cfg, plan) ==
    LET upserted == Upserted(cfg, plan.upserts)
        edited   == Edited(upserted, plan.edits)
        trimmed  == Without(edited, plan.ruleDeletes)
    IN  ReadBack(Without(Renamed(trimmed, plan.renames), plan.deletes))
=============================================================================
