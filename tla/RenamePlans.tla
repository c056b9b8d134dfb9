---------------------------- MODULE RenamePlans -----------------------------
(***************************************************************************)
(* Renaming objects with their references (psc/core/naming.py).            *)
(***************************************************************************)
EXTENDS MergePlans

CONSTANT SchemeName  \* value -> the name the naming scheme implies, or Nil

ASSUME SchemeNameAssumption == SchemeName \in [Values \cup {Nil} -> Names \cup {Nil}]

Sees(low, high) == \E k \in DOMAIN Chain[low] : Chain[low][k] = high

(* Faulty variant: only the locations the name is inherited from. *)
ConeAbove(loc) == {l \in Locs : Sees(loc, l)}

(* Where a definition of the name would shadow, or be shadowed by, one     *)
(* at this location; the location itself included.                         *)
Cone(loc) == {l \in Locs : Sees(loc, l) \/ Sees(l, loc)}

(* The name is taken. *)
Clashes(c, id, new) == \E l \in Cone(id.loc) : Slot(id.space, new, l) \in DOMAIN c

Renaming(c, renames) ==
    Gated(c, [EmptyPlan EXCEPT !.edits = Repoints(c, renames), !.renames = renames])

(* plan_rename *)
PlanRename(c, id, new) ==
    IF Clashes(c, id, new) THEN Refusal ELSE Renaming(c, [i \in {id} |-> new])

(* What `name apply --all` renames, of the objects defined in the scope. *)
SchemeTargets(c, scope) ==
    {i \in DOMAIN c :
        /\ c[i].kind \in {"address", "service"} /\ i.loc \in scope
        /\ SchemeName[c[i].value] \notin {Nil, i.name}}

(* plan_apply_scheme: one object that clashes, with what exists or with    *)
(* another of the batch, refuses the batch.                                *)
PlanApplyScheme(c, scope) ==
    LET renames == [i \in SchemeTargets(c, scope) |-> SchemeName[c[i].value]]
    IN  IF \/ \E i \in DOMAIN renames : PlanRename(c, i, renames[i]).blocked
           \/ \E i, j \in DOMAIN renames :
                i # j /\ i.space = j.space /\ i.loc = j.loc /\ renames[i] = renames[j]
        THEN Refusal ELSE Renaming(c, renames)
=============================================================================
