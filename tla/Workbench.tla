------------------------------ MODULE Workbench -----------------------------
(***************************************************************************)
(* The workbench session (psc/tui/session.py) and the spokes that feed it  *)
(* (psc/tui/app.py, screens/): search, selection, the staged changelist    *)
(* that compounds onto a working configuration, dropping one change, the   *)
(* end of a batch, switching the source.                                   *)
(*                                                                         *)
(* One handler runs at a time and a spoke on the stack disables the hub,   *)
(* so a spoke's confirmation is one action: it plans again from the        *)
(* working configuration and the live selection, and stages.               *)
(***************************************************************************)
EXTENDS TeardownPlans, AuthoringPlans, SequencesExt

CONSTANTS
    Sources,      \* configurations a source may hold
    Creations,    \* <<identity, entry>> an operator may type into the create form
    GroupNames,   \* names typed for a new group or for the group to add to
    Queries,      \* searches, as the names they match
    MaxStaged,    \* bound on the changes staged since the source was loaded
    MaxSelected   \* bound on the selection

VARIABLES
    source,     \* what source.raw_xml() holds
    working,    \* the working configuration
    staging,    \* the staged changes, oldest first
    selection,  \* the selected items, in order
    results,    \* the rows of the last search
    committed   \* history: changes written out or pushed since the source was loaded

vars == <<source, working, staging, selection, results, committed>>

ASSUME SourcesAssumption == \A c \in Sources : IsConfig(c)
ASSUME CreationsAssumption ==
    \A x \in Creations : x[1] \in ObjectIds /\ x[2] \in Entry /\ SpaceOf(x[2].kind) = x[1].space
ASSUME GroupNamesAssumption == GroupNames \subseteq Names
ASSUME BoundsAssumption == MaxStaged \in Nat /\ MaxSelected \in Nat

-----------------------------------------------------------------------------
(* A selectable item is keyed by kind, name and location.                  *)

ItemKind(kind) == IF kind = "dynamic-group" THEN "address-group" ELSE kind
Item(c, i)     == [kind |-> ItemKind(c[i].kind), name |-> i.name, loc |-> i.loc]
Items(c)       == {Item(c, i) : i \in {j \in DOMAIN c : j.space \in ObjectSpaces}}
IdOf(item)     == Slot(SpaceOf(item.kind), item.name, item.loc)

AllItems == [kind : {"address", "address-group", "service", "service-group", "tag"},
             name : Names, loc : Locs]

(* The items of a selection that are in `kept`, in their order.            *)
Keeping(sel, kept) ==
    LET upTo[k \in 0 .. Len(sel)] ==
            IF k = 0 THEN <<>>
            ELSE IF sel[k] \in kept THEN Append(upTo[k - 1], sel[k]) ELSE upTo[k - 1]
    IN  upTo[Len(sel)]

(* Faulty variant: the selection is left as it is. *)
Unreconciled(sel, c) == sel

(* _reconcile_selection. *)
Reconciled(sel, c) == Keeping(sel, Items(c))

-----------------------------------------------------------------------------
(* Staging.                                                                *)

Session(w, st) == [working |-> w, staging |-> st, refused |-> FALSE]

(* stage: a blocked change is refused, an empty one is ignored.            *)
Staged(s, plan) ==
    IF plan.blocked THEN [s EXCEPT !.refused = TRUE]
    ELSE IF IsEmptyPlan(plan) THEN s
    ELSE Session(Apply(s.working, plan), Append(s.staging, plan))

(* The tail of every staging handler: promote, reconcile.  A spoke whose   *)
(* plan is refused half way keeps what it staged before.                   *)
Stage(s) ==
    /\ Len(s.staging) > Len(staging) /\ Len(s.staging) + committed <= MaxStaged
    /\ working' = s.working
    /\ staging' = s.staging
    /\ selection' = Reconciled(selection, s.working)
    /\ UNCHANGED <<source, results, committed>>

Here == Session(working, staging)

(* The adding spokes put names into a place: the members of the group of a *)
(* name, or a field of the rule of a name.                                 *)
PlanAdd(c, place, member) ==
    IF place.field = "members"
    THEN PlanGroupMemberEdit(c, place.name, Locs, "add", member)
    ELSE PlanRuleMemberEdit(c, place.name, Locs, place.field, "add", member)

(* They walk the selection, each plan made on what the one before left, and*)
(* stop at the first refusal.                                              *)
StagedForEach(place) ==
    LET upTo[k \in 0 .. Len(selection)] ==
            IF k = 0 THEN Here
            ELSE IF upTo[k - 1].refused THEN upTo[k - 1]
            ELSE Staged(upTo[k - 1], PlanAdd(upTo[k - 1].working, place, selection[k].name))
    IN  upTo[Len(selection)]

-----------------------------------------------------------------------------
Init ==
    /\ source \in Sources
    /\ working = source
    /\ staging = <<>>
    /\ selection = <<>>
    /\ results = {}
    /\ committed = 0

(* Search the working configuration; a query is the names it matches.      *)
Search(names) ==
    /\ results' = {it \in Items(working) : it.name \in names}
    /\ UNCHANGED <<source, working, staging, selection, committed>>

(* Faulty variant: a selected row is selected again. *)
ToggleTwice(it) ==
    /\ it \in results
    /\ Len(selection) < MaxSelected
    /\ selection' = Append(selection, it)
    /\ UNCHANGED <<source, working, staging, results, committed>>

(* Select or unselect a row of the results, which may be older than the    *)
(* working configuration.                                                  *)
Toggle(it) ==
    /\ it \in results
    /\ IF it \in ToSet(selection)
       THEN selection' = Keeping(selection, AllItems \ {it})
       ELSE Len(selection) < MaxSelected /\ selection' = Append(selection, it)
    /\ UNCHANGED <<source, working, staging, results, committed>>

(* Drop the row under the cursor from the selection panel.                 *)
RemoveSelected(k) ==
    /\ k \in DOMAIN selection
    /\ selection' = RemoveAt(selection, k)
    /\ UNCHANGED <<source, working, staging, results, committed>>

(* CreateScreen. *)
Create(id, entry) == Stage(Staged(Here, PlanPut(working, id, entry)))

(* GroupScreen: every selected name becomes a member of the named group.   *)
AddToGroup(name) == Stage(StagedForEach([name |-> name, field |-> "members"]))

(* RuleScreen: every selected name goes into the field of the named rule.  *)
AddToRule(name, field) == Stage(StagedForEach([name |-> name, field |-> field]))

(* NewGroupScreen: a group out of the groupable part of the selection,     *)
(* which is consumed.                                                      *)
Groupable == {selection[k] : k \in {j \in DOMAIN selection : selection[j].kind # "tag"}}

NewGroup(id) ==
    LET plan == IF Groupable \subseteq Items(working)
                THEN PlanGroupCreate(working, id, {IdOf(it) : it \in Groupable}, {})
                ELSE Refusal
        s    == Staged(Here, plan)
    IN  /\ Len(s.staging) > Len(staging) /\ Len(s.staging) + committed <= MaxStaged
        /\ working' = s.working
        /\ staging' = s.staging
        /\ selection' = <<>>
        /\ UNCHANGED <<source, results, committed>>

(* DeleteScreen: one plan over the whole selection; a row that no longer   *)
(* names an object blocks it.                                              *)
Delete(keepRules) ==
    LET items == {selection[k] : k \in DOMAIN selection}
        cm    == [op |-> "purge", targets |-> {IdOf(it) : it \in items},
                  keepGroups |-> FALSE, keepRules |-> keepRules]
        plan  == IF items \subseteq Items(working)
                 THEN PlanTeardown(working, cm, Cascade(working, cm)) ELSE Refusal
    IN  Stage(Staged(Here, plan))

(* DecommissionScreen: the selected addresses that still exist.            *)
Decommission ==
    LET live == {selection[k] : k \in DOMAIN selection} \cap Items(working)
        cm   == [op |-> "decommission",
                 targets |-> {IdOf(it) : it \in {x \in live : x.kind = "address"}},
                 keepGroups |-> FALSE, keepRules |-> FALSE]
    IN  Stage(Staged(Here, PlanTeardown(working, cm, Cascade(working, cm))))

(* Every remaining change, replayed over the source.                       *)
Replay(base, changes) ==
    LET upTo[k \in 0 .. Len(changes)] ==
            IF k = 0 THEN base ELSE Apply(upTo[k - 1], changes[k])
    IN  upTo[Len(changes)]

(* Faulty variant: the change leaves the list and stays in the config.     *)
DropFromListOnly(k) ==
    /\ k \in DOMAIN staging
    /\ staging' = RemoveAt(staging, k)
    /\ UNCHANGED <<source, working, selection, results, committed>>

(* drop_staged. *)
Drop(k) ==
    /\ k \in DOMAIN staging
    /\ staging' = RemoveAt(staging, k)
    /\ working' = Replay(source, staging')
    /\ selection' = Reconciled(selection, working')
    /\ UNCHANGED <<source, results, committed>>

(* apply_batch ended in a written configuration or a complete push.        *)
Commit ==
    /\ staging # <<>>
    /\ staging' = <<>>
    /\ committed' = committed + Len(staging)
    /\ UNCHANGED <<source, working, selection, results>>

(* ProfilesScreen, reload: another source, nothing carried over.           *)
Reload(s) ==
    /\ source' = s
    /\ working' = s
    /\ staging' = <<>>
    /\ selection' = <<>>
    /\ results' = {}
    /\ committed' = 0

Staging ==
    \/ \E x \in Creations : Create(x[1], x[2])
    \/ \E n \in GroupNames : AddToGroup(n)
    \/ \E n \in Names, f \in {"source", "service"} : AddToRule(n, f)
    \/ \E n \in GroupNames, space \in {"address", "service"}, l \in Locs : NewGroup(Slot(space, n, l))
    \/ \E keepRules \in BOOLEAN : Delete(keepRules)
    \/ Decommission

Next ==
    \/ \E names \in Queries : Search(names)
    \/ \E it \in results : Toggle(it)
    \/ \E k \in 1..MaxSelected : RemoveSelected(k)
    \/ Staging
    \/ \E k \in 1..MaxStaged : Drop(k)
    \/ Commit
    \/ \E s \in Sources : Reload(s)

Spec == Init /\ [][Next]_vars

-----------------------------------------------------------------------------
(* Properties.                                                             *)

TypeOK ==
    /\ IsConfig(working)
    /\ source \in Sources
    /\ Len(staging) + committed <= MaxStaged
    /\ \A k \in DOMAIN staging :
        IsPlan(staging[k]) /\ ~staging[k].blocked /\ ~IsEmptyPlan(staging[k])
    /\ selection \in Seq(AllItems) /\ IsInjective(selection)
    /\ results \subseteq AllItems
    /\ committed \in 0..MaxStaged

(* Until a batch is applied, the working configuration is the source with  *)
(* the staged changes replayed in order: however changes are staged and    *)
(* dropped, what the operator reviews is what the batch does to the source.*)
WorkingIsReplay == committed = 0 => working = Replay(source, staging)

(* Staging or dropping never leaves a row selected that no longer names an *)
(* object, unless it was selected from results older than the change.      *)
NoNewStaleSelection ==
    [][working' # working => \A k \in DOMAIN selection' : selection'[k] \in Items(working')]_vars

(* A new group holds exactly the picked objects: seen from the group every *)
(* member name binds to the object the operator picked, and no other       *)
(* reference changes its meaning unless the planner warned of the shadow.  *)
NewGroupsBindTheirPicks ==
    [][\A n \in GroupNames, space \in {"address", "service"}, l \in Locs :
        NewGroup(Slot(space, n, l)) =>
            /\ \A it \in Groupable : Resolve(DOMAIN working', space, it.name, l) = IdOf(it)
            /\ \A r \in Refs(working) :
                Target(DOMAIN working', r) # Target(DOMAIN working, r)
                    => (Target(DOMAIN working, r) = Nil \/ ShadowWarned(working, Slot(space, n, l)))]_vars

(* The workbench guide: "if the dropped change is a dependency of a later  *)
(* one, the drop is refused": a drop that succeeds takes the object away   *)
(* from no reference the remaining changes keep.                           *)
DependedOnDropsAreRefused ==
    [][\A k \in DOMAIN staging : (Drop(k) /\ committed = 0) =>
        \A r \in Refs(working) \cap Refs(working') :
            Target(DOMAIN working, r) # Nil => Target(DOMAIN working', r) # Nil]_vars

=============================================================================
