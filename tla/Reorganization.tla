--------------------------- MODULE Reorganization ---------------------------
(***************************************************************************)
(* The commands that reorganise objects and are meant to keep what every   *)
(* rule matches: `psc dedup merge`, `merge-group` and `promote`, `psc      *)
(* move`, `psc name rename` and `apply`, and the workbench spokes that     *)
(* stage the same plans.  One command after another, each reading what the *)
(* one before wrote.                                                       *)
(***************************************************************************)
EXTENDS RenamePlans, PromotePlans

CONSTANTS
    InitConfigs,  \* configurations the run starts from
    NewNames      \* names an operator gives to objects

ASSUME InitConfigsAssumption == \A c \in InitConfigs : IsConfig(c)
ASSUME NewNamesAssumption == NewNames \subseteq Names

VARIABLES
    cfg,   \* the configuration
    op,    \* the command that ran, "none" between two commands
    plan   \* the plan it produced

vars == <<cfg, op, plan>>

Init ==
    /\ cfg \in InitConfigs
    /\ op = "none"
    /\ plan = EmptyPlan

(* complete(): a plan with a blocker is refused, any other is applied.     *)
Run(name, p) ==
    /\ op = "none"
    /\ op' = name
    /\ plan' = p
    /\ cfg' = IF p.blocked THEN cfg ELSE Apply(cfg, p)

Exit ==
    /\ op # "none"
    /\ op' = "none"
    /\ plan' = EmptyPlan
    /\ UNCHANGED cfg

-----------------------------------------------------------------------------
(* What the commands select.                                               *)

Of(kinds) == {i \in DOMAIN cfg : cfg[i].kind \in kinds}

(* Differently named groups, one with a group of the other's name inside. *)
Nested(bucket) ==
    \E g, h \in bucket \cap AddressGroups(cfg) :
        g.name # h.name /\ h.name \in {i.name : i \in Contained(cfg, g)}

-----------------------------------------------------------------------------
(* The commands.                                                           *)

Rename ==
    \E id \in DOMAIN cfg \cap ObjectIds, new \in NewNames :
        Run("rename", PlanRename(cfg, id, new))

ApplyScheme ==
    \E scope \in {Locs} \cup {{l} : l \in Locs} :
        Run("scheme", PlanApplyScheme(cfg, scope))

Merge ==
    \E keep, drop \in Of({"address"}), allowValueChange \in BOOLEAN :
        Run(IF allowValueChange THEN "override" ELSE "merge",
            PlanMerge(cfg, keep, {drop}, allowValueChange))

MergeBucket ==
    \E bucket \in AlikeSets(cfg, "address") :
        \E keep \in bucket \cup {DefaultKeep(cfg, Ranked(bucket))} :
            Run("merge", PlanMerge(cfg, keep, bucket \ {keep}, FALSE))

MergeGroup ==
    \E keep, drop \in AddressGroups(cfg) : Run("merge", PlanMergeGroup(cfg, keep, drop))

Move ==
    \E id \in DOMAIN cfg \cap ObjectIds, dest \in Locs, cascade \in BOOLEAN :
        Run("move", PlanMove(cfg, id, dest, cascade))

(* A bucket with the name to keep, if one is given; only groups cascade.   *)
Promote ==
    \E kind \in PromotableKinds, dest \in Locs :
        \E bucket \in Selections(cfg, kind),
           cascade \in IF kind = "address-group" THEN BOOLEAN ELSE {FALSE} :
            \E keepName \in {i.name : i \in bucket} \cup {Nil} :
                Run(IF Nested(bucket) THEN "promote-nested" ELSE "promote",
                    PlanPromote(cfg, Ranked(bucket), dest, keepName, cascade))

PromoteAll ==
    \E kind \in PromotableKinds, dest \in Locs :
        \E cascade \in IF kind = "address-group" THEN BOOLEAN ELSE {FALSE} :
            Run("promote", PlanPromoteAll(cfg, kind, dest, cascade))

Next ==
    \/ Rename \/ ApplyScheme
    \/ Merge \/ MergeBucket \/ MergeGroup
    \/ Move \/ Promote \/ PromoteAll
    \/ Exit

Spec == Init /\ [][Next]_vars

-----------------------------------------------------------------------------
(* Properties.                                                             *)

(* What a field of a rule stands for: everything its names reach, group    *)
(* by group, each name looked up where it is written.                      *)
Heads(c, rule, field) ==
    {Resolve(DOMAIN c, NsOf(field), n, rule.loc) : n \in c[rule].fields[field] \cap Names}

Below(c, i) ==
    IF i = Nil THEN {}
    ELSE {Resolve(DOMAIN c, i.space, n, i.loc) :
             n \in (c[i].fields["static"] \cup c[i].fields["members"]) \cap Names}

Reach(c, heads) ==
    LET grown(s) == s \cup UNION {Below(c, i) : i \in s}
        depth    == Cardinality({i \in DOMAIN c : c[i].kind \in GroupKinds})
        reach[n \in 0..depth] == IF n = 0 THEN heads ELSE grown(reach[n - 1])
    IN  reach[depth]

Stands(c, rule, field) ==
    LET reach == Reach(c, Heads(c, rule, field))
    IN  [known  |-> Nil \notin reach /\ \A i \in reach : c[i].kind # "dynamic-group",
         values |-> {c[i].value : i \in reach \ {Nil}} \ {Nil},
         others |-> c[rule].fields[field] \cap Predefined]

MatchFields == {"source", "destination", "service", "translation", "nexthop"}

(* An object appears between a reference and what it resolved to.          *)
Captures(c, p) ==
    \E r \in Refs(c) :
        /\ Target(DOMAIN c, r) \notin {Nil} \cup p.deletes
        /\ Target(DOMAIN c \cup DOMAIN p.upserts, r) # Target(DOMAIN c, r)

(* The configuration stays well-formed; nothing a plan removes or renames  *)
(* is left behind, and a refused plan holds no operation.                  *)
TypeOK ==
    /\ IsConfig(cfg)
    /\ op \in {"none", "rename", "scheme", "merge", "override", "move", "promote", "promote-nested"}
    /\ plan.ruleDeletes = {}
    /\ plan.blocked => IsEmptyPlan(plan)
    /\ op = "none" => plan = EmptyPlan

KeepsMeaning ==
    \A rule \in {i \in DOMAIN cfg : i.space \in RuleSpaces}, field \in MatchFields :
        Stands(cfg, rule, field).known
            => Stands(cfg', rule, field) = Stands(cfg, rule, field)

(* Whatever is merged, renamed, moved or promoted, with whatever shadows   *)
(* and nesting in between, a rule field that stood for a set of values     *)
(* stands for the same values afterwards.  The exceptions: merging         *)
(* different values on request, unifying groups nested in one another      *)
(* under one name, and an object that lands between a reference and its    *)
(* target (see MovesNeverCapture).                                         *)
MeaningIsKept ==
    [][op' \notin {"override", "promote-nested"} /\ ~Captures(cfg, plan') => KeepsMeaning]_vars

(* "References fall through to the destination without any repoint":       *)
(* promoting keeps what every rule field stands for, without exception.    *)
MovesNeverCapture == [][op' \in {"move", "promote"} => KeepsMeaning]_vars

(* What is merged, moved, promoted or renamed leaves no rule with a name   *)
(* that resolved before and resolves to nothing now.                       *)
NothingNewDangles ==
    [][{r \in Unresolved(cfg') : r.by \in DOMAIN cfg} \subseteq Unresolved(cfg)]_vars

(* After a rename every reference to the object, and no other, means the   *)
(* object under its new name, also where another definition of either      *)
(* name is in sight.                                                       *)
BindingsFollowRenames ==
    [][op' = "rename" =>
        \A r \in {x \in Refs(cfg) : x.by \in DOMAIN cfg'} :
            LET before == Target(DOMAIN cfg, r)
                now    == IF before \in DOMAIN plan'.renames
                          THEN [before EXCEPT !.name = plan'.renames[before]] ELSE before
            IN  before # Nil =>
                    /\ now.name \in cfg'[r.by].fields[r.field]
                    /\ Target(DOMAIN cfg', [r EXCEPT !.name = now.name]) = now]_vars

(* No group comes to contain itself, however the groups are merged, moved  *)
(* or renamed, with the exceptions above.                                  *)
Acyclic(c) == \A g \in AddressGroups(c) : g \notin Contained(c, g)

GroupsStayAcyclic ==
    [][/\ op' # "promote-nested"
       /\ ~Captures(cfg, plan')
       /\ Unresolved(cfg) = {}
       /\ Acyclic(cfg)
       => Acyclic(cfg')]_vars

(* What is moved or promoted away has a successor of the same worth, and   *)
(* where it was in use the successor is in sight, unless something was     *)
(* captured on the way.                                                    *)
Worth(c, i) ==
    IF c[i].kind \in AddressGroupKinds THEN Leaves(c, i) ELSE {c[i].value}

Succeeds(s, d) ==
    /\ s.space = d.space
    /\ Family(cfg'[s].kind) = Family(cfg[d].kind)
    /\ WhereUsed(cfg, {d}) # {} => Resolve(DOMAIN cfg', s.space, s.name, d.loc) = s
    /\ Worth(cfg', s) = Worth(cfg, d)

DepartedHaveSuccessors ==
    [][op' \in {"move", "promote"} /\ ~Captures(cfg, plan') =>
        \A d \in plan'.deletes : \E s \in DOMAIN cfg' : Succeeds(s, d)]_vars
=============================================================================
