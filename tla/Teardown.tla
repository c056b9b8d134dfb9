------------------------------ MODULE Teardown ------------------------------
(***************************************************************************)
(* The teardown commands at work: `psc decommission` and `psc delete` on   *)
(* an offline configuration, one command after another, each reading what  *)
(* the one before wrote.                                                   *)
(***************************************************************************)
EXTENDS TeardownPlans

CONSTANTS
    InitConfigs,  \* configurations the run starts from
    TargetSets    \* the target lists an operator may give, as sets of identities

VARIABLES
    cfg,   \* the configuration
    pc,    \* "idle", "grow" (phase 1 of the planner) or "done" (plan executed)
    cmd,   \* the running command
    gone,  \* its delete set
    plan   \* the plan it produced

vars == <<cfg, pc, cmd, gone, plan>>

(* What the parser delivers: no empty list where it reads "any", and no    *)
(* filter without a condition.                                             *)
AsParsed(c) ==
    \A i \in DOMAIN c :
        /\ \A f \in AnyFields(c[i].kind) : c[i].fields[f] # {}
        /\ c[i].kind = "dynamic-group" => FilterTags(c[i]) # {}

ASSUME InitConfigsAssumption == \A c \in InitConfigs : IsConfig(c) /\ AsParsed(c)
ASSUME TargetSetsAssumption == TargetSets \subseteq SUBSET ObjectIds

-----------------------------------------------------------------------------
NoCommand == [op |-> "none", targets |-> {}, keepGroups |-> FALSE, keepRules |-> FALSE]

Init ==
    /\ cfg \in InitConfigs
    /\ pc = "idle"
    /\ cmd = NoCommand
    /\ gone = {}
    /\ plan = EmptyPlan

Start(c) ==
    /\ pc = "idle"
    /\ pc' = "grow"
    /\ cmd' = c
    /\ gone' = Matched(cfg, c)
    /\ UNCHANGED <<cfg, plan>>

(* psc decommission: the targets are address objects the resolver matched. *)
Decommission(targets, keepGroups, keepRules) ==
    /\ \A t \in targets : t \in DOMAIN cfg /\ cfg[t].kind = "address"
    /\ Start([op |-> "decommission", targets |-> targets,
              keepGroups |-> keepGroups, keepRules |-> keepRules])

(* psc delete: the targets are identities of any object kind. *)
Purge(targets, keepGroups, keepRules) ==
    Start([op |-> "purge", targets |-> targets,
           keepGroups |-> keepGroups, keepRules |-> keepRules])

(* Faulty variant: one member gone is enough to take the group. *)
GrowTooEarly ==
    /\ pc = "grow" /\ ~cmd.keepGroups
    /\ \E g \in DOMAIN cfg \ gone :
        /\ cfg[g].kind \in {"address-group", "service-group"}
        /\ \E r \in MemberRefs(cfg, g) : Breaks(cfg, r, gone)
        /\ gone' = gone \cup {g}
    /\ UNCHANGED <<cfg, pc, cmd, plan>>

(* One group found by a pass of the loop over the groups. *)
Grow ==
    /\ pc = "grow" /\ ~cmd.keepGroups
    /\ \E g \in NewlyEmptyGroups(cfg, gone) : gone' = gone \cup {g}
    /\ UNCHANGED <<cfg, pc, cmd, plan>>

(* A pass found nothing: the plan is built and, unless blocked, executed.  *)
Execute ==
    /\ pc = "grow"
    /\ cmd.keepGroups \/ NewlyEmptyGroups(cfg, gone) = {}
    /\ pc' = "done"
    /\ plan' = PlanTeardown(cfg, cmd, gone)
    /\ cfg' = IF plan'.blocked THEN cfg ELSE Apply(cfg, plan')
    /\ UNCHANGED <<cmd, gone>>

(* The process ends; the next command reads what this one wrote.           *)
Exit ==
    /\ pc = "done"
    /\ pc' = "idle"
    /\ cmd' = NoCommand
    /\ gone' = {}
    /\ plan' = EmptyPlan
    /\ UNCHANGED cfg

Next ==
    \/ \E targets \in TargetSets, keepGroups, keepRules \in BOOLEAN :
        \/ Decommission(targets, keepGroups, keepRules)
        \/ Purge(targets, keepGroups, keepRules)
    \/ Grow \/ Execute \/ Exit

Spec == Init /\ [][Next]_vars

-----------------------------------------------------------------------------
(* Properties.                                                             *)

(* The configuration stays well-formed, and the plan is one of edits and   *)
(* deletes whose deletes are gone once it is done.                         *)
TypeOK ==
    /\ IsConfig(cfg)
    /\ pc \in {"idle", "grow", "done"}
    /\ cmd \in Commands
    /\ gone \subseteq ObjectIds
    /\ DOMAIN plan.upserts = {} /\ DOMAIN plan.renames = {}
    /\ plan.deletes \subseteq ObjectIds /\ plan.ruleDeletes \subseteq Ids
    /\ (plan.deletes \cup plan.ruleDeletes) \cap DOMAIN cfg = {}
    /\ plan.blocked \in BOOLEAN
    /\ pc # "done" => plan = EmptyPlan

(* The delete set holds existing objects, and a decommission never reaches *)
(* out of the address namespace, however far its cascade goes: the scrub,  *)
(* which ignores service and tag fields, would not see what it breaks.     *)
DeleteSetInReach ==
    pc = "grow" =>
        /\ gone \subseteq DOMAIN cfg
        /\ cmd.op \in {"decommission", "purge"}
        /\ cmd.op = "decommission" => \A g \in gone : g.space = "address"

(* "An executor walking the plan top-to-bottom can never strand a dangling *)
(* reference": a reference that resolves to nothing after a teardown       *)
(* resolved to nothing before it, whatever shadows what, whatever nests.   *)
NoStranding == [][Unresolved(cfg') \subseteq Unresolved(cfg)]_vars

(* The scrub is minimal: without keepGroups, a surviving referrer loses a  *)
(* name only if nothing of that name is left for it to mean.               *)
OnlyBrokenNamesGo ==
    [][~cmd.keepGroups =>
        \A r \in Refs(cfg) :
            (r.by \in DOMAIN cfg' /\ r.name \notin cfg'[r.by].fields[r.field])
                => Target(DOMAIN cfg', r) = Nil]_vars

(* A reference that keeps its name and means another object is reported:   *)
(* no rule changes its meaning silently.                                   *)
RebindsAreNoted ==
    [][\A r \in Refs(cfg) \cap Refs(cfg') :
        Target(DOMAIN cfg, r) # Target(DOMAIN cfg', r) => r \in plan'.notes]_vars

(* A surviving rule is never widened: a field that holds "any" after the   *)
(* next parse held it before.                                              *)
NeverWidened ==
    [][~cmd.keepRules =>
        \A i \in DOMAIN cfg' : \A f \in AnyFields(cfg'[i].kind) :
            AnyName \in cfg'[i].fields[f] => AnyName \in cfg[i].fields[f]]_vars

(* The loop stops at a fixpoint, not before it: unless the operator keeps  *)
(* groups, no surviving group is emptied.                                  *)
NoGroupEmptied ==
    [][(pc' = "done" /\ ~cmd.keepGroups) =>
        \A g \in DOMAIN cfg' : cfg'[g].kind \in {"address-group", "service-group"} =>
            (MemberRefs(cfg', g) = {} => MemberRefs(cfg, g) = {})]_vars

(* And in whatever order it meets the groups it never goes beyond the      *)
(* least one: every set of targets and groups that leaves no group emptied *)
(* contains the delete set.                                                *)
CascadeIsLeast ==
    pc = "grow" =>
        \A groups \in SUBSET {g \in DOMAIN cfg : cfg[g].kind \in {"address-group", "service-group"}} :
            NewlyEmptyGroups(cfg, Matched(cfg, cmd) \cup groups) = {}
                => gone \subseteq Matched(cfg, cmd) \cup groups

(* A surviving dynamic group whose filter only requires tags selects the   *)
(* same addresses as before: what it selects is never deleted under it.    *)
RequiringDagsKeepMembers ==
    [][\A g \in DOMAIN cfg' :
        (cfg'[g].kind = "dynamic-group" /\ cfg'[g].fields["filter-not"] = {})
            => DagMembers(cfg', g) = DagMembers(cfg, g)]_vars
=============================================================================
