------------------------------ MODULE LivePush ------------------------------
(***************************************************************************)
(* A plan on the wire: plan_xapi_ops (psc/core/apply_live.py) lowers it to *)
(* single operations and LiveSource.apply (psc/core/source.py) sends them  *)
(* one after another to the candidate configuration.  Planning reads the   *)
(* running configuration.  Any operation may fail, before or after the     *)
(* manager executed it; the operator may run the command again, revert the *)
(* candidate or commit it.                                                 *)
(***************************************************************************)
EXTENDS TeardownPlans, RenamePlans, PromotePlans

CONSTANTS
    Runnings,     \* configurations the manager may run at the start
    Intents,      \* commands an operator may give
    MaxAttempts   \* bound on the pushes of a behaviour

VARIABLES
    running,    \* the running configuration
    candidate,  \* the candidate configuration
    intent,     \* the command given last
    plan,       \* its plan
    todo,       \* the operations still to send
    state,      \* "idle", "pushing", "pushed" or "failed"
    base,       \* history: the candidate when the command was first given
    attempts    \* history: pushes started

vars == <<running, candidate, intent, plan, todo, state, base, attempts>>

ASSUME RunningsAssumption == \A c \in Runnings : IsConfig(c)

(* What the command line and the workbench hand to a planner.              *)
ASSUME IntentsAssumption == \A x \in Intents :
    \/ x.op = "decommission" /\ x \in Commands /\ \A t \in x.targets : t.space = "address"
    \/ x.op = "purge" /\ x \in Commands
    \/ x.op = "import" /\ DOMAIN x.entries \subseteq Ids
        /\ \A i \in DOMAIN x.entries :
            x.entries[i] \in Entry /\ SpaceOf(x.entries[i].kind) = i.space
    \/ x.op = "group" /\ x.id \in ObjectIds /\ x.id.space # "tag" /\ x.picks \subseteq ObjectIds
    \/ x.op \in {"member", "rule"} /\ x.verb \in {"add", "remove"} /\ x.member \in Names
    \/ x.op = "rename" /\ x.id \in ObjectIds /\ x.new \in Names
    \/ x.op = "scheme" /\ x.scope \subseteq Locs
    \/ x.op = "merge" /\ x.keep \in ObjectIds /\ x.drops \subseteq ObjectIds
    \/ x.op = "merge-group" /\ x.keep \in ObjectIds /\ x.drop \in ObjectIds
    \/ x.op = "move" /\ x.id \in ObjectIds /\ x.dest \in Locs /\ x.cascade \in BOOLEAN
    \/ x.op = "promote" /\ x.kind \in PromotableKinds /\ x.dest \in Locs /\ x.cascade \in BOOLEAN
    \/ x.op = "promote-all" /\ x.kind \in PromotableKinds /\ x.dest \in Locs
        /\ x.cascade \in BOOLEAN
ASSUME AttemptsAssumption == MaxAttempts \in Nat

-----------------------------------------------------------------------------
(* The plan of a command.                                                  *)

(* One record of `set`, or the records of a file.                          *)
PlanImport(c, entries) ==
    IF \E i \in DOMAIN entries : PlanPut(c, i, entries[i]).blocked THEN Refusal
    ELSE [EmptyPlan EXCEPT !.upserts = entries]

(* The command promotes duplicates it has found, under one of their names. *)
PlanPromoteFound(c, x) ==
    IF x.bucket \notin Selections(c, x.kind) \/ x.keepName \notin {i.name : i \in x.bucket} \cup {Nil}
    THEN Refusal
    ELSE PlanPromote(c, Ranked(x.bucket), x.dest, x.keepName, x.cascade)

PlanFor(c, x) ==
    CASE x.op \in {"decommission", "purge"} -> PlanTeardown(c, x, Cascade(c, x))
      [] x.op = "import"      -> PlanImport(c, x.entries)
      [] x.op = "group"       -> PlanGroupCreate(c, x.id, x.picks, {})
      [] x.op = "member"      -> PlanGroupMemberEdit(c, x.name, Locs, x.verb, x.member)
      [] x.op = "rule"        -> PlanRuleMemberEdit(c, x.name, Locs, x.field, x.verb, x.member)
      [] x.op = "rename"      -> PlanRename(c, x.id, x.new)
      [] x.op = "scheme"      -> PlanApplyScheme(c, x.scope)
      [] x.op = "merge"       -> PlanMerge(c, x.keep, x.drops, x.allowValueChange)
      [] x.op = "merge-group" -> PlanMergeGroup(c, x.keep, x.drop)
      [] x.op = "move" /\ x.id \in DOMAIN c -> PlanMove(c, x.id, x.dest, x.cascade)
      [] x.op = "promote"     -> PlanPromoteFound(c, x)
      [] x.op = "promote-all" -> PlanPromoteAll(c, x.kind, x.dest, x.cascade)
      [] OTHER                -> Refusal

(* A plan that updates an existing object is not sent.                     *)
Refused(c, p) == p.blocked \/ DOMAIN p.upserts \cap DOMAIN c # {}

-----------------------------------------------------------------------------
(* The operations, and the order of the list they are in.                  *)

Op(do, id, field) == [do |-> do, id |-> id, field |-> field]

(* The kind of an entry an edit names, which the plan itself may create.   *)
KindOf(c, p, i) == IF i \in DOMAIN c THEN c[i].kind ELSE p.upserts[i].kind

Ops(c, p) ==
    {Op("set", i, "static") : i \in DOMAIN p.upserts}
    \cup {Op("edit", k[1], k[2]) : k \in {e \in DOMAIN p.edits : Mappable(KindOf(c, p, e[1]), e[2])}}
    \cup {Op("rule", i, "static") : i \in p.ruleDeletes}
    \cup {Op("rename", i, "static") : i \in DOMAIN p.renames}
    \cup {Op("delete", i, "static") : i \in p.deletes}

(* Faulty variant: deletes are sent first. *)
DeletesFirst(c, o) == IF o.do = "delete" THEN 0 ELSE 1

(* The teardown planners sort what they delete by kind.                    *)
DeleteRank(kind) ==
    CASE kind = "address" -> 5
      [] kind \in {"address-group", "dynamic-group"} -> 6
      [] kind = "service" -> 7
      [] kind = "service-group" -> 8
      [] OTHER -> 9

(* Upserts, edits, rule deletes, renames, deletes; the order within a      *)
(* class is left open, but for the deletes of a teardown.                  *)
Rank(c, o) ==
    CASE o.do = "set"    -> 1
      [] o.do = "edit"   -> 2
      [] o.do = "rule"   -> 3
      [] o.do = "rename" -> 4
      [] o.do = "delete" -> IF intent.op \in {"decommission", "purge"}
                            THEN DeleteRank(c[o.id].kind) ELSE 5

Sendable == {o \in todo : \A other \in todo : Rank(running, o) <= Rank(running, other)}

(* What the manager does with one.  A set merges into an entry that exists.*)
Merged(c, i, e) ==
    IF i \notin DOMAIN c THEN e
    ELSE [e EXCEPT !.fields = [f \in Fields |-> c[i].fields[f] \cup @[f]]]

(* The manager edits and renames what exists, under a name that is free.   *)
Executable(c, o) ==
    /\ o.do \in {"edit", "rename"} => o.id \in DOMAIN c
    /\ o.do = "rename" => Moved(plan.renames, o.id) \notin DOMAIN c

Put(c, i) ==
    [j \in DOMAIN c \cup {i} |-> IF j = i THEN Merged(c, i, plan.upserts[i]) ELSE c[j]]

Relisted(c, o, members) == [c EXCEPT ![o.id].fields[Leaf(c[o.id].kind, o.field)] = members]

(* Faulty variant: a list is sent as a set, which appends. *)
EffectAppending(c, o) ==
    CASE o.do = "set"    -> Put(c, o.id)
      [] o.do = "edit"   -> Relisted(c, o, c[o.id].fields[Leaf(c[o.id].kind, o.field)]
                                               \cup plan.edits[<<o.id, o.field>>])
      [] o.do = "rename" -> Renamed(c, [i \in {o.id} |-> plan.renames[i]])
      [] OTHER           -> Without(c, {o.id})

(* Faulty variant: an emptied list takes its entry along. *)
EffectDroppingEntries(c, o) ==
    CASE o.do = "set"    -> Put(c, o.id)
      [] o.do = "edit" /\ plan.edits[<<o.id, o.field>>] # {} ->
            Relisted(c, o, plan.edits[<<o.id, o.field>>])
      [] o.do = "rename" -> Renamed(c, [i \in {o.id} |-> plan.renames[i]])
      [] OTHER           -> Without(c, {o.id})

(* A rename leaves every member list as it is.                             *)
Effect(c, o) ==
    CASE o.do = "set"    -> Put(c, o.id)
      [] o.do = "edit"   -> Relisted(c, o, plan.edits[<<o.id, o.field>>])
      [] o.do = "rename" -> Renamed(c, [i \in {o.id} |-> plan.renames[i]])
      [] OTHER           -> Without(c, {o.id})

-----------------------------------------------------------------------------
NoIntent == [op |-> "none"]

Init ==
    /\ running \in Runnings
    /\ candidate = running
    /\ intent = NoIntent
    /\ plan = EmptyPlan
    /\ todo = {}
    /\ state = "idle"
    /\ base = running
    /\ attempts = 0

Start(x) ==
    /\ attempts < MaxAttempts
    /\ attempts' = attempts + 1
    /\ intent' = x
    /\ plan' = PlanFor(running, x)
    /\ ~Refused(running, plan')
    /\ todo' = Ops(running, plan')
    /\ state' = "pushing"
    /\ UNCHANGED <<running, candidate>>

(* A command, whatever the candidate holds.                                *)
Push(x) ==
    /\ state \in {"idle", "pushed"}
    /\ Start(x)
    /\ base' = candidate

(* The command whose push failed, given again.                             *)
Retry ==
    /\ state = "failed"
    /\ Start(intent)
    /\ UNCHANGED base

Send ==
    /\ state = "pushing"
    /\ \E o \in Sendable :
        /\ Executable(candidate, o)
        /\ candidate' = Effect(candidate, o)
        /\ todo' = todo \ {o}
    /\ UNCHANGED <<running, intent, plan, state, base, attempts>>

(* An operation fails, before the manager executed it or after; the push   *)
(* stops there.                                                            *)
Fail ==
    /\ state = "pushing"
    /\ \E o \in Sendable :
        \/ candidate' = candidate
        \/ Executable(candidate, o) /\ candidate' = Effect(candidate, o)
    /\ state' = "failed"
    /\ todo' = {}
    /\ UNCHANGED <<running, intent, plan, base, attempts>>

(* Faulty variant: a push ends before its list. *)
DoneEarly ==
    /\ state = "pushing"
    /\ state' = "pushed"
    /\ UNCHANGED <<running, candidate, intent, plan, todo, base, attempts>>

Done ==
    /\ state = "pushing" /\ todo = {}
    /\ state' = "pushed"
    /\ UNCHANGED <<running, candidate, intent, plan, todo, base, attempts>>

(* The operator settles the candidate on the manager.                      *)
Settle(c) ==
    /\ state # "pushing"
    /\ running' = c /\ candidate' = c /\ base' = c
    /\ state' = "idle" /\ plan' = EmptyPlan
    /\ UNCHANGED <<intent, todo, attempts>>

Commit == state = "pushed" /\ Settle(ReadBack(candidate))
Revert == Settle(running)

Next ==
    \/ \E x \in Intents : Push(x)
    \/ Retry \/ Send \/ Fail \/ Done \/ Commit \/ Revert

Spec == Init /\ [][Next]_vars

-----------------------------------------------------------------------------
(* Properties.  Clean: the command was first given on a candidate equal to *)
(* the running configuration its plan was made for.                        *)

Clean == base = running

TypeOK ==
    /\ IsConfig(running) /\ IsConfig(candidate)
    /\ intent \in Intents \cup {NoIntent}
    /\ todo \subseteq Ops(running, plan) /\ (todo # {} => state = "pushing")
    /\ state \in {"idle", "pushing", "pushed", "failed"}
    /\ attempts \in 0..MaxAttempts

(* The identity an entry of the candidate has in the running configuration.*)
Origin(renames, j) ==
    IF \E i \in DOMAIN renames : Moved(renames, i) = j
    THEN CHOOSE i \in DOMAIN renames : Moved(renames, i) = j
    ELSE j

(* The entries the plan leaves. *)
Survivors == DOMAIN running \ (plan.deletes \cup plan.ruleDeletes)

(* The new name of an object whose rename has not been executed.           *)
AwaitsRename(r) ==
    \E i \in DOMAIN plan.renames \cap DOMAIN candidate :
        r.name = plan.renames[i] /\ NsOf(r.field) = i.space

(* "Repoint before delete", on the wire: at every prefix of the push, and  *)
(* wherever it fails and is run again, a reference of a surviving entry    *)
(* names nothing only if it named nothing before, or is the one member the *)
(* operator added, or names an object by the name it is about to get.      *)
(* Nothing is renamed or deleted away under a reference.                   *)
SurvivorsNeverDangle ==
    (Clean /\ state # "idle") =>
        \A r \in Unresolved(candidate) :
            LET by == Origin(plan.renames, r.by) IN
            by \in Survivors =>
                \/ [r EXCEPT !.by = by] \in Unresolved(running)
                \/ intent.op \in {"member", "rule"} /\ r.name = intent.member
                \/ AwaitsRename(r)

(* The operations do what the offline executor does: a push that ran to    *)
(* its end, after any number of failed ones, leaves what the plan says.    *)
(* (The push that follows a rename whose answer was lost does not end: the *)
(* manager refuses the second rename, and only Revert helps.)              *)
PushedIsPlan ==
    (Clean /\ state = "pushed") => ReadBack(candidate) = Apply(running, plan)

(* A push that failed half way wrote nothing the plan does not say.  Every *)
(* entry the plan keeps is there, under its old or its new name and not    *)
(* both; no entry is new but the plan's; a member list of an old entry is  *)
(* the old one or the planned one, and one of a new entry holds nothing    *)
(* but what the plan puts there.                                           *)
Kept(i) ==
    i \in DOMAIN candidate \/ Moved(plan.renames, i) \in DOMAIN candidate

TwiceThere(i) ==
    Moved(plan.renames, i) # i /\ {i, Moved(plan.renames, i)} \subseteq DOMAIN candidate

NothingUnplanned ==
    (Clean /\ state # "idle") =>
        LET planned == Apply(running, plan)
            old     == ReadBack(running)
            seen    == ReadBack(candidate)  IN
        /\ \A i \in Survivors : Kept(i) /\ ~TwiceThere(i)
        /\ DOMAIN candidate \subseteq DOMAIN running \cup DOMAIN planned
        /\ \A j \in DOMAIN candidate : \A f \in Fields :
            LET i == Origin(plan.renames, j)
                k == Moved(plan.renames, i)  IN
            k \in DOMAIN planned =>
                IF i \in DOMAIN running
                THEN seen[j].fields[f] \in {old[i].fields[f], planned[k].fields[f]}
                ELSE candidate[j].fields[f]
                        \subseteq plan.upserts[j].fields[f] \cup planned[k].fields[f]

(* The guide of `group edit-member`: it adds or removes one member.  What  *)
(* a push changes on the candidate is that member.                         *)
OneMemberAtATime ==
    [][(Send /\ intent.op = "member") =>
        \A i \in DOMAIN candidate : \A f \in Fields :
            \A m \in Members \ {intent.member} :
                m \in candidate[i].fields[f] <=> m \in candidate'[i].fields[f]]_vars
=============================================================================
