---------------------------- MODULE Reachability ----------------------------
(***************************************************************************)
(* What the rules reach, and what is left unused (psc/core/refs.py,        *)
(* `psc refs unused` and `refs used`, the workbench's unused spoke).       *)
(*                                                                         *)
(* `live` is the answer of the firewalls: for every value the tag sets     *)
(* under which it is registered, one per firewall.  NoLive is the offline  *)
(* case.                                                                   *)
(***************************************************************************)
EXTENDS ChangeSets

CONSTANT DisabledRules  \* the rules that are switched off

ASSUME DisabledRulesAssumption == \A r \in DisabledRules : r \in Ids /\ r.space \in RuleSpaces

NoLive == [v \in Values \cup {Nil} |-> {}]

-----------------------------------------------------------------------------
(* What a dynamic group selects.                                           *)

IsShared(loc) == Len(Chain[loc]) = 1

Satisfies(dag, tags) ==
    dag.fields["filter"] \subseteq tags /\ dag.fields["filter-not"] \cap tags = {}

(* Faulty variant: the tags of all the firewalls are one set. *)
MatchesJoined(c, live, dag, a) ==
    live[c[a].value] # {} /\ Satisfies(c[dag], c[a].fields["tag"] \cup UNION live[c[a].value])

(* _matches_live: the tags of one firewall, with those of the object, are  *)
(* enough.                                                                 *)
MatchesLive(c, live, dag, a) ==
    \E tags \in live[c[a].value] \ {{}} : Satisfies(c[dag], c[a].fields["tag"] \cup tags)

(* _resolve_dags: by configured tags within the group's chain; by what is  *)
(* registered also outside it for a shared group, which reaches every      *)
(* firewall.                                                               *)
Selected(c, live, dag) ==
    DagMembers(c, dag)
    \cup {a \in DOMAIN c :
            /\ c[a].kind = "address"
            /\ IsShared(dag.loc) \/ \E k \in DOMAIN Chain[dag.loc] : Chain[dag.loc][k] = a.loc
            /\ MatchesLive(c, live, dag, a)}

-----------------------------------------------------------------------------
(* Reachability.                                                           *)

(* _members_of: what a group contains, resolved where it is defined.       *)
MembersOf(c, live, i) ==
    LET named == UNION {c[i].fields[f] : f \in Walked(c[i].kind) \cap {"static", "members"}}
    IN  (IF c[i].kind = "dynamic-group" THEN Selected(c, live, i) ELSE {})
        \cup ({Resolve(DOMAIN c, i.space, n, i.loc) : n \in named} \ {Nil})

(* Faulty variant: security rules are the only roots. *)
SecurityRuleSeeds(c, ignoreDisabled) ==
    {Target(DOMAIN c, r) : r \in {x \in Refs(c) :
        x.by.space = "security-rule" /\ ~(ignoreDisabled /\ x.by \in DisabledRules)}} \ {Nil}

(* _rule_seeded_targets: what the rules name, in every rulebase.           *)
RuleSeeds(c, ignoreDisabled) ==
    {Target(DOMAIN c, r) : r \in {x \in Refs(c) :
        x.by.space \in RuleSpaces /\ ~(ignoreDisabled /\ x.by \in DisabledRules)}} \ {Nil}

(* What some objects contain. *)
Contents(c, live, s) == UNION {MembersOf(c, live, i) : i \in s}

(* Everything below some objects: no path down is longer than there are    *)
(* groups.                                                                 *)
Below(c, live, tops) ==
    LET depth == Cardinality({i \in DOMAIN c : SpaceOf(c[i].kind) # c[i].kind})
        below[n \in 0..depth] ==
            IF n = 0 THEN tops ELSE below[n - 1] \cup Contents(c, live, below[n - 1])
    IN  below[depth]

(* reachable_targets *)
ReachedByRules(c, live, ignoreDisabled) == Below(c, live, RuleSeeds(c, ignoreDisabled))

(* _unused_tags: carried by nothing the walk visits, named by no filter.   *)
UnusedTags(c) ==
    LET carried  == {Target(DOMAIN c, r) : r \in {x \in Refs(c) : NsOf(x.field) = "tag"}}
        filtered == UNION {{Resolve(DOMAIN c, "tag", t, g.loc) : t \in FilterTags(c[g])} :
                              g \in {i \in DOMAIN c : c[i].kind = "dynamic-group"}}
    IN  {i \in DOMAIN c : i.space = "tag"} \ (carried \cup filtered)

ReportedKinds == {"address", "address-group", "service", "service-group", "tag"}

OfKind(entry, kind) ==
    entry.kind = kind \/ (kind = "address-group" /\ entry.kind = "dynamic-group")

(* unused *)
Unused(c, live, kind, ignoreDisabled) ==
    IF kind = "tag" THEN UnusedTags(c)
    ELSE {i \in DOMAIN c : OfKind(c[i], kind)} \ ReachedByRules(c, live, ignoreDisabled)

(* where_used: whatever names the object, and the dynamic groups that      *)
(* select it.                                                              *)
ReferrersOf(c, live, i) ==
    {r.by : r \in {x \in Refs(c) : Target(DOMAIN c, x) = i}}
    \cup {g \in DOMAIN c : c[g].kind = "dynamic-group" /\ i \in Selected(c, live, g)}
=============================================================================
