--------------------------- MODULE TeardownProofs ---------------------------
(***************************************************************************)
(* The teardown planners never strand a reference, for every hierarchy,    *)
(* every configuration and every list of targets.                          *)
(***************************************************************************)
EXTENDS Teardown, PlanProofs

(* What the cascade needs to know of the delete set to be planned safely.  *)
IInv == TypeOK /\ DeleteSetInReach

-----------------------------------------------------------------------------
LEMMA InitIInv == Init => IInv
BY InitConfigsAssumption DEF Init, IInv, TypeOK, DeleteSetInReach, NoCommand, Commands, EmptyPlan

(* Executing a plan leaves a well-formed configuration without what the    *)
(* plan deletes.                                                           *)
LEMMA ExecuteStep ==
    ASSUME IInv, Execute
    PROVE  /\ Planning(cfg, cmd, gone)
           /\ IsConfig(cfg')
           /\ DOMAIN plan'.upserts = {} /\ DOMAIN plan'.renames = {}
           /\ plan'.deletes \subseteq ObjectIds /\ plan'.ruleDeletes \subseteq Ids
           /\ (plan'.deletes \cup plan'.ruleDeletes) \cap DOMAIN cfg' = {}
           /\ plan'.blocked \in BOOLEAN
<1>1. Planning(cfg, cmd, gone)
  BY DEF IInv, TypeOK, DeleteSetInReach, Execute, Planning
<1>2. /\ plan' = PlanTeardown(cfg, cmd, gone)
      /\ cfg' = IF plan'.blocked THEN cfg ELSE Apply(cfg, plan')
  BY DEF Execute
<1>3. /\ plan'.upserts = <<>> /\ plan'.renames = <<>> /\ plan'.blocked \in BOOLEAN
      /\ \/ plan'.edits = <<>> /\ plan'.deletes = {} /\ plan'.ruleDeletes = {}
         \/ /\ ~plan'.blocked
            /\ plan'.edits = Draft(cfg, cmd, gone).edits
            /\ plan'.deletes = Draft(cfg, cmd, gone).deletes
            /\ plan'.ruleDeletes = Draft(cfg, cmd, gone).ruleDeletes
  BY <1>1, <1>2, PlanShape
<1>4. \A k \in DOMAIN plan'.edits : plan'.edits[k] \in SUBSET Members
  BY <1>1, <1>3, DraftShape
<1>5. plan'.deletes \subseteq ObjectIds /\ plan'.ruleDeletes \subseteq Ids
  <2>1. /\ Draft(cfg, cmd, gone).deletes \subseteq ObjectIds
        /\ Draft(cfg, cmd, gone).ruleDeletes \subseteq DOMAIN cfg
    BY <1>1, DraftShape DEF Planning
  <2> QED
    BY <1>1, <1>3, <2>1 DEF Planning, IsConfig
<1>6. /\ IsConfig(cfg')
      /\ plan'.blocked \/ DOMAIN cfg' = DOMAIN cfg \ (plan'.ruleDeletes \cup plan'.deletes)
  <2>1. IsConfig(cfg) /\ DOMAIN plan'.upserts = {} /\ DOMAIN plan'.renames = {}
    BY <1>1, <1>3 DEF Planning
  <2> QED
    BY <1>2, <1>4, <2>1, ApplyShape
<1> QED
  BY <1>1, <1>3, <1>5, <1>6

LEMMA NextIInv == IInv /\ [Next]_vars => IInv'
<1> SUFFICES ASSUME IInv, [Next]_vars
             PROVE  IInv'
  OBVIOUS
<1> USE DEF IInv
<1>1. ASSUME NEW targets \in TargetSets, NEW keepGroups \in BOOLEAN, NEW keepRules \in BOOLEAN,
             Decommission(targets, keepGroups, keepRules)
      PROVE  IInv'
  <2>1. \A t \in targets : t \in DOMAIN cfg /\ t.space = "address"
    BY <1>1, ConfigEntry, SpaceOfFacts DEF Decommission, TypeOK
  <2>2. cmd' \in Commands
    BY <1>1, TargetSetsAssumption DEF Decommission, Start, Commands
  <2>3. gone' \subseteq targets /\ gone' \subseteq DOMAIN cfg /\ cmd'.op = "decommission"
    BY <1>1 DEF Decommission, Start, Matched
  <2> QED
    BY <1>1, <2>1, <2>2, <2>3, TargetSetsAssumption
       DEF Decommission, Start, TypeOK, DeleteSetInReach
<1>2. ASSUME NEW targets \in TargetSets, NEW keepGroups \in BOOLEAN, NEW keepRules \in BOOLEAN,
             Purge(targets, keepGroups, keepRules)
      PROVE  IInv'
  <2>1. cmd' \in Commands
    BY <1>2, TargetSetsAssumption DEF Purge, Start, Commands
  <2>2. gone' \subseteq targets /\ gone' \subseteq DOMAIN cfg /\ cmd'.op = "purge"
    BY <1>2 DEF Purge, Start, Matched
  <2> QED
    BY <1>2, <2>1, <2>2, TargetSetsAssumption DEF Purge, Start, TypeOK, DeleteSetInReach
<1>3. ASSUME Grow
      PROVE  IInv'
  <2>1. PICK g \in NewlyEmptyGroups(cfg, gone) : gone' = gone \cup {g}
    BY <1>3 DEF Grow
  <2>2. g \in DOMAIN cfg /\ g \in ObjectIds /\ \E t \in gone : t.space = g.space
    BY NewlyEmptyFacts DEF TypeOK
  <2> QED
    BY <1>3, <2>1, <2>2 DEF Grow, TypeOK, DeleteSetInReach
<1>4. ASSUME Execute
      PROVE  IInv'
  BY <1>4, ExecuteStep DEF Execute, TypeOK, DeleteSetInReach
<1>5. ASSUME Exit
      PROVE  IInv'
  BY <1>5 DEF Exit, TypeOK, DeleteSetInReach, NoCommand, Commands, EmptyPlan
<1>6. ASSUME UNCHANGED vars
      PROVE  IInv'
  BY <1>6 DEF vars, TypeOK, DeleteSetInReach
<1> QED
  BY <1>1, <1>2, <1>3, <1>4, <1>5, <1>6 DEF Next

(* The state keeps its types.                                              *)
THEOREM TeardownTypes == Spec => []TypeOK
BY InitIInv, NextIInv, PTL DEF Spec, IInv

(* Type correctness, and the reach of the delete set: what the cascade of  *)
(* a decommission collects are addresses and address groups.               *)
THEOREM DeleteSetTheorem == Spec => [](TypeOK /\ DeleteSetInReach)
BY InitIInv, NextIInv, PTL DEF Spec, IInv

(* No teardown strands a reference: whatever resolves to nothing after a   *)
(* command resolved to nothing before it.                                  *)
THEOREM NoStrandingTheorem == Spec => NoStranding
<1>1. IInv /\ [Next]_vars => [Unresolved(cfg') \subseteq Unresolved(cfg)]_vars
  <2> SUFFICES ASSUME IInv, Next
               PROVE  Unresolved(cfg') \subseteq Unresolved(cfg)
    BY DEF vars
  <2>1. CASE Execute
    <3>1. Planning(cfg, cmd, gone)
      BY <2>1, ExecuteStep
    <3>2. /\ plan' = PlanTeardown(cfg, cmd, gone)
          /\ cfg' = IF plan'.blocked THEN cfg ELSE Apply(cfg, plan')
      BY <2>1 DEF Execute
    <3>3. /\ cmd.op \in {"decommission", "purge"}
          /\ cmd.op = "decommission" => \A g \in gone : g.space = "address"
      BY <2>1 DEF Execute, IInv, DeleteSetInReach
    <3> QED
      BY <3>1, <3>2, <3>3, TeardownStrandsNothing
  <2>2. CASE ~Execute
    <3>1. cfg' = cfg
      BY <2>2 DEF Next, Decommission, Purge, Start, Grow, Exit
    <3> QED
      BY <3>1
  <2> QED
    BY <2>1, <2>2
<1> QED
  BY <1>1, InitIInv, NextIInv, PTL DEF Spec, NoStranding

(* In whatever order the cascade meets the groups, it collects no more     *)
(* than any set of groups closed under emptying: the least such set.       *)
THEOREM CascadeTheorem == Spec => []CascadeIsLeast
<1> DEFINE Groups(c) == {g \in DOMAIN c : c[g].kind \in {"address-group", "service-group"}}
<1>1. Init => CascadeIsLeast
  BY DEF Init, CascadeIsLeast
<1>2. IInv /\ CascadeIsLeast /\ [Next]_vars => CascadeIsLeast'
  <2> SUFFICES ASSUME IInv, CascadeIsLeast, [Next]_vars, pc' = "grow",
                      NEW groups \in SUBSET Groups(cfg'),
                      NewlyEmptyGroups(cfg', Matched(cfg', cmd') \cup groups) = {}
               PROVE  gone' \subseteq Matched(cfg', cmd') \cup groups
    BY DEF CascadeIsLeast
  <2>1. ASSUME NEW c, Start(c)
        PROVE  gone' \subseteq Matched(cfg', cmd') \cup groups
    BY <2>1 DEF Start
  <2>2. CASE Grow
    <3>1. PICK g \in NewlyEmptyGroups(cfg, gone) : gone' = gone \cup {g}
      BY <2>2 DEF Grow
    <3>2. cfg' = cfg /\ cmd' = cmd /\ pc = "grow"
      BY <2>2 DEF Grow
    <3>3. gone \subseteq Matched(cfg, cmd) \cup groups
      BY <3>2 DEF CascadeIsLeast
    <3>4. g \in Matched(cfg, cmd) \cup groups
      BY <3>2, <3>3, NewlyEmptyMonotone DEF IInv, TypeOK
    <3> QED
      BY <3>1, <3>2, <3>3, <3>4
  <2>3. CASE UNCHANGED vars
    BY <2>3 DEF vars, CascadeIsLeast
  <2>4. ~Execute /\ ~Exit
    BY DEF Execute, Exit
  <2> QED
    BY <2>1, <2>2, <2>3, <2>4 DEF Next, Decommission, Purge
<1> QED
  BY <1>1, <1>2, InitIInv, NextIInv, PTL DEF Spec

(* A step that changes the configuration executes a plan that is not       *)
(* blocked, and what a plan leaves was there.                              *)
LEMMA ChangeStep ==
    ASSUME IInv, Next, cfg' # cfg
    PROVE  /\ Execute /\ Planning(cfg, cmd, gone)
           /\ cmd.op \in {"decommission", "purge"}
           /\ cmd.op = "decommission" => \A g \in gone : g.space = "address"
           /\ plan' = PlanTeardown(cfg, cmd, gone)
           /\ cfg' = Apply(cfg, PlanTeardown(cfg, cmd, gone))
<1>1. Execute
  BY DEF Next, Decommission, Purge, Start, Grow, Exit
<1>2. Planning(cfg, cmd, gone)
  BY <1>1, ExecuteStep
<1> QED
  BY <1>1, <1>2 DEF Execute, IInv, DeleteSetInReach

(* The scrub is minimal: a survivor loses only names that mean nothing any *)
(* more.                                                                   *)
THEOREM OnlyBrokenTheorem == Spec => OnlyBrokenNamesGo
<1> DEFINE Lost(r) == r.by \in DOMAIN cfg' /\ r.name \notin cfg'[r.by].fields[r.field]
           Minimal == ~cmd.keepGroups =>
                         \A r \in Refs(cfg) : Lost(r) => Target(DOMAIN cfg', r) = Nil
<1>1. IInv /\ [Next]_vars => [Minimal]_vars
  <2> SUFFICES ASSUME IInv, Next, ~cmd.keepGroups, NEW r \in Refs(cfg), Lost(r)
               PROVE  Target(DOMAIN cfg', r) = Nil
    BY DEF vars
  <2>1. /\ IsConfig(cfg) /\ r.by \in DOMAIN cfg /\ r.field \in Walked(cfg[r.by].kind)
        /\ r.name \in cfg[r.by].fields[r.field]
        /\ r.by.loc \in Locs /\ r.name \in Names /\ NsOf(r.field) \in Spaces
        /\ r = [by |-> r.by, field |-> r.field, name |-> r.name]
    BY RefsType DEF IInv, TypeOK
  <2>2. cfg' # cfg
    BY <2>1
  <2>3. /\ Planning(cfg, cmd, gone) /\ plan' = PlanTeardown(cfg, cmd, gone)
        /\ cfg' = Apply(cfg, PlanTeardown(cfg, cmd, gone))
    BY <2>2, ChangeStep
  <2>4. PICK q \in Refs(cfg) : /\ q.by = r.by /\ q.field = r.field /\ q.name = r.name
                               /\ Breaks(cfg, q, gone)
    BY <2>1, <2>3, LostMember
  <2>5. q = r
    BY <2>1, <2>4, RefsType
  <2>6. Target(DOMAIN cfg \ gone, r) = Nil
    BY <2>4, <2>5 DEF Breaks
  <2>7. DOMAIN cfg' \subseteq DOMAIN cfg \ gone
    BY <2>1, <2>3, LostMember
  <2> QED
    BY <2>1, <2>6, <2>7, ResolveMonotone DEF Target
<1> QED
  BY <1>1, InitIInv, NextIInv, PTL DEF Spec, OnlyBrokenNamesGo

(* A reference that keeps its name and means another object is reported.   *)
THEOREM RebindsTheorem == Spec => RebindsAreNoted
<1> DEFINE Noted == \A r \in Refs(cfg) \cap Refs(cfg') :
                       Target(DOMAIN cfg, r) # Target(DOMAIN cfg', r) => r \in plan'.notes
<1>1. IInv /\ [Next]_vars => [Noted]_vars
  <2> SUFFICES ASSUME IInv, Next, NEW r \in Refs(cfg) \cap Refs(cfg'),
                      Target(DOMAIN cfg, r) # Target(DOMAIN cfg', r)
               PROVE  r \in plan'.notes
    BY DEF vars
  <2>1. /\ Planning(cfg, cmd, gone) /\ cmd.op \in {"decommission", "purge"}
        /\ cmd.op = "decommission" => \A g \in gone : g.space = "address"
        /\ plan' = PlanTeardown(cfg, cmd, gone)
        /\ cfg' = Apply(cfg, PlanTeardown(cfg, cmd, gone))
    BY ChangeStep
  <2> QED
    BY <2>1, RebindNoted
<1> QED
  BY <1>1, InitIInv, NextIInv, PTL DEF Spec, RebindsAreNoted

(* The cascade goes far enough: no surviving group is emptied.             *)
THEOREM NoGroupEmptiedTheorem == Spec => NoGroupEmptied
<1> DEFINE Kept == (pc' = "done" /\ ~cmd.keepGroups) =>
                      \A g \in DOMAIN cfg' : cfg'[g].kind \in {"address-group", "service-group"} =>
                          (MemberRefs(cfg', g) = {} => MemberRefs(cfg, g) = {})
<1>1. IInv /\ [Next]_vars => [Kept]_vars
  <2> SUFFICES ASSUME IInv, Next, ~cmd.keepGroups, NEW g \in DOMAIN cfg',
                      cfg'[g].kind \in {"address-group", "service-group"},
                      MemberRefs(cfg', g) = {}, MemberRefs(cfg, g) # {}
               PROVE  FALSE
    BY DEF vars
  <2> DEFINE field == ListField(cfg[g].kind)
  <2>1. cfg' # cfg
    OBVIOUS
  <2>2. /\ Execute /\ Planning(cfg, cmd, gone) /\ plan' = PlanTeardown(cfg, cmd, gone)
        /\ cfg' = Apply(cfg, PlanTeardown(cfg, cmd, gone))
    BY <2>1, ChangeStep
  <2>3. IsConfig(cfg)
    BY <2>2 DEF Planning
  <2>4. g \in DOMAIN cfg /\ cfg'[g].kind = cfg[g].kind
    BY <2>2, SurvivorKind
  <2>5. field \in Walked(cfg[g].kind)
    BY <2>4, WalkedFacts DEF ListField
  <2> HIDE DEF field
  <2>6. ASSUME NEW m \in cfg[g].fields[field]
        PROVE  /\ g \notin gone
               /\ \E q \in Refs(cfg) : q.by = g /\ q.field = field /\ q.name = m /\ Breaks(cfg, q, gone)
    <3>1. cfg'[g].fields[field] = {}
      BY <2>4 DEF MemberRefs, field
    <3> QED
      BY <2>2, <2>5, <3>1, LostMember
  <2>7. MemberRefs(cfg, g) = {[by |-> g, field |-> field, name |-> m] : m \in cfg[g].fields[field]}
    BY DEF MemberRefs, field
  <2>8. g \notin gone
    BY <2>6, <2>7
  <2>9. NewlyEmptyGroups(cfg, gone) = {}
    BY <2>2 DEF Execute
  <2>10. PICK r \in MemberRefs(cfg, g) : ~Breaks(cfg, r, gone)
    BY <2>4, <2>8, <2>9 DEF NewlyEmptyGroups
  <2>11. PICK m \in cfg[g].fields[field] : r = [by |-> g, field |-> field, name |-> m]
    BY <2>7
  <2>12. PICK q \in Refs(cfg) : q.by = g /\ q.field = field /\ q.name = m /\ Breaks(cfg, q, gone)
    BY <2>6
  <2>13. q = r
    BY <2>3, <2>11, <2>12, RefsType
  <2> QED
    BY <2>10, <2>12, <2>13
<1> QED
  BY <1>1, InitIInv, NextIInv, PTL DEF Spec, NoGroupEmptied

-----------------------------------------------------------------------------
(* What a teardown leaves reads like a configuration the parser delivers.  *)
LEMMA AsParsedKept ==
    ASSUME NEW c, NEW cm, NEW dead, Planning(c, cm, dead), AsParsed(c)
    PROVE  AsParsed(Apply(c, PlanTeardown(c, cm, dead)))
<1> DEFINE new == Apply(c, PlanTeardown(c, cm, dead))
<1> SUFFICES ASSUME NEW i \in DOMAIN new
             PROVE  /\ \A f \in AnyFields(new[i].kind) : new[i].fields[f] # {}
                    /\ new[i].kind = "dynamic-group" => FilterTags(new[i]) # {}
  BY DEF AsParsed
<1>1. i \in DOMAIN c /\ new[i].kind = c[i].kind
  BY SurvivorKind
<1>2. ASSUME NEW f \in AnyFields(c[i].kind) PROVE new[i].fields[f] # {}
  <2>1. f \in Fields
    BY AnyFieldFacts
  <2> DEFINE p == PlanTeardown(c, cm, dead)
  <2>2. p = PlanTeardown(c, cm, dead) /\ i \in DOMAIN Apply(c, p) /\ new = Apply(c, p)
    OBVIOUS
  <2> HIDE DEF p, new
  <2> QED
    BY <2>1, <2>2, SurvivorList
<1>3. ASSUME c[i].kind = "dynamic-group" PROVE FilterTags(new[i]) # {}
  <2>1. /\ new[i].fields["filter"] = c[i].fields["filter"]
        /\ new[i].fields["filter-not"] = c[i].fields["filter-not"]
    BY <1>3, UneditedList DEF Fields
  <2>2. FilterTags(c[i]) # {}
    BY <1>1, <1>3 DEF AsParsed
  <2> HIDE DEF new
  <2> QED
    BY <2>1, <2>2 DEF FilterTags
<1> QED
  BY <1>1, <1>2, <1>3

LEMMA AlwaysParsed == Spec => [](IInv /\ AsParsed(cfg))
<1>1. Init => AsParsed(cfg)
  BY InitConfigsAssumption DEF Init
<1>2. IInv /\ AsParsed(cfg) /\ [Next]_vars => AsParsed(cfg)'
  <2> SUFFICES ASSUME IInv, AsParsed(cfg), Next, cfg' # cfg PROVE AsParsed(cfg)'
    BY DEF vars
  <2> QED
    BY ChangeStep, AsParsedKept
<1> QED
  BY <1>1, <1>2, InitIInv, NextIInv, PTL DEF Spec

(* No command that may delete rules widens one: what the scrub would leave *)
(* without a source, destination, service or application goes with it.     *)
THEOREM WidenedTheorem == Spec => NeverWidened
<1> DEFINE Narrow == ~cmd.keepRules =>
              \A i \in DOMAIN cfg' : \A f \in AnyFields(cfg'[i].kind) :
                  AnyName \in cfg'[i].fields[f] => AnyName \in cfg[i].fields[f]
<1>1. IInv /\ AsParsed(cfg) /\ [Next]_vars => [Narrow]_vars
  <2> SUFFICES ASSUME IInv, AsParsed(cfg), Next, ~cmd.keepRules, cfg' # cfg,
                      NEW i \in DOMAIN cfg', NEW f \in AnyFields(cfg'[i].kind),
                      AnyName \in cfg'[i].fields[f]
               PROVE  AnyName \in cfg[i].fields[f]
    BY DEF vars
  <2> DEFINE p == PlanTeardown(cfg, cmd, gone)
             list == NewList(cfg, p.edits, i, f)
  <2>1. /\ Planning(cfg, cmd, gone) /\ cmd.op \in {"decommission", "purge"}
        /\ cmd.op = "decommission" => \A g \in gone : g.space = "address"
        /\ cfg' = Apply(cfg, p)
    BY ChangeStep
  <2> HIDE DEF p
  <2>2. i \in DOMAIN cfg /\ cfg'[i].kind = cfg[i].kind
    BY <2>1, SurvivorKind DEF p
  <2>3. f \in Fields /\ f \in AnyFields(cfg[i].kind)
    BY <2>2, AnyFieldFacts
  <2>4. /\ i \notin p.ruleDeletes
        /\ list = {} \/ cfg'[i].fields[f] = list
    <3>1. i \in DOMAIN Apply(cfg, p) /\ p = PlanTeardown(cfg, cmd, gone)
      BY <2>1 DEF p
    <3> HIDE DEF list
    <3> QED
      BY <2>1, <2>3, <3>1, SurvivorList DEF list
  <2>5. \/ list = cfg[i].fields[f]
        \/ /\ <<i, f>> \in DOMAIN p.edits
           /\ list = p.edits[<<i, f>>] /\ list \subseteq cfg[i].fields[f]
    BY <2>1, <2>2, <2>3, AnyFieldList DEF p
  <2>6. cfg[i].fields[f] # {}
    BY <2>2, <2>3 DEF AsParsed
  <2> HIDE DEF list
  <2>7. list # {}
    BY <2>1, <2>2, <2>3, <2>4, <2>5, <2>6, EmptiedOrphans DEF p
  <2> QED
    BY <2>4, <2>5, <2>7
<1>2. Spec => [][Narrow]_vars
  BY <1>1, AlwaysParsed, PTL DEF Spec
<1> QED
  BY <1>2 DEF NeverWidened

-----------------------------------------------------------------------------
(* A dynamic group that a plan leaves lost no address to it: the plan would*)
(* have been blocked.                                                      *)
LEMMA DagAddressesStay ==
    ASSUME NEW c, NEW cm, NEW dead, Planning(c, cm, dead), AsParsed(c),
           cm.op \in {"decommission", "purge"},
           \A i \in dead : c[i].kind = "address" => i \in Matched(c, cm),
           NEW p, p = PlanTeardown(c, cm, dead),
           NEW g \in DOMAIN c, g \notin p.deletes,
           c[g].kind = "dynamic-group", c[g].fields["filter-not"] = {},
           NEW i \in DagMembers(c, g)
    PROVE  i \in DOMAIN c \ (p.ruleDeletes \cup p.deletes)
<1> DEFINE d == Draft(c, cm, dead)
<1>1. /\ i \in DOMAIN c /\ c[i].kind = "address"
      /\ c[g].fields["filter"] \subseteq c[i].fields["tag"]
  BY DEF DagMembers
<1>2. \/ p.deletes = {} /\ p.ruleDeletes = {}
      \/ /\ ~Blocked(c, cm, dead)
         /\ p.deletes = d.deletes /\ p.ruleDeletes = d.ruleDeletes
  BY PlanShape
<1>3. /\ d.deletes = IF cm.keepGroups THEN {} ELSE dead
      /\ d.ruleDeletes \subseteq {j \in DOMAIN c : c[j].kind \in RuleSpaces}
  BY DraftShape
<1>4. i \notin d.ruleDeletes
  BY <1>1, <1>3 DEF RuleSpaces
<1>5. ASSUME i \in p.deletes PROVE FALSE
  <2>1. /\ ~Blocked(c, cm, dead) /\ p.deletes = d.deletes
    BY <1>2, <1>5
  <2>2. ~cm.keepGroups /\ i \in dead /\ g \notin dead
    BY <1>3, <1>5, <2>1
  <2>3. i \in Matched(c, cm)
    BY <1>1, <2>2
  <2>4. PICK t \in c[g].fields["filter"] : TRUE
    BY DEF AsParsed, FilterTags
  <2>5. DagBlocks(c, cm, dead)
    <3> DEFINE tags == UNION {c[u].fields["tag"] : u \in {v \in Matched(c, cm) : c[v].kind = "address"}}
                       \cup {u.name : u \in {v \in Matched(c, cm) : v.space = "tag"}}
    <3>1. t \in tags
      BY <1>1, <2>3, <2>4
    <3>2. t \in FilterTags(c[g])
      BY <2>4 DEF FilterTags
    <3>3. tags \cap FilterTags(c[g]) # {}
      BY <3>1, <3>2
    <3> HIDE DEF tags
    <3>4. \E h \in DOMAIN c : /\ c[h].kind = "dynamic-group"
                              /\ cm.op = "purge" => h \notin dead
                              /\ tags \cap FilterTags(c[h]) # {}
      BY <2>2, <3>3
    <3> QED
      BY <2>2, <3>4 DEF DagBlocks, tags
  <2> QED
    BY <2>1, <2>5 DEF Blocked
<1> QED
  BY <1>1, <1>2, <1>4, <1>5

LEMMA DagMembersKept ==
    ASSUME NEW c, NEW cm, NEW dead, Planning(c, cm, dead), AsParsed(c),
           cm.op \in {"decommission", "purge"},
           \A i \in dead : c[i].kind = "address" => i \in Matched(c, cm),
           NEW new, new = Apply(c, PlanTeardown(c, cm, dead)),
           NEW g \in DOMAIN new, new[g].kind = "dynamic-group", new[g].fields["filter-not"] = {}
    PROVE  DagMembers(new, g) = DagMembers(c, g)
<1> DEFINE p == PlanTeardown(c, cm, dead)
<1>1. g \in DOMAIN c /\ c[g].kind = "dynamic-group"
  BY SurvivorKind
<1>2. /\ new[g].fields["filter"] = c[g].fields["filter"]
      /\ new[g].fields["filter-not"] = c[g].fields["filter-not"]
  BY <1>1, UneditedList DEF Fields
<1>3. DOMAIN new = DOMAIN c \ (p.ruleDeletes \cup p.deletes)
  <2>1. /\ DOMAIN p.upserts = {} /\ DOMAIN p.renames = {}
        /\ \A k \in DOMAIN p.edits : p.edits[k] \in SUBSET Members
    BY PlanShape, DraftShape
  <2>2. new = Apply(c, p)
    OBVIOUS
  <2> HIDE DEF p
  <2> QED
    BY <2>1, <2>2, ApplyShape DEF Planning
<1>4. ASSUME NEW i \in DOMAIN new
      PROVE  /\ i \in DOMAIN c /\ new[i].kind = c[i].kind
             /\ c[i].kind = "address" => new[i].fields["tag"] = c[i].fields["tag"]
  BY SurvivorKind, UneditedList DEF Fields
<1>5. DagMembers(new, g) \subseteq DagMembers(c, g)
  BY <1>2, <1>4 DEF DagMembers
<1>6. ASSUME NEW i \in DagMembers(c, g) PROVE i \in DagMembers(new, g)
  <2>1. p = PlanTeardown(c, cm, dead) /\ g \notin p.deletes
    BY <1>3
  <2> HIDE DEF p
  <2>2. i \in DOMAIN new
    BY <1>1, <1>2, <1>3, <2>1, DagAddressesStay
  <2> QED
    BY <1>2, <1>4, <2>2 DEF DagMembers
<1> QED
  BY <1>5, <1>6

(* What a surviving dynamic group of required tags selects is never        *)
(* deleted under it.                                                       *)
THEOREM DagTheorem == Spec => RequiringDagsKeepMembers
<1> DEFINE Same == \A g \in DOMAIN cfg' :
              (cfg'[g].kind = "dynamic-group" /\ cfg'[g].fields["filter-not"] = {})
                  => DagMembers(cfg', g) = DagMembers(cfg, g)
<1>1. IInv /\ AsParsed(cfg) /\ CascadeIsLeast /\ [Next]_vars => [Same]_vars
  <2> SUFFICES ASSUME IInv, AsParsed(cfg), CascadeIsLeast, Next, cfg' # cfg,
                      NEW g \in DOMAIN cfg',
                      cfg'[g].kind = "dynamic-group", cfg'[g].fields["filter-not"] = {}
               PROVE  DagMembers(cfg', g) = DagMembers(cfg, g)
    BY DEF vars
  <2>1. /\ Execute /\ Planning(cfg, cmd, gone) /\ cmd.op \in {"decommission", "purge"}
        /\ cfg' = Apply(cfg, PlanTeardown(cfg, cmd, gone))
    BY ChangeStep
  <2>2. \A i \in gone : cfg[i].kind = "address" => i \in Matched(cfg, cmd)
    <3> DEFINE groups == {h \in DOMAIN cfg : cfg[h].kind \in {"address-group", "service-group"}}
    <3>1. NewlyEmptyGroups(cfg, Matched(cfg, cmd) \cup groups) = {}
      BY DEF NewlyEmptyGroups
    <3>2. gone \subseteq Matched(cfg, cmd) \cup groups
      BY <2>1, <3>1 DEF CascadeIsLeast, Execute
    <3> QED
      BY <3>2
  <2> QED
    BY <2>1, <2>2, DagMembersKept
<1>2. Spec => [][Same]_vars
  BY <1>1, AlwaysParsed, CascadeTheorem, PTL DEF Spec
<1> QED
  BY <1>2 DEF RequiringDagsKeepMembers
=============================================================================
