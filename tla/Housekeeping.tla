---------------------------- MODULE Housekeeping ----------------------------
(***************************************************************************)
(* Keeping a configuration tidy: objects are set, imported, edited and     *)
(* renamed in the document; reports, with the firewalls' help or without,  *)
(* say what no rule uses; and what they list is deleted (`psc set`,        *)
(* `group`, `rule`, `name rename`, `refs unused`, `refs used`, `delete`,   *)
(* and the workbench spokes over the same plans).                          *)
(*                                                                         *)
(* On a file, changes are staged one after another, and the partial        *)
(* document of the batch is kept along.  On a device a report may scan the *)
(* firewalls first.                                                        *)
(***************************************************************************)
EXTENDS Documents, LiveScan, TeardownPlans, RenamePlans

CONSTANTS
    Starts,     \* where a run starts: [medium, document, registered]
    Puts,       \* what the operator sets: [id, entry]
    Imports,    \* sequences of puts, one kind each
    NewNames,   \* the names given by a rename
    MaxChanges  \* how many changes a run makes

ASSUME HousekeepingAssumption ==
    /\ \A s \in Starts : /\ s.medium \in {"file", "device"} /\ IsDocument(s.document)
                         /\ s.registered \in [Firewalls -> Registrations]
    /\ NewNames \subseteq Names
    /\ MaxChanges \in Nat \ {0}

(* What the commands can be given: an object under a name of its namespace,*)
(* a filter only for a dynamic group; one kind in a file.                  *)
IsPut(put) ==
    /\ put.id \in ObjectIds /\ put.entry \in Entry /\ SpaceOf(put.entry.kind) = put.id.space
    /\ put.entry.kind # "dynamic-group" => \A f \in FilterFields : put.entry.fields[f] = {}

ASSUME PutsAssumption ==
    /\ \A put \in Puts : IsPut(put)
    /\ \A records \in Imports :
          /\ Len(records) \in Nat /\ DOMAIN records = 1..Len(records)
          /\ \A k \in DOMAIN records : IsPut(records[k])
          /\ \A j, k \in DOMAIN records :
                Container(records[j].entry.kind) = Container(records[k].entry.kind)

VARIABLES
    medium,    \* what the configuration is read from: "file" or "device"
    source,    \* the document that was read
    document,  \* the document with the changes
    partial,   \* what the partial document of the changes holds
    changes,   \* the number of changes
    run,       \* the change of the last step, if it is one: [op, plan, puts]
    report     \* the last report, if nothing has changed since

vars == <<medium, source, document, partial, changes, run, report, registered, scan>>

cfg == Parse(document)

NoRun == [op |-> "none", plan |-> EmptyPlan, puts |-> <<>>]
NoReport == [verdict |-> "none", objects |-> {}, live |-> FALSE, enabledOnly |-> FALSE]

Init ==
    /\ \E s \in Starts :
        /\ medium = s.medium
        /\ source = s.document
        /\ registered = s.registered
    /\ document = source
    /\ partial = NothingTouched
    /\ changes = 0
    /\ run = NoRun
    /\ report = NoReport
    /\ scan = NoScan

-----------------------------------------------------------------------------
(* Changes.                                                                *)

(* A plan with a blocker, or with nothing in it, changes nothing and is no *)
(* step.  Bound: after a report only what was reported is deleted, for the *)
(* other changes do not depend on it.                                      *)
Change(op, plan, puts) ==
    /\ changes < MaxChanges
    /\ op = "cleanup" \/ report = NoReport
    /\ scan.phase # "asking"
    /\ ~plan.blocked /\ ~IsEmptyPlan(plan)
    /\ run' = [op |-> op, plan |-> plan, puts |-> puts]
    /\ document' = ApplyDoc(document, plan)
    /\ partial' = Recorded(partial, cfg, plan)
    /\ changes' = changes + 1
    /\ report' = NoReport
    /\ UNCHANGED <<medium, source, registered, scan>>

(* psc set, the create spoke *)
Set ==
    /\ medium = "file"
    /\ LET c == cfg IN
       \E put \in Puts : Change("set", PlanPut(c, put.id, put.entry), <<put>>)

(* The records of a file, one after another.                               *)
Loading(doc, records) ==
    LET loaded[k \in 0..Len(records)] ==
            IF k = 0 THEN doc
            ELSE ApplyDoc(loaded[k - 1], Putting(records[k].id, records[k].entry))
    IN  loaded[Len(records)]

(* psc set -f: the whole file or nothing of it, written as a document of   *)
(* its own: the source of the changes that follow.                         *)
Import ==
    /\ medium = "file" /\ changes = 0 /\ report = NoReport
    /\ \E records \in Imports :
        /\ ~ImportRefused(cfg, records)
        /\ run' = [op |-> "import", plan |-> EmptyPlan, puts |-> records]
        /\ document' = Loading(document, records)
        /\ source' = document'
    /\ changes' = 1
    /\ report' = NoReport
    /\ UNCHANGED <<medium, partial, registered, scan>>

(* psc group, the group spoke *)
EditGroup ==
    /\ medium = "file"
    /\ LET c == cfg IN
       \E g \in {i \in DOMAIN c : c[i].kind \in GroupKinds}, op \in {"add", "remove"}, member \in Names :
          Change("edit", PlanGroupMemberEdit(c, g.name, {g.loc}, op, member), <<>>)

(* psc rule edit, the rule spoke *)
EditRule ==
    /\ medium = "file"
    /\ LET c == cfg IN
       \E r \in {i \in DOMAIN c : i.space \in RuleSpaces}, field \in EditableFields,
          op \in {"add", "remove"}, member \in Names :
            Change("edit", PlanRuleMemberEdit(c, r.name, {r.loc}, field, op, member), <<>>)

Rename ==
    /\ medium = "file"
    /\ LET c == cfg IN
       \E id \in DOMAIN c \cap ObjectIds, new \in NewNames :
          Change("rename", PlanRename(c, id, new), <<>>)

Purge(c, op, targets) ==
    LET cm == [op |-> "purge", targets |-> targets, keepGroups |-> FALSE, keepRules |-> FALSE]
    IN  Change(op, PlanTeardown(c, cm, Cascade(c, cm)), <<>>)

Delete ==
    /\ medium = "file"
    /\ LET c == cfg IN \E id \in DOMAIN c \cap ObjectIds : Purge(c, "delete", {id})

(* What a report listed is deleted, all of it or a pick.                   *)
Cleanup ==
    /\ report.verdict \in {"listed", "unused"}
    /\ \E targets \in {report.objects} \cup {{i} : i \in report.objects} :
        targets # {} /\ Purge(cfg, "cleanup", targets)

-----------------------------------------------------------------------------
(* Reports.                                                                *)

(* Only a command on a device may ask the firewalls. *)
Scanning ==
    /\ medium = "device" /\ changes = 0 /\ report = NoReport
    /\ ScanNext
    /\ UNCHANGED <<medium, source, document, partial, changes, run, report>>

(* Bound: one report of a configuration, a second would not depend on it. *)
Reporting(live, verdict, objects, enabledOnly) ==
    /\ report = NoReport
    /\ scan.phase # "asking"
    /\ live => scan.phase = "done"
    /\ report' = [verdict |-> verdict, objects |-> objects, live |-> live,
                  enabledOnly |-> enabledOnly]
    /\ run' = NoRun
    /\ UNCHANGED <<medium, source, document, partial, changes, registered, scan>>

Seen(live) == IF live THEN ByKey(scan) ELSE NoLive

(* psc refs unused, the unused spoke *)
ReportUnused ==
    LET c == cfg IN
    \E live, ignoreDisabled \in BOOLEAN, kind \in ReportedKinds :
        Reporting(live, "listed", Unused(c, Seen(live), kind, ignoreDisabled), ignoreDisabled)

(* psc refs used --strict: nothing found is an answer only if the scan has *)
(* no gap.                                                                 *)
Trace ==
    LET c == cfg IN
    \E live \in BOOLEAN, id \in DOMAIN c \cap ObjectIds :
        LET referrers == ReferrersOf(c, Seen(live), id)
        IN  Reporting(live,
                IF referrers # {} THEN "used"
                ELSE IF live /\ IsPartial(scan) THEN "unknown" ELSE "unused",
                IF referrers = {} THEN {id} ELSE {}, FALSE)

Next ==
    \/ Set \/ Import \/ EditGroup \/ EditRule \/ Rename \/ Delete \/ Cleanup
    \/ Scanning \/ ReportUnused \/ Trace

Spec == Init /\ [][Next]_vars

-----------------------------------------------------------------------------
(* Properties.                                                             *)

(* Documents stay readable: an entry of a namespace is in one container,   *)
(* and what is read is a configuration.                                    *)
TypeOK ==
    /\ medium \in {"file", "device"}
    /\ IsDocument(source) /\ IsDocument(document)
    /\ IsConfig(cfg)
    /\ partial.present \cap partial.removed = {}
    /\ changes \in 0..MaxChanges
    /\ report.objects \subseteq DOMAIN cfg
    /\ scan.phase \in {"idle", "asking", "done"}
    /\ scan.phase = "asking" <=> scan.todo # {}

(* What a firewall's dynamic group holds: by the tags of the configuration *)
(* or by what is registered there.                                         *)
Holds(c, tags, dag, a) ==
    \/ a \in DagMembers(c, dag)
    \/ /\ tags # {}
       /\ IsShared(dag.loc) \/ \E k \in DOMAIN Chain[dag.loc] : Chain[dag.loc][k] = a.loc
       /\ Satisfies(c[dag], c[a].fields["tag"] \cup tags)

(* The tags of an address on the firewalls the manager named.              *)
TagsOf(c, a) ==
    {{}} \cup (IF report.live /\ c[a].value # Nil
               THEN {scan.held[f][c[a].value] : f \in DOMAIN scan.held} ELSE {})

(* Nothing outside the set, no rule and on no firewall, uses a member.     *)
Isolated(c, set, enabledOnly, filters) ==
    /\ \A r \in {x \in Refs(c) : x.by \notin set /\ ~(enabledOnly /\ x.by \in DisabledRules)} :
          Target(DOMAIN c, r) \notin set
    /\ \A g \in {x \in DOMAIN c \ set : c[x].kind = "dynamic-group"} :
          /\ filters => \A t \in FilterTags(c[g]) : Resolve(DOMAIN c, "tag", t, g.loc) \notin set
          /\ \A a \in {x \in set : c[x].kind = "address"} :
                \A tags \in TagsOf(c, a) : ~Holds(c, tags, g, a)

(* What is reported unused, with all the coverage the report claims, is    *)
(* part of a set that nobody else uses: no rule (or no enabled one), no    *)
(* other object, and on no firewall a dynamic group, whatever the          *)
(* firewalls' registrations and the order they were asked in.  A trace     *)
(* does not look for tags in filters, so that clause is for listings.      *)
CalledUnusedIsUnused ==
    report.verdict \in {"listed", "unused"} /\ ~(report.live /\ IsPartial(scan))
        => LET c == cfg IN
           \E others \in SUBSET ((DOMAIN c \cap ObjectIds) \ report.objects) :
              Isolated(c, report.objects \cup others, report.enabledOnly, report.verdict = "listed")

(* What the fields of a rule stand for, dynamic groups included.           *)
MatchFields == {"source", "destination", "service", "translation", "nexthop"}

Stands(c, live, rule) ==
    [f \in MatchFields \cap Walked(c[rule].kind) |->
        LET heads == {Resolve(DOMAIN c, NsOf(f), n, rule.loc) : n \in c[rule].fields[f]} \ {Nil}
        IN  [values |-> {c[i].value : i \in Below(c, live, heads)},
             others |-> c[rule].fields[f] \cap Predefined]]

(* Deleting what a report of this very configuration listed, all of it or  *)
(* a pick, with whatever groups that empties, leaves every rule (every     *)
(* enabled one, if the report looked at those) with what it stood for.     *)
CleanupKeepsRules ==
    [][changes' > changes /\ run'.op = "cleanup" =>
        LET before == cfg
            after  == cfg'
            live   == Seen(report.live)
        IN  \A rule \in {i \in DOMAIN before : i.space \in RuleSpaces} :
                ~(report.enabledOnly /\ rule \in DisabledRules) =>
                    /\ rule \in DOMAIN after
                    /\ Stands(after, live, rule) = Stands(before, live, rule)]_vars

(* A list that is there without members is given some.                     *)
FillsHollow(puts) ==
    \E k \in DOMAIN puts, f \in Fields :
        LET e == ElementOf(puts[k].entry.kind, puts[k].id)
        IN  /\ e \in DOMAIN document
            /\ puts[k].entry.fields[f] # {} /\ f \notin FilterFields
            /\ document[e].lists[f] # <<>> /\ Shown(document[e].lists[f]) = {}

(* One object is put twice, with two types or modes.                       *)
PutsTwoTypes(puts) ==
    \E j, k \in DOMAIN puts :
        /\ puts[j].id = puts[k].id
        /\ \/ puts[j].entry.kind # puts[k].entry.kind
           \/ TypeOf[puts[j].entry.value] # TypeOf[puts[k].entry.value]

(* What the executor's model says of the records of a file.                *)
Collected(c, records) ==
    LET collected[k \in 0..Len(records)] ==
            IF k = 0 THEN c
            ELSE Apply(collected[k - 1], Putting(records[k].id, records[k].entry))
    IN  collected[Len(records)]

(* The document and the plan tell the same story: what the next parse of   *)
(* the edited elements reads is what the executor's model says, after      *)
(* every change of every sequence.  Two cases are set apart: a list that   *)
(* was emptied before (see UpdatesAreRead), and a file that imports one    *)
(* object with two types.                                                  *)
DocumentFollowsPlan ==
    [][changes' > changes /\ ~FillsHollow(run'.puts) /\ ~PutsTwoTypes(run'.puts) =>
        LET before == cfg IN
        cfg' = IF run'.op = "import"
               THEN Collected(before, run'.puts)
               ELSE Apply(before, run'.plan)]_vars

(* "The round-trip is faithful": what an accepted update gives an object   *)
(* is what is read back from it.                                           *)
UpdatesAreRead ==
    [][changes' > changes /\ run'.op = "set" =>
        \A k \in DOMAIN run'.puts : \A f \in Fields :
            Gives(run'.puts[k].entry, f)
                => cfg'[run'.puts[k].id].fields[f] = run'.puts[k].entry.fields[f]]_vars

(* The partial document of a batch is enough: loaded into the source, with *)
(* the removals it reports, it gives the document with all the changes,    *)
(* also when later changes take back, rename or bring back what earlier    *)
(* ones did.                                                               *)
PartialIsEnough == Loaded(source, partial, document) = document
=============================================================================
