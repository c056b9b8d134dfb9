# panorama-super-cli in TLA+

This directory specifies `psc`, the command line and terminal workbench that
edits Palo Alto Panorama configurations, checks the specifications with TLC on
small instances, and proves the main theorems about the teardown commands, the push, the
workbench session and its deliveries, the hierarchy loops, the edited document, the firewall
scan and the commands that rename, merge, move and promote with TLAPS. `src/` below is the repository; `psc/...` stands for `src/psc/...`.

## 1. The system

psc reads one configuration (a file export, or a live manager over its XML API)
into an immutable snapshot. A *planner* turns a command and the snapshot into a
`ChangeSet`: a list of operations, warnings and blockers. A plan with a blocker
carries no operation. A plan is executed by one of two *appliers*: the offline
one edits an XML tree and writes it to a file, the live one sends one API call per
operation to the manager's candidate configuration. The workbench is a session
around the same planners: it stages plans, each computed on the configuration the
ones before it produced, and delivers the batch at the end.

| component | state | operations | talks to |
|---|---|---|---|
| reference model (`core/models.py`, `refs.py`, `parse.py`) | snapshot: objects and rules by kind, name, location | resolve a name up the ancestor chain, walk references, dangling, `reference_breaks` | asked by every planner |
| changeset and offline applier (`core/changeset.py`, `apply_xml.py`) | the plan; the XML tree | gate, upsert, edit, rule delete, rename, delete | planners fill it, appliers drain it |
| teardown (`core/decommission.py`, `purge.py`) | the growing delete set | decommission, delete | graph, gate |
| authoring (`core/crud.py`, `group_edit.py`, `rule_edit.py`) | none | create or update, new group, member add or remove | graph |
| naming, merge, relocation, promotion (`core/naming.py`, `dedup.py`, `relocate.py`, `promote.py`) | none | rename, merge, move, promote | graph, gate |
| live source (`core/source.py`, `apply_live.py`) | running and candidate configuration (the manager's), memoised snapshot | push a plan operation by operation | manager |
| workbench session (`tui/session.py`, `tui/app.py`, spokes) | source, working configuration, staged changes, selection, results | search, select, stage, drop, apply, reload | planners, offline applier, live source |
| delivery (`tui/screens/apply.py`, `profiles.py`) | disposition, path, confirmation latch | ask, confirm, write, push, reload | session, file system, live source |
| hierarchy (`core/models.py`) | parent links | `ancestors`, `descendant_dgs` | everything that resolves |
| reachability (`core/refs.py`, `cli/refs_cmds.py`, unused and usage screens) | none | unused, used, where-used; what is listed can be deleted | graph, teardown |
| live tags (`core/livedag.py`, `dagfilter.py`, `source.py`) | what the firewalls answered | scan of the registered addresses | manager, firewalls, reachability |
| import and set commands (`core/portability.py`, `cli/set_cmds.py`) | none | set one object, import a file of records | authoring planners |
| reports, export (`core/inspect.py`, `audit.py`, `diff.py`, `setcmd.py`) | none | inspect, audit, diff, find, export | read-only |

What is hard in it, and where a unit test would hardly reach:

- **Shadowing.** A name means the closest definition up the device-group chain,
  so deleting, creating or moving one definition changes what untouched references
  mean. Whole-plan questions ("does anything resolve to nothing once *all* of this
  is gone?") have different answers from one-object questions.
- **Fixpoints.** Deleting an object empties groups, which are deleted, which
  empties groups.
- **Compounding.** Staged changes are planned on each other and replayed on
  something else after a drop.
- **Partial failure.** A push stops at any operation, before or after it took
  effect, and is run again; a write is killed between two steps.
- **Confirmations.** What was asked about may not be what is done when the key is
  pressed the second time.
- **Two forms of one thing.** Plans are made on the snapshot and carried out on the elements of a
  document, which can hold empty and repeated lists that the snapshot does not show.
- **Partial knowledge.** Whether an address is in use may be known to a firewall only, and a
  firewall may be away, answer late or answer in part.
- **Stale views.** Search rows, selections and the running configuration are older
  than what they are used on.

`PROJECT.json` lists these as hazards, each at its line with the properties that
look at it.

## 2. Modules

| module | models | kind |
|---|---|---|
| `Panorama` | configurations, resolution, references, dynamic groups | operators |
| `ChangeSets` | plans, the gate, the offline executor and what the next parse reads | operators |
| `TeardownPlans` | the two teardown planners | operators |
| `Teardown` | commands one after another, the cascade one group at a time | state machine |
| `AuthoringPlans` | creating objects and groups, editing memberships | operators |
| `Workbench` | the session over real plans | state machine |
| `ChangeLedger` | the fate of a staged change | abstract specification |
| `BatchDelivery` | apply screen, latch, atomic write, push, reload, kill | state machine; implements `ChangeLedger` |
| `LivePush` | the plan of every changing command on the wire, with failures, retries, commit, revert | state machine |
| `DeviceGroups` | the two hierarchy loops | state machine |
| `Meaning` | what a group expands to, which groups are equivalent | operators |
| `MergePlans`, `RenamePlans`, `MovePlans`, `PromotePlans` | the planners of `dedup.py`, `naming.py`, `relocate.py`, `promote.py` | operators |
| `Reorganization` | rename, scheme, merge, move and promote commands one after another | state machine |
| `Documents` | the elements of a document: parsing, the executor, the partial document of a batch | operators |
| `Reachability` | what the rules reach, unused objects and tags, where-used | operators |
| `LiveScan` | the scan of the firewalls, with failures and registrations that change meanwhile | state machine |
| `Housekeeping` | set, import, edit, rename, delete, report, clean up, on a document | state machine; composes the three above with the planners |
| `PlanProofs` | resolution, the executor, what shape the plans of each planner have, sequences without duplicates | lemmas |
| `TeardownProofs`, `WorkbenchProofs`, `LivePushProofs`, `BatchDeliveryProofs`, `DeviceGroupsProofs`, `HousekeepingProofs`, `ReorganizationProofs` | the state machines of the same names | theorems |
| `MC*` | instances | model checking |

`ChangeSets` extends `Panorama`; the planners extend `ChangeSets`; `Teardown`,
`Workbench`, `LivePush` and `Reorganization` extend the planners, so a plan in the workbench or on
the wire is the very plan that `Teardown` checks and the proofs speak of.
Operators described as *faulty variant* in a comment are seeded defects: each is
the operator next to it with one plausible bug, and `PROJECT.json` names the
property that finds it. No specification uses them.

### Panorama and ChangeSets

A configuration is a function from identities `[space, name, loc]` to entries. Two
objects of one namespace in one location cannot share a name, in PAN-OS and in
this representation alike; addresses, address-groups and dynamic groups share the
space `"address"`. Member lists are sets. `Resolve` is the climb of
`_NamespaceIndex.resolve` along `Chain`, which is the ancestor sequence
`DeviceGroups` computes. `Refs` is the walk of `ReferenceGraph`, with its omissions: a
service-group's own tags are not visited. Filters of dynamic groups are
conjunctions of required and excluded tags. Rule names are one namespace per
kind and location: the pre- and post-rulebases are not told apart. `ChainSelfAssumption`: a location
is in its own chain, as `ancestors` starts with its argument.

`Apply` executes a plan in the executor's order and then reads it back: an empty
list of a rule is `any` for the parser (`parse.py:65-67`), which is how a conversion
becomes a behaviour. The elements a configuration is read from are `Documents`.

### Teardown

`Decommission` and `Purge` start a command; `Grow` is one pass finding one newly
empty group, any order; `Execute` builds the plan from the final delete set and
applies it unless it is blocked; `Exit` ends the process. The configuration stays
and the next command reads it, so sequences of commands are covered. The first configuration
is one the parser delivers (`AsParsed`): an empty field of a rule reads as `any`, and a filter has a condition.

### Workbench

One handler runs at a time and a spoke on the screen stack disables the hub, so
confirming a spoke is one action that plans again from the working configuration
and the live selection, applies, records, and reconciles. Several items are deleted one
after another (`StagedForEach`), each planned on what the one before left. `results` may be older than
`working`; nothing refreshes it but a search. `Drop` replays what remains from
`source`. `committed` counts delivered changes so that properties can speak of the
time before the first delivery.

### BatchDelivery and ChangeLedger

Changes are numbers here. The write is two actions (temporary sibling, rename) and the
push one per change; `Kill` may come between, and the process starts again with a
source of its choice. The refinement maps `pending` to the set of staged changes,
`delivered` and `forgotten` are history variables of `BatchDelivery`. Paths are spellings: `FileOf` says
which file each means, so an alias of the source is another path to one file. The code compares the
destination with the source and not the destination's temporary sibling (`session.py:351`).

### LivePush

`PlanFor` is the plan of a command: of every command that ends in `complete()` (`cli/_plan.py`) and of the
new group of the workbench. `Refused` is the part of `plan_xapi_ops` that raises: a blocked plan, or one that updates
an existing object. `Ops` gives the operations the rest of it makes: a set per upsert, an edit per rewritten
list, a delete per rule and object, a rename per rename; `Rank` their order: sets, edits, rule deletes,
renames, deletes, and within a teardown's deletes the order by kind of `purge.py`. Apart from that the order within a class
is left open, so every order the planners produce is among those checked (a cascade lists what a group needs before the
group; here the group may come first).

`Effect` is what the manager does with a call: *external*, taken from how `source.py` uses it and from what
`apply_live.py` says of it. A set merges members into an existing entry. An edit replaces one list and needs the entry to
exist; without members it is a delete of that list. A delete of an absent entry succeeds. A rename gives an entry its new name, needs the entry
to exist and the name to be free, and leaves every list as it is: psc sends the rewritten lists itself. A call may fail before
or after it took effect.

So a rename on the wire passes through states in which the rewritten lists name something that is not
there yet, as the order of `plan_xapi_ops` has it (`apply_live.py:181-199`) and `docs/guides/safety.md` documents it.
`SurvivorsNeverDangle` excepts exactly these references (`AwaitsRename`): by the new name, in the namespace of the object, while
its rename has not been executed. And a rename whose answer was lost is planned again from the running configuration,
finds the old entry gone from the candidate (`Executable`), and fails each time; `PushedIsPlan` is about pushes that
end, and what such a candidate holds until it is reverted is the subject of `NothingUnplanned`.

`IntentsAssumption` says what the commands are: a decommission is of addresses, what is created has the kind
of its space, an imported file names each object once, a tag is not made a group of, only kinds that the command line admits are
promoted. A rename is of the kind it names: `PlanRename` looks at what the identity holds. A name the operator adds with a
member edit may resolve to nothing, as the code lets it; `SurvivorsNeverDangle` excepts that name.

### DeviceGroups

`Climb`/`Top` are the loop of `ancestors`, `Each`/`Walk`/`Return` the two loops of
`descendant_dgs`. Initial states are all parent links over the groups, cyclic and dangling ones
included, filtered as `parse_config` filters them. `Above` is the reference: the least set that holds the parent
of the group and the parents of what it holds.

### Reorganization and its planners

Five commands change where objects are or what they are called and are meant to leave
what every rule matches alone. Each action selects what the command line or the
workbench screen can select, plans, and applies the plan unless it is blocked; `Exit` ends the
command. `op` names the command, `plan` is what it planned.

- `Meaning`: a group's leaves, resolved where each name is written. Unknown as soon as one member,
  however deep, is unresolved or dynamic.
- `MergePlans`: `Repoints` is `plan_repoints` for a whole set of departing objects at once; the chained
  edits of `plan_merge_bucket` and `plan_apply_scheme` are one substitution. `FieldMembers` keeps the
  code's answer for an address-group: its static members, whatever field was asked for.
- `RenamePlans`: the visibility cone, and the batch in which one clash refuses everything. The name a
  scheme implies for a value is the constant `SchemeName`.
- `MovePlans`: the gates of `promotion_blocker`, and the cascade's closure.
- `PromotePlans`: a bucket is a sequence in rank order. `Claims` is what each copy brings along under
  which name, `Folded` the claims that are carried out, `Conflict` the reason not to. A tie in
  depth is broken in some fixed order, not by name. `PlanPromoteAll` leaves out what is blocked and what
  collides, then prunes retained copies.

### Documents

An entry is `[tag, name, loc]`, the tag being the container it is in; below it are value elements,
at most one per type, and for every field the *sequence* of member lists of that name: none, one, or
two where the executor appends. `Parse` is `parse_config`: the first list counts, the first type in
`TypeOrder` counts, a group with a filter is dynamic. `IsDocument` says what PAN-OS would save: no name
of a namespace is in two containers of one location. `ApplyDoc` is `apply_changeset` on the
elements, so `Apply` of `ChangeSets` is what it should amount to, and the property
`DocumentFollowsPlan` says that it does: the diagram plan-apply-parse commutes for every change of
every sequence. `Recorded` is `_collect_touched`, one changeset at a time. `Loaded` is *external*:
loading a partial document replaces the entries it holds, and the operator then carries out the
removals that the document can only mention in comments.

### Reachability and LiveScan

`Below` is the closure of `reachable_targets`. A filter of a dynamic group is a conjunction;
`MatchesLive` evaluates it once per firewall. `LiveScan` is `live_dag_membership`: `StartScan` reads the list of
firewalls (a row is connected, unreadable, or missing), `Answer` and `Fail` follow in any order, the
rows of `lost` named no address. `Register` is *external*: a firewall that was not asked yet changes
what it holds. `scan.held` remembers what each firewall held when it was asked, for the properties only.

### Housekeeping

The configuration is a document. On a file, changes are staged: each is planned on what is read from
the document, applied to it, and recorded in `partial`. `Import` is a command of its own and its
result is the source of what follows. On a device a report may scan first, and what it lists can be
deleted; pushing and committing are `LivePush`, here the deletion takes effect at once. A report is
of the configuration it was made from. `IsPut` is what `set` and a record of a file can be: an object
under a name of its kind's namespace, a filter for a dynamic group only; the records of a file are of one kind
(`PutsAssumption`). `Cleanup` deletes all of what it listed or one pick, and any change drops it.
`run` is the change of the last step, which the action properties speak of.

Not modelled: warnings, descriptions and colours, host-bit masking of values, sanitising of names.

## 3. Runs

| run | asks | instance | states |
|---|---|---|---|
| `teardown` | is a teardown reference-safe, minimal, reported? | three families of configurations (addresses, tags, services), chain dg2-dg1-shared, names a, g | 407k |
| `workbench` | is what the operator reviews what the batch does? | two sources, 2 staged, 2 selected | 350k |
| `delivery` | does the session keep its ledger? are confirmations exact? | 2 changes, 1 failure or kill, two paths, one an alias of the source | 1.3M |
| `push` | is a half-done or repeated push safe? | 20 commands, at least one of every kind; 48 running configurations; 3 attempts | 844k |
| `hierarchy` | do the loops return the closure? | every link set over three groups | 16k |
| `reorganize` | do rules keep what they stand for? do references follow? does what leaves have a successor? | five families of configurations (addresses, groups, crossed groups, services, tags), chain dg2-dg1-shared and a sibling dg3, names a, b, g, new name b | 65k |
| `housekeeping` | is what is called unused used by nobody? does the document follow the plans? is the partial document enough? | files: two changes; devices: two firewalls, three registrations, one change; tags t, u | 46k |

Why the bounds are enough: three levels are needed for a definition to be shadowed
from two sides; two object names give a group and a member and, with the same name at
several levels, nesting across namespaces and locations; two staged changes are needed
for one to depend on the other or carry its list; one failure already separates
"before" from "after" every step, and three attempts let a retry fail again.

The commands of `push` are chosen so that every shape a plan can have occurs: edits before deletes (teardown, merge), edits,
rule deletes and deletes (a teardown that empties a rule), sets before deletes (move), sets, edits and deletes (a promotion under
one of two names), edits before renames (rename, scheme), sets only (import, group), edits only (member, rule member). Every command is
refused by no blocker, and has operations, in at least one of the 48 configurations. Of these one family has a tag next to
an object of its name; groups have no tags of their own, and what that would change is `reorganize_group_tags`.

`housekeeping` makes two changes because the interesting pairs are two long: a list is emptied and
then updated, an entry is deleted and comes back, a rename follows a creation, a set precedes a report and a clean-up. Two
firewalls are the least that can hold different tags for one value, and a tag `u` that the
filters exclude makes joining them visible. Reports are made once per configuration and only a clean-up
follows one, since the other changes do not read it. The firewalls are symmetric.

`reorganize` has a sibling device-group because promotion and the merge's visibility gate are about
branches: a survivor one branch sees and another does not. New names are limited to `b`, which is free in some
configurations and taken, above, below or beside, in others. The run is closed
under its commands, so it also covers their sequences, up to 17 steps deep.

Five runs show disagreements between the code and what its documentation or comments
say. Each checks one sentence of the repository as a property and is expected to fail;
`PROJECT.json` quotes the sentence.

| run | the sentence | what happens |
|---|---|---|
| `workbench_drop_dependency` | a drop that a later change depends on is refused | the later change replays without an error and leaves a reference to nothing |
| `push_two_edits` | an edit adds or removes one member | the second edit before a commit undoes the first |
| `reorganize_capture` | a move goes in "the one direction that is safe without rewriting any reference" | a definition moved to a middle device-group takes over references that resolved further up |
| `reorganize_group_tags` | a rename happens only when "every reference to it has been rewritten" | the tag list of an address-group keeps the old name; a static member of the same name is replaced |
| `housekeeping_emptied_list` | "the round-trip is faithful" | an update of a group whose last member was removed writes a second list; the first, empty one is read |

Other behaviours that the properties step around on purpose, because the code has them:
a filter that only excludes a tag selects untagged addresses, and the blocker, which compares tag
names, does not see it (`RequiringDagsKeepMembers` speaks of filters that require); after a
delivery the working configuration keeps changes that are no longer staged, until a drop
rebuilds it (`WorkingIsReplay` speaks of the time before); a member edit records a whole list, so
dropping an earlier one does not take its member out of the later one; a row of old results can
be selected after its object is gone (`NoNewStaleSelection` speaks of the selection a change
finds); a source named like the temporary sibling is not spared (`SourceKept` is checked
where it is not); a doomed group may name a deleted address between two deletes of a
push, and an entry the plan creates may name something that a later set creates
(`SurvivorsNeverDangle` speaks of entries that were there and stay); a session that drops a change after a failed push
leaves what was pushed of it on the candidate (`CandidateIsBatch` speaks of the time before a failure).

Two of them contradict what the program says. With `--keep-rules` an emptied field of a kept rule is
read back as `any` (`parse.py:67`), while the warning (`purge.py:365`, `decommission.py:266`) says the
rule "can no longer match traffic"; `NeverWidened` speaks of commands without the option. And a
tag carried by a service-group is deleted without the blocker that `purge.py:29-30` announces, because the
walk does not visit a service-group's own tags (`refs.py:265`).

In `Housekeeping`, likewise:

- `DocumentFollowsPlan` sets apart updates of an emptied list (the subject of
  `housekeeping_emptied_list`) and a file that imports one name twice with two types. Each record of a file
  is checked against the configuration as it was (`portability.py:167`), so the second is not
  refused, and the entry ends with two value elements, the "invalid dual-type object" that
  `crud.py` refuses for single commands.
- `refs used --strict` on a tag does not look at filters (`refs.py:596`) and calls a tag unused that a
  dynamic group's filter names; `refs unused --kind tag` does look. `CalledUnusedIsUnused` asks for
  filters in listings only.
- A registration that moves from a firewall not yet asked to one already asked is missed, though the
  coverage reads as complete. `GapsAreSaid` speaks of what each firewall held when it was asked.
- A tag that only a service-group carries is listed as unused, for the walk does not see it.
- A dynamic group of a device-group is matched against registrations within its own chain only, as
  the code documents; the properties use the same scope.

In `Reorganization` the properties set apart: merges of different values on request (`override`); plans
that capture (`Captures`, the subject of `reorganize_capture`); and promotions that unify differently named
groups of which one is nested in the other (`promote-nested`): the members of the new group
are rewritten with the rest, so it lists itself. Further behaviour seen while modelling; the
properties hold with it, and no run of its own looks at it yet:

- The merge's visibility gate looks the survivor up among the addresses whatever is being unified, so
  service and tag buckets with divergent names are refused as soon as a copy is in use.
- `name apply --all` compares names within one location; two equal values, at shared and in a
  device-group, may take one scheme name. The meaning is the same, the shadow is
  new, although `docs/guides/naming.md` says that a name that would shadow is blocked.
- A cascade can bring an address and a group of one name; claims are told apart by kind.
- `promote --all` ends with an error, and no plan, when one bucket would create an empty group,
  where a blocked bucket is skipped.
- A rename to a name that dangles somewhere revives it there. It can close a cycle of groups;
  `GroupsStayAcyclic` starts from configurations in which every name resolves.

### Fairness

Only liveness uses fairness. `DeviceGroups!Spec` has weak fairness of the loops, which
are sequential code with nothing to wait for, and none on calls. The operator, the manager
and the disk owe nothing to anybody: no other run assumes fairness. That the cascade of
`Teardown` ends needs no run of its own: every `Grow` adds a group that was not in the delete
set, and deadlock checking shows that a planner always has a step.

## 4. Proofs

Every theorem is for every value of the constants, under the named assumptions of its
module, which TLC evaluates on each run.

### Teardown

`TeardownProofs` proves, for every hierarchy (`ChainAssumption`), every set of names apart from
the built-in ones (`NamesAssumption`), every initial configuration that is well formed
(`InitConfigsAssumption`) and every target list (`TargetSetsAssumption`):

- `TeardownTypes`, `DeleteSetTheorem`: `Spec => [](TypeOK /\ DeleteSetInReach)`.
- `NoStrandingTheorem`: `Spec => NoStranding`, the safety claim of both planners.
- `CascadeTheorem`: `Spec => []CascadeIsLeast`, and `NoGroupEmptiedTheorem`: the least fixpoint is reached.
- `OnlyBrokenTheorem`, `RebindsTheorem`: nothing is scrubbed needlessly, nothing comes to mean another
  object unreported.

The invariant is `IInv == TypeOK /\ DeleteSetInReach`. `NoStranding` alone says
nothing about the state a planner is in, and whether its scrub is complete depends on
the delete set: decommission skips service and tag fields, which is sound only
because its delete set never leaves the address namespace. That is
`DeleteSetInReach`, inductive because a group found newly empty has member
references into the delete set, and `NsOf` sends `"static"` members to addresses.

The step: let a reference of the new configuration resolve to nothing. Its referrer
survived; the executor only removes names from lists (`PlanProofs`), so
the same reference existed before, unless the read-back put `any` in, which resolves to nothing before
and after. If it resolved before, its target left, so `Breaks` holds for the
delete set. Then it is in `Touched`, and it was either scrubbed, a contradiction, or
not expressible as an edit. The latter means an unmappable edit next to a delete, which the gate blocks,
or an object's own tag, which `TagBlocks` blocks.
`PlanProofs` begins with the facts about resolution this uses: removing identities
can only make a name resolve later on the chain or not at all.

The cascade: a group that is newly empty for a delete set is newly empty for every
larger set it is not in (`Breaks` is monotone), so a closed set that contains the delete
set contains the next group, in whatever order they are met.

### Push

`LivePushProofs` proves the four invariants of the run `push` for every hierarchy, every running configuration, every
command that `IntentsAssumption` admits and any number of attempts (`PushTypes`, `PushedTheorem`, `UnplannedTheorem`,
`SurvivorsTheorem`). The last three carry a hypothesis, `Covered(running, intent)`: a command that repoints references (rename, scheme,
merge, move, promote) is given on a configuration in which no address-group has tags of its own. It cannot be dropped: the edit of such a
tag is written to the member list (the finding of `reorganize_group_tags`), and then two edits can be of one list. `PushTypes`
has no hypothesis, and teardown, import, group and member commands need none.

- *Plans.* `PlanCarried`: every plan that is sent is one that single operations can carry out. `Fit`: it
  creates what is not there, deletes and rewrites what is there or what it creates, writes no list twice, and renames, if it
  renames, to names that are free and apart, and then nothing else but edits is in it. `Strands`: once it is carried out, nothing dangles
  that did not. One lemma for each planner; those for rename, scheme, merge, move and promotion rest on the shapes in
  `PlanProofs` that the proofs about `Reorganization` rest on too.
- *Where the candidate may be.* `Between`: each entry that stays is there under one of its names; each entry there is
  one of the configuration or the plan's; and each list is the old or the planned one. A list of a *new* entry may also be both joined,
  for a retry sets the entry again after its list was edited (sets merge), until the edit is sent again. This is where mixed plans
  need more than the others: `Created` says that the old lists are untouched as long as a set is missing.
- *In which order.* `Ordered`: either nothing has been deleted or renamed away, or every list of an old entry has been written and everything
  new is there. Both are said of the candidate and not of what was sent, so they survive a call that failed after it took effect,
  and a second start from the beginning (`EffectInOrder`).
- *What was sent.* `SentOrder`: what is still to send ranks no lower than what was sent. `SentIsThere`: an operation that is no longer to do
  has had its effect; an edited list is now the planned one, also of a new entry. It is needed only for `PushedIsPlan`.

`SurvivorsTheorem`: if nothing has left, a reference is either one that was there (`IntactRefs`), or one of the planned lists whose
name means something once the plan is carried out, hence something that is there or is about to be renamed. If something
has left, all lists are the planned ones (`RepointedRefs`).

### Delivery

`BatchDeliveryProofs` proves every property of the run `delivery` for any files, paths, aliases,
changes and failures, and with `LedgerTheorem` that `BatchDelivery` implements `ChangeLedger`: `Init` maps to
`LedgerInit` and each step to a ledger step or a stutter. The invariant is
`Staging /\ Asking /\ Disk /\ Candidate`: staged changes are distinct and neither delivered nor
forgotten; what is asked or under way belongs to the screen it is on, and nothing is sent without a batch; a torn
file is a temporary sibling; a push under way has sent a prefix of its batch.
`SourceKeptTheorem` has a hypothesis, that no path the operator can type has the source as its temporary sibling, since the
code does not look at the sibling.

### Hierarchy

`DeviceGroupsProofs` proves that both loops return the reference for every set of groups and every set of
links (`AncestorsTheorem`, `DescendantsTheorem`). `Up`: the chain is a path of links from the argument,
without a repetition, and holds exactly what was seen. `Down`: of the groups looked at, exactly those below the argument
are in the answer, and what the inner walk has seen is above the group it started at and is not the argument. So when the walk ends at
no parent, or at a group it has seen, what it saw is closed and holds all that is above.

### Workbench

`WorkbenchProofs` proves the four safety properties of the run `workbench` (`WorkbenchTypes`, `ReplayTheorem`,
`SelectionTheorem`, `PicksTheorem`) for every source, hierarchy, list of form inputs and bound. The invariant is
`TypeOK /\ Changes(staging) /\ WorkingIsReplay`, where `Changes` says that every staged change is a plan over
well-formed data. Without it the replay after a drop could not be typed: a dropped change leaves the later ones
planned on a configuration that no longer exists, and what keeps them executable is that each of them is a plan
by itself (`IsPlan`), whatever it is applied to.

A replay is a recursive function over the staged changes, and so is what `StagedForEach` leaves of a list of items.
What such a function computes is shown by walking it: `ReplayWalk` names the sequence of its intermediate
results, and the facts about its end (`ReplayTyped`, `ReplayAppend`) follow by induction over the set of
the positions at which they hold (`Induction` in `PlanProofs`).

`PicksTheorem`: a new group's name is free where it is put, so putting it changes the resolution of no other name;
each pick was checked to be what its name means there. `SelectionTheorem` follows from the reconciliation that
every change of the working configuration ends with.

### Teardown, continued

`WidenedTheorem` and `DagTheorem` (`Spec => NeverWidened`, `Spec => RequiringDagsKeepMembers`) need more of
a configuration than that it is well formed: `AsParsed`, which the parser gives and every command keeps (`AlwaysParsed`). For the
first, a list the scrub empties was emptied of something that broke, so its field is a required one of a rule that
is an orphan (`EmptiedOrphans`), and without `--keep-rules` orphans are deleted. For the second, an address that leaves
takes its tags with it, a tag that leaves is named by no filter that stays (the blocker), and a tag that stays is scrubbed
from no address.

### Housekeeping

`HousekeepingProofs` proves the type invariant (`HousekeepingTypes`), `PartialIsEnough` (`PartialTheorem`),
`DocumentFollowsPlan` (`FollowsTheorem`), `GapsAreSaid` (`GapsTheorem`), `CalledUnusedIsUnused` (`UnusedTheorem`) and
`CleanupKeepsRules` (`CleanupTheorem`), for every document that `IsDocument` admits, every
file, every number of firewalls and changes: all that the run checks. The invariant is `HInv /\ ScanInv /\ Reported`.

- *Types.* `Fits(c, plan)` says of a plan what keeps a document a document: what it puts is in no other container than
  the object of that identity already there, what it renames goes to a name that is free. Every planner fits
  (`RewriteFits`, `GroupEditFits`, `RuleEditFits`, `TeardownFits`, `RenameFits`, `PuttingFits`): a rename only because
  the blocker looks at the whole namespace and not at one container.
- *The partial document.* `Tracks(source, partial, document)`: what was recorded as present is there, what was
  recorded as removed is not, and an entry that is recorded as neither is as it was read. `PartialIsEnough` follows from it at once;
  it is `Tracks` that is inductive, and that a later change must move an entry from one side to the other
  (`Presented`, `Removed`) is what makes it so. `RecordedAt` is the heart: each of the steps of the executor touches
  only what `Recorded` names for it.
- *The document follows the plan.* `Matches(document, c)`: the elements of the document are the objects of `c`,
  one for one, and each element reads as its entry. `ParseMatches` and `MatchesParse` tie it to the parser; each
  step of the executor keeps it (`EditedMatches`, `WithoutMatches`, `RenamedMatches`, `UpsertedMatches`). A put keeps it
  under two conditions, and these are the two cases the property sets apart: it leaves kind and type alone (`Suits`),
  and it fills no list that is there without members (`Solid`). For a file both must hold of every record
  when its turn comes, though they were checked on the configuration before the first; `SuitsNext` and `SolidNext` show that
  an earlier record does not spoil a later one.
- *The scan.* `Accounted`: each firewall asked is among the answers, the failures or the
  unqueryable, and an answer without lost rows is what the firewall held. The other actions leave the scan alone.
- *What is reached.* `Below` walks down as many levels as there are groups. `BelowIsLeast` shows that this is
  enough: a level that is not closed yet has gained a group, so after as many levels as groups it is closed; and
  every closed set that holds the start holds what the walk holds. This needs a finite number of
  identities (`FiniteAssumption`, in `Panorama`). Everything after it speaks of closed sets only.
- *Unused is unused.* `Reported`: a report is of the configuration that is there, for every change drops it. What
  the rules do not reach (`UnreachedIsolated`), tags that nothing carries (`TagsIsolated`) and an object without
  referrers (`TracedIsolated`) are isolated; for the firewalls' dynamic groups this uses `GapsAreSaid`: without a gap the
  answers are what was held.
- *A cleanup.* What is reported is not reached (`UnusedUnreached`); a cascade that starts outside a closed set stays outside,
  for it is the least set that leaves no group emptied (`CascadeLeast`, `CascadeSpares`); so no reference of what is
  reached, or of a rule that was looked at, is touched, and each of them is left as it was (`LeftAlone`,
  `CleanupSpares`), and what the rules stand for is a matter of these alone (`SameStands`).

### Reorganization

`ReorganizationProofs` proves the type invariant (`ReorganizationTypes`), `NothingNewDangles` (`DanglesTheorem`) and
`BindingsFollowRenames` (`BindingsTheorem`), for every configuration, name scheme and set of new names. Two
assumptions on the constants are added to those of the planners: a finite number of identities (`FiniteAssumption`), and
`BranchAssumption` (in `MovePlans`), that the chain of an ancestor is the rest of one's own chain. The second is what `ancestors` returns
when the hierarchy has no cycle (`models.py:270`; `DeviceGroups` has the cyclic case, and there a promotion has no
direction).

The invariant is `RInv == TypeOK /\ Untagged(cfg)`: no address-group has tags of its own. The two action properties have the
hypothesis that this is so of the initial configurations, which TLC's five families satisfy, and the proof that
it stays so (`SoundUntagged`: no edit writes a tag list of a group, and what is created is a copy). It cannot be dropped: the run
`reorganize_group_tags` shows both what a rename leaves behind and what it replaces where a group is tagged, which
is the finding of that run. `ReorganizationTypes` has no hypothesis.

- *Two shapes of plan* (in `PlanProofs`). Each planner is refused and empty (`Refuses`), or renames and rewrites references (`Renames`), or creates copies
  under identities that are free, rewrites references and deletes (`Replaces`). One lemma for each planner (`RenameShape`,
  `SchemeShape`, `MergeShape`, `MergeGroupShape`, `MoveShape`, `PromoteShape`, `PromoteAllShape`), and the executor's
  result for each shape (`RenamedPlanShape`, `ReplacedShape`).
- *The hierarchy.* `SeesFacts`: sight is transitive, and of two locations in sight the nearer one sees the other. So a name means the
  nearest definition (`ResolveNearest`, `NothingNearer`), and an object above what a reference meant is in its sight.
- *Renames.* `FreeRenames`: the new name is defined nowhere in the cone of the object, above or below, and no two of a
  scheme collide there. Then a reference to the object finds it first under the new name, and a reference to another
  object of either name still finds that one (`RenamedMeaning`).
- *Merges.* A reference that breaks had its target among the drops; it is rewritten, and the gate has looked
  up the survivor's name from that referrer among what remains (`Reaches`). An edit the executor cannot place
  next to a delete is what `GateBlocks` refuses.
- *Moves and promotions.* What leaves has a copy of its name upwards (`Departed`), so a reference to it resolves to the copy or
  to something nearer, and never to nothing. With `--cascade` this is said of the folded claims: each
  thing that leaves is claimed, and the claim that was folded into another lands under the same name. Copies of another name
  are rewritten and gated as in a merge, on the configuration with the survivor in it.
- *Promoting all.* The kept plans are joined: each arrival is in one of them, each departure has its arrival there
  (`Swept`), and the pruning only takes what has a copy at the destination, however many rounds it runs (`PrunedWalk`).

### Model-checked only

- Liveness (`CallsReturn`), which needs fairness and ENABLED.
- Of `Reorganization`: `MeaningIsKept`, `GroupsStayAcyclic` and `DepartedHaveSuccessors`. All three speak of what a group expands
  to, a walk as deep as there are groups, before and after a plan (see the plan).
- What the findings' runs refute: nothing is proved of it.

## 5. Plan

In this order:

1. An abstract `ReferenceSafety` (what a referrer sees of a name may change only by a
   reported step), implemented by `Teardown` and `Reorganization`.
2. Pure algorithms over bounded inputs: group expansion of `inspect.py`, `diff_snapshots`.
3. Proofs about what a group expands to. `Reached` is the least set closed under membership (as `BelowIsLeast` in
   `HousekeepingProofs`, with `FiniteAssumption`); the planners' shapes and `RenamedMeaning` then say how the members of
   each group map, in this order: a rename keeps what a field stands for (`MeaningIsKept`), a merge does, a promotion that
   captures nothing does; `GroupsStayAcyclic` and `DepartedHaveSuccessors` from the same map.

## 6. Not modelled

Formatting, argument parsing, profiles and credentials, the transport below a call, the filter
grammar, address arithmetic, read-only reports and the screens that only show them.

Of the push: the workbench sends a batch of several plans one after another, and `LivePush` sends one (`BatchDelivery` has the
batch, with its changes as numbers). The order of the sets within a plan is left open, as said above. What the manager itself would
refuse of a set (a member that does not exist yet) is not modelled: psc leaves validation to the commit.
Two psc processes on one manager at the same time are not modelled; the plan on
an older running configuration (`push_two_edits`) is the part of it one operator meets.
