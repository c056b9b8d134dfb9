---------------------------- MODULE DeviceGroups ----------------------------
(***************************************************************************)
(* The device-group hierarchy (psc/core/models.py, parse.py): the parent   *)
(* links a configuration mirrors in its read-only part, and the two loops  *)
(* that walk them, ancestors and descendant_dgs.  A configuration may name *)
(* a parent that is not there, and links may form a cycle.                 *)
(***************************************************************************)
EXTENDS Naturals, Sequences, SequencesExt

CONSTANTS
    Groups,  \* names of device-groups
    Shared,  \* the location above them all
    NoGroup  \* no device-group

VARIABLES
    known,    \* device-groups that carry configuration
    parents,  \* device_group_parents
    pc,       \* "idle", or the loop that runs: "up", "each", "walk"
    arg,      \* its argument
    cur,      \* where it stands
    seen,     \* where it has been
    chain,    \* ancestors: the locations so far
    todo,     \* descendant_dgs: device-groups not looked at yet
    dg,       \* descendant_dgs: the one it looks at
    out       \* descendant_dgs: the ones found so far

vars == <<known, parents, pc, arg, cur, seen, chain, todo, dg, out>>

ASSUME GroupsAssumption == Shared \notin Groups /\ NoGroup \notin Groups \cup {Shared}

-----------------------------------------------------------------------------
Parent(d) == IF d \in DOMAIN parents THEN parents[d] ELSE NoGroup

(* Faulty variant: links to groups that are not there are kept. *)
LinksAsMirrored(mirror, present) ==
    [d \in {g \in present : mirror[g] # NoGroup} |-> mirror[d]]

(* The links parse_config keeps: both ends carry configuration.            *)
Links(mirror, present) ==
    [d \in {g \in present : mirror[g] \in present} |-> mirror[d]]

Init ==
    /\ known \in SUBSET Groups
    /\ \E mirror \in [Groups -> Groups \cup {NoGroup}] : parents = Links(mirror, known)
    /\ pc = "idle" /\ arg = NoGroup /\ cur = NoGroup /\ seen = {} /\ chain = <<>>
    /\ todo = {} /\ dg = NoGroup /\ out = {}

(* ancestors(location); the shared location has no device-group.           *)
Ancestors(d) ==
    /\ pc = "idle"
    /\ pc' = "up"
    /\ arg' = d /\ cur' = d /\ seen' = {} /\ chain' = <<>> /\ out' = {}
    /\ UNCHANGED <<known, parents, todo, dg>>

(* Faulty variant: where it has been is not remembered. *)
ClimbForgetting ==
    /\ pc = "up" /\ cur # NoGroup /\ cur \notin seen
    /\ chain' = IF cur \in ToSet(chain) THEN chain ELSE Append(chain, cur)
    /\ cur' = Parent(cur)
    /\ UNCHANGED <<known, parents, pc, arg, seen, todo, dg, out>>

(* Faulty variant: the argument itself is left out. *)
ClimbFromParent ==
    /\ pc = "up" /\ cur # NoGroup /\ cur \notin seen
    /\ seen' = seen \cup {cur}
    /\ chain' = IF cur = arg THEN chain ELSE Append(chain, cur)
    /\ cur' = Parent(cur)
    /\ UNCHANGED <<known, parents, pc, arg, todo, dg, out>>

Climb ==
    /\ pc = "up" /\ cur # NoGroup /\ cur \notin seen
    /\ seen' = seen \cup {cur}
    /\ chain' = Append(chain, cur)
    /\ cur' = Parent(cur)
    /\ UNCHANGED <<known, parents, pc, arg, todo, dg, out>>

Top ==
    /\ pc = "up" /\ (cur = NoGroup \/ cur \in seen)
    /\ chain' = Append(chain, Shared)
    /\ pc' = "idle"
    /\ UNCHANGED <<known, parents, arg, cur, seen, todo, dg, out>>

(* descendant_dgs(dg_name). *)
Descendants(d) ==
    /\ pc = "idle"
    /\ pc' = "each"
    /\ arg' = d /\ todo' = known /\ out' = {} /\ chain' = <<>>
    /\ UNCHANGED <<known, parents, cur, seen, dg>>

Each ==
    /\ pc = "each"
    /\ \E d \in todo :
        /\ dg' = d
        /\ todo' = todo \ {d}
        /\ cur' = Parent(d)
    /\ seen' = {}
    /\ pc' = "walk"
    /\ UNCHANGED <<known, parents, arg, chain, out>>

(* Faulty variant: only the parent is looked at. *)
WalkOnce ==
    /\ pc = "walk"
    /\ out' = IF cur = arg THEN out \cup {dg} ELSE out
    /\ pc' = "each"
    /\ UNCHANGED <<known, parents, arg, cur, seen, chain, todo, dg>>

Walk ==
    /\ pc = "walk"
    /\ \/ /\ cur = arg
          /\ out' = out \cup {dg}
          /\ pc' = "each"
          /\ UNCHANGED <<cur, seen>>
       \/ /\ cur \in known \ seen /\ cur # arg
          /\ seen' = seen \cup {cur}
          /\ cur' = Parent(cur)
          /\ UNCHANGED <<out, pc>>
       \/ /\ cur \in seen \cup {NoGroup} /\ cur # arg
          /\ pc' = "each"
          /\ UNCHANGED <<cur, seen, out>>
    /\ UNCHANGED <<known, parents, arg, chain, todo, dg>>

Return ==
    /\ pc = "each" /\ todo = {}
    /\ pc' = "idle"
    /\ UNCHANGED <<known, parents, arg, cur, seen, chain, todo, dg, out>>

Loop == Climb \/ Top \/ Each \/ Walk \/ Return

Next ==
    \/ \E d \in known \cup {NoGroup} : Ancestors(d)
    \/ \E d \in known : Descendants(d)
    \/ Loop

(* The loops are sequential code: a call that was made runs on.            *)
Spec == Init /\ [][Next]_vars /\ WF_vars(Loop)

-----------------------------------------------------------------------------
(* Properties.                                                             *)

(* The walk never leaves the device-groups that carry configuration.       *)
TypeOK ==
    /\ known \subseteq Groups
    /\ DOMAIN parents \subseteq known /\ \A d \in DOMAIN parents : parents[d] \in known
    /\ cur \in known \cup {NoGroup} /\ seen \subseteq known
    /\ chain \in Seq(known \cup {Shared})
    /\ todo \subseteq known /\ out \subseteq known

(* The reference: the least set that holds the parent of d and, of every   *)
(* group in it, the parent.                                                *)
HoldsParent(S, d) == Parent(d) \in S \cup {NoGroup}
Above(d) ==
    {a \in known : \A S \in SUBSET known :
        HoldsParent(S, d) /\ (\A x \in S : HoldsParent(S, x)) => a \in S}

(* ancestors returns the group, everything above it and shared, each once, *)
(* every location before its parent: cut links and cycles included.        *)
AncestorsAreAbove ==
    (pc = "idle" /\ chain # <<>>) =>
        /\ IsInjective(chain)
        /\ Last(chain) = Shared
        /\ ToSet(chain) = ({arg} \ {NoGroup}) \cup {Shared}
                            \cup (IF arg = NoGroup THEN {} ELSE Above(arg))
        /\ \A k \in 1 .. Len(chain) - 2 : Parent(chain[k]) = chain[k + 1]

(* descendant_dgs returns the groups the argument is above, in whatever    *)
(* order it looks at them; the two loops agree about every pair of groups. *)
DescendantsAreBelow ==
    (pc = "idle" /\ chain = <<>> /\ arg # NoGroup) =>
        out = {d \in known : arg \in Above(d)}

(* Every call returns, on cyclic links too.                                *)
CallsReturn == pc # "idle" ~> pc = "idle"
=============================================================================
