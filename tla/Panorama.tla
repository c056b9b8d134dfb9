------------------------------ MODULE Panorama ------------------------------
(***************************************************************************)
(* A Panorama configuration as psc reads it, and the reference graph every *)
(* planner asks before it edits (psc/core/models.py, refs.py, parse.py).   *)
(*                                                                         *)
(* A configuration is a function from entry identities to entries.  An     *)
(* identity is a record [space, name, loc]; the three object namespaces    *)
(* and the rulebases are its spaces, so one location holds at most one     *)
(* object of a name per namespace, as PAN-OS enforces.  Member lists are   *)
(* sets: no property tells two orders of the same members apart.           *)
(***************************************************************************)
EXTENDS Naturals, Sequences, FiniteSets, FiniteSetsExt

CONSTANTS
    Locs,        \* shared and the device-groups
    Chain,       \* Snapshot.ancestors: location -> sequence of locations, closest first
    Names,       \* the names objects and rules may have
    Predefined,  \* built-in names that name no object ("any", "service-http", ...)
    AnyName,     \* the built-in name a rule field holds when it restricts nothing
    Values,      \* the values of address and service objects
    Nil          \* no value, no object

ObjectSpaces == {"address", "service", "tag"}
RuleSpaces   == {"security-rule", "nat-rule", "policy-rule"}
Spaces       == ObjectSpaces \cup RuleSpaces

Ids       == [space : Spaces, name : Names, loc : Locs]
ObjectIds == [space : ObjectSpaces, name : Names, loc : Locs]
Members   == Names \cup Predefined

Kinds  == {"address", "address-group", "dynamic-group", "service",
           "service-group", "tag"} \cup RuleSpaces
Fields == {"static", "members", "tag", "filter", "filter-not", "source", "destination",
           "service", "application", "translation", "nexthop"}

SpaceOf(kind) ==
    CASE kind \in {"address", "address-group", "dynamic-group"} -> "address"
      [] kind \in {"service", "service-group"} -> "service"
      [] OTHER -> kind

Entry == [kind : Kinds, value : Values \cup {Nil}, fields : [Fields -> SUBSET Members]]

(* A well-formed configuration: entries under identities of their space.   *)
IsConfig(cfg) ==
    /\ DOMAIN cfg \subseteq Ids
    /\ cfg = [i \in DOMAIN cfg |-> cfg[i]]
    /\ \A i \in DOMAIN cfg : cfg[i] \in Entry /\ SpaceOf(cfg[i].kind) = i.space

ASSUME ChainAssumption == Chain \in [Locs -> Seq(Locs)]
ASSUME ChainSelfAssumption == \A l \in Locs : \E k \in DOMAIN Chain[l] : Chain[l][k] = l
ASSUME NamesAssumption ==
    /\ Names \cap Predefined = {}
    /\ AnyName \in Predefined
    /\ Nil \notin Ids

(* There are finitely many objects.                                        *)
ASSUME FiniteAssumption == IsFiniteSet(Ids)

-----------------------------------------------------------------------------
(* Name resolution. `live` is the set of identities that exist; a planner  *)
(* passes it without the ones its plan will remove (`ignoring`).           *)

Slot(space, name, loc) == [space |-> space, name |-> name, loc |-> loc]

Resolve(live, space, name, loc) ==
    LET hits == {i \in DOMAIN Chain[loc] : Slot(space, name, Chain[loc][i]) \in live}
    IN  IF hits = {} THEN Nil ELSE Slot(space, name, Chain[loc][Min(hits)])

-----------------------------------------------------------------------------
(* References. The walk visits the fields below; a service-group's own     *)
(* tags are not among them.                                                *)

(* Faulty variant: every member list is looked up among the addresses. *)
NsOfMembersAsAddresses(field) ==
    CASE field \in {"static", "members", "source", "destination", "translation", "nexthop"} -> "address"
      [] field = "service" -> "service"
      [] OTHER -> "tag"

NsOf(field) ==
    CASE field \in {"static", "source", "destination", "translation", "nexthop"} -> "address"
      [] field \in {"members", "service"} -> "service"
      [] OTHER -> "tag"

Walked(kind) ==
    CASE kind = "address-group" -> {"static", "tag"}
      [] kind \in {"address", "dynamic-group", "service"} -> {"tag"}
      [] kind = "service-group" -> {"members"}
      [] kind = "security-rule" -> {"source", "destination", "service", "tag"}
      [] kind = "nat-rule" -> {"source", "destination", "translation", "service", "tag"}
      [] kind = "policy-rule" -> {"source", "destination", "service", "tag", "nexthop"}
      [] OTHER -> {}

RefsIn(cfg, i, field) ==
    {[by |-> i, field |-> field, name |-> n] : n \in cfg[i].fields[field] \cap Names}

Refs(cfg) ==
    UNION {UNION {RefsIn(cfg, i, f) : f \in Walked(cfg[i].kind)} : i \in DOMAIN cfg}

Target(live, r) == Resolve(live, NsOf(r.field), r.name, r.by.loc)

(* References to names that no object has; an unresolved next hop is as    *)
(* often a literal address and is not reported.                            *)
Unresolved(cfg) == {r \in Refs(cfg) : Target(DOMAIN cfg, r) = Nil}

(* The shadow gate: does the name stop resolving once `gone` is removed?   *)
Breaks(cfg, r, gone) ==
    /\ Target(DOMAIN cfg, r) # Nil
    /\ Target(DOMAIN cfg \ gone, r) = Nil

(* The filter of a dynamic group, as a conjunction: the tags it requires   *)
(* and, under "filter-not", the tags it excludes.                          *)
FilterTags(entry) == entry.fields["filter"] \cup entry.fields["filter-not"]

(* The addresses of the group's chain whose tags satisfy its filter.       *)
DagMembers(cfg, dag) ==
    {i \in DOMAIN cfg :
        /\ cfg[i].kind = "address"
        /\ \E k \in DOMAIN Chain[dag.loc] : Chain[dag.loc][k] = i.loc
        /\ cfg[dag].fields["filter"] \subseteq cfg[i].fields["tag"]
        /\ cfg[dag].fields["filter-not"] \cap cfg[i].fields["tag"] = {}}
=============================================================================
