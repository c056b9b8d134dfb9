----------------------------- MODULE MCConfigs ------------------------------
(***************************************************************************)
(* Entries and a three-level hierarchy for the model-checking modules.     *)
(***************************************************************************)
EXTENDS ChangeSets, TLC

MCLocs  == {"shared", "dg1", "dg2"}
MCChain == "shared" :> <<"shared">>
           @@ "dg1" :> <<"dg1", "shared">>
           @@ "dg2" :> <<"dg2", "dg1", "shared">>

Obj(kind, value, fields) ==
    [kind |-> kind, value |-> value,
     fields |-> [f \in Fields |-> IF f \in DOMAIN fields THEN fields[f] ELSE {}]]

Addr(v, tags)       == Obj("address", v, [tag |-> tags])
Group(members)      == Obj("address-group", Nil, [static |-> members])
Dag(all, none)      == Obj("dynamic-group", Nil, "filter" :> all @@ "filter-not" :> none)
Svc(v)              == Obj("service", v, <<>>)
SvcGroup(mem, tags) == Obj("service-group", Nil, [members |-> mem, tag |-> tags])
TagObj              == Obj("tag", Nil, <<>>)

SecurityRule(src, dst, svc, tags) ==
    Obj("security-rule", Nil, [source |-> src, destination |-> dst, service |-> svc,
                               application |-> {AnyName}, tag |-> tags])
NatRule(src, dst, xlate) ==
    Obj("nat-rule", Nil, [source |-> src, destination |-> dst, service |-> {AnyName},
                          translation |-> xlate])
PolicyRule(src, hop) ==
    Obj("policy-rule", Nil, [source |-> src, destination |-> {AnyName}, nexthop |-> hop])

At(space, name, loc) == Slot(space, name, loc)

(* One optional entry: absent, or one of the given ones. *)
Maybe(id, entries) == {<<>>} \cup {id :> e : e \in entries}
Always(id, entries) == {id :> e : e \in entries}

(* Every union of one choice from each of the given sets. *)
Both(s, t) == {x @@ y : x \in s, y \in t}
=============================================================================
