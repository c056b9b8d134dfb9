----------------------------- MODULE MCLivePush -----------------------------
(***************************************************************************)
(* Instances of LivePush: the hierarchy of MCConfigs, a name defined at    *)
(* two levels, groups of it, rules that use both, and at least one command *)
(* of every kind.                                                          *)
(***************************************************************************)
EXTENDS LivePush, MCConfigs

PushTypes  == "v" :> "ip" @@ "w" :> "ip" @@ Nil :> "none"
PushScheme == "v" :> "n" @@ "w" :> "b" @@ Nil :> Nil

A(l) == At("address", "a", l)
B(l) == At("address", "b", l)
G(l) == At("address", "g", l)
T(l) == At("tag", "a", l)

N(l) == At("address", "n", l)

MCRunnings ==
    Both({A("shared") :> Addr("v", {"a"}) @@ B("shared") :> Addr("v", {}),
          A("shared") :> Addr("v", {"a"}) @@ B("shared") :> Addr("w", {}) @@ T("dg1") :> TagObj,
          A("shared") :> Addr("v", {}) @@ B("dg1") :> Addr("v", {})},
    Both(Maybe(A("dg2"), {Addr("v", {})}),
    Both({G("dg1") :> Group({"a", "b"}),
          G("shared") :> Group({"a"}) @@ G("dg1") :> Group({"a", "b"}),
          G("shared") :> Group({"a"}) @@ N("dg1") :> Group({"a"}),
          G("shared") :> Group({"a"}) @@ N("dg1") :> Group({"g"})},
         {At("security-rule", "a", "dg2") :> SecurityRule({"a", "g"}, {"g"}, {AnyName}, {"a"}),
          At("security-rule", "a", "dg2") :> SecurityRule({"b", "n"}, {"a"}, {AnyName}, {})
            @@ At("nat-rule", "a", "dg1") :> NatRule({"a"}, {"g", "b"}, {"b"})})))

Teardown(op, targets, keepGroups, keepRules) ==
    [op |-> op, targets |-> targets, keepGroups |-> keepGroups, keepRules |-> keepRules]
Member(name, verb, member) == [op |-> "member", name |-> name, verb |-> verb, member |-> member]
RuleMember(field, verb, member) ==
    [op |-> "rule", name |-> "a", field |-> field, verb |-> verb, member |-> member]
Import(entries) == [op |-> "import", entries |-> entries]
Rename(id, new) == [op |-> "rename", id |-> id, new |-> new]
Merge(keep, drops, override) ==
    [op |-> "merge", keep |-> keep, drops |-> drops, allowValueChange |-> override]
Move(id, dest, cascade) == [op |-> "move", id |-> id, dest |-> dest, cascade |-> cascade]
Promote(kind, bucket, dest, keepName, cascade) ==
    [op |-> "promote", kind |-> kind, bucket |-> bucket, dest |-> dest, keepName |-> keepName,
     cascade |-> cascade]
PromoteAll(kind, dest, cascade) ==
    [op |-> "promote-all", kind |-> kind, dest |-> dest, cascade |-> cascade]

MCIntents ==
    {Teardown("decommission", {A("shared")}, FALSE, FALSE),
     Teardown("decommission", {A("shared"), B("shared")}, TRUE, TRUE),
     Teardown("purge", {A("shared"), A("dg2"), T("dg1")}, FALSE, FALSE),
     Teardown("purge", {G("shared")}, FALSE, TRUE),
     Import(N("shared") :> Addr("v", {}) @@ G("dg2") :> Group({"n"})),
     [op |-> "group", id |-> G("dg2"), picks |-> {A("shared"), B("shared")}],
     Member("g", "add", "b"),
     RuleMember("source", "remove", "a"),
     Rename(A("shared"), "n"), Rename(G("shared"), "n"), Rename(T("dg1"), "n"),
     [op |-> "scheme", scope |-> Locs],
     Merge(A("shared"), {B("shared"), A("dg2")}, FALSE),
     Merge(B("shared"), {A("shared")}, TRUE),
     [op |-> "merge-group", keep |-> G("shared"), drop |-> N("dg1")],
     Move(A("dg2"), "dg1", FALSE), Move(G("dg1"), "shared", TRUE),
     Promote("address", {A("dg2"), B("dg1")}, "shared", "b", FALSE),
     Promote("address-group", {G("shared"), N("dg1")}, "shared", "n", TRUE),
     PromoteAll("address", "shared", FALSE)}

(* Two edits of one group, for the run about edits before a commit.        *)
TwoEdits == {Member("g", "add", "b"), Member("g", "remove", "a")}
=============================================================================
