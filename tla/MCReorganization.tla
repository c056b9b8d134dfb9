-------------------------- MODULE MCReorganization --------------------------
(***************************************************************************)
(* Instances of Reorganization: a branch of two device-groups and a        *)
(* sibling of it, one family of configurations per namespace.              *)
(***************************************************************************)
EXTENDS Reorganization, MCConfigs

WideLocs  == {"shared", "dg1", "dg2", "dg3"}
WideChain == MCChain @@ "dg3" :> <<"dg3", "shared">>

MCTypeOf     == "v" :> "ip-netmask" @@ "w" :> "ip-netmask" @@ Nil :> "none"
MCSchemeName == "v" :> "a" @@ "w" :> "b" @@ Nil :> Nil

A(l) == At("address", "a", l)
B(l) == At("address", "b", l)
G(l) == At("address", "g", l)
S(n, l) == At("service", n, l)
T(n, l) == At("tag", n, l)

RuleAt(l, src, dst, svc, tags) == At("security-rule", "a", l) :> SecurityRule(src, dst, svc, tags)

Open == {AnyName}

(* Addresses of equal and of different values across the levels. *)
AddressFamily ==
    Both(Maybe(A("shared"), {Addr("v", {})}),
    Both(Maybe(A("dg1"), {Addr("v", {}), Addr("w", {})}),
    Both(Maybe(A("dg3"), {Addr("v", {})}),
    Both(Maybe(A("dg2"), {Addr("v", {})}),
    Both(Maybe(B("dg2"), {Addr("v", {})}),
    Both({RuleAt("dg2", {"a"}, {"b"}, Open, {})},
         {RuleAt("dg3", {"a"}, Open, Open, {}), At("nat-rule", "a", "dg1") :> NatRule(Open, {"a"}, {"a"})}))))))

(* Groups that mean the same, nested groups, groups whose members are      *)
(* defined beside them.                                                    *)
GroupFamily ==
    Both(Always(A("shared"), {Addr("v", {})}),
    Both(Maybe(A("dg1"), {Addr("w", {})}),
    Both(Maybe(A("dg3"), {Addr("v", {})}),
    Both(Maybe(G("dg1"), {Group({"a"})}),
    Both(Maybe(G("dg3"), {Group({"a"})}),
    Both(Maybe(B("dg2"), {Group({"a"}), Group({"g"})}),
         {RuleAt("dg2", {"g"}, {"b"}, Open, {}) @@ RuleAt("dg3", {"g"}, Open, Open, {})}))))))

(* Groups of the same leaves, whose members have each other's values; and  *)
(* groups without members.                                                 *)
CrossedFamily ==
    {G("dg1") :> Group({}) @@ G("dg3") :> Group({}),
     A("dg1") :> Addr("v", {}) @@ B("dg1") :> Addr("w", {})
        @@ A("dg3") :> Addr("w", {}) @@ B("dg3") :> Addr("v", {})
        @@ G("dg1") :> Group({"a", "b"}) @@ G("dg3") :> Group({"a", "b"})
        @@ RuleAt("dg3", {"a"}, {"g"}, Open, {})}

ServiceFamily ==
    Both(Maybe(S("a", "dg1"), {Svc("v")}),
    Both(Maybe(S("a", "dg3"), {Svc("v"), Svc("w")}),
    Both(Maybe(S("b", "shared"), {Svc("v")}),
    Both(Maybe(S("g", "dg2"), {SvcGroup({"a"}, {})}),
         {RuleAt("dg2", Open, Open, {"g"}, {}) @@ RuleAt("dg3", Open, Open, {"a", "b"}, {})}))))

TagFamily ==
    Both(Maybe(T("a", "shared"), {TagObj}),
    Both(Maybe(T("a", "dg1"), {TagObj}),
    Both(Maybe(T("a", "dg3"), {TagObj}),
    Both({A("dg2") :> Addr("v", {"a"}), A("dg1") :> Addr("v", {"a"}), G("dg1") :> Dag({"a"}, {})},
         {RuleAt("dg3", Open, Open, Open, {"a"})}))))

MCInitConfigs == AddressFamily \cup GroupFamily \cup CrossedFamily \cup ServiceFamily \cup TagFamily

(* An address-group that carries a tag of its own, next to one that does   *)
(* not.                                                                    *)
TaggedGroupConfigs ==
    Both(Maybe(T("a", "shared"), {TagObj}),
    Both(Maybe(A("shared"), {Addr("v", {})}),
    Both(Always(G("dg1"), {Obj("address-group", Nil, [static |-> {"a"}, tag |-> t]) : t \in {{}, {"a"}}}),
         {RuleAt("dg2", {"g"}, Open, Open, t) : t \in {{}, {"a"}}})))
=============================================================================
