----------------------------- MODULE MCTeardown -----------------------------
(***************************************************************************)
(* Instances of Teardown.  Three families of configurations, one per       *)
(* namespace, each with a definition shadowed at another level, a group    *)
(* nested in a group, and rules above and below the definitions.           *)
(***************************************************************************)
EXTENDS Teardown, MCConfigs

A(l) == At("address", "a", l)
G(l) == At("address", "g", l)
S(l) == At("service", "a", l)
H(l) == At("service", "g", l)
T(l) == At("tag", "a", l)

(* Addresses shadowed across the levels, nested groups, and every kind of  *)
(* rule field.                                                             *)
AddressFamily ==
    LET objects ==
          Both(Maybe(A("shared"), {Addr("v", {})}),
          Both(Maybe(A("dg1"), {Addr("v", {}), Group({"g"})}),
          Both(Maybe(A("dg2"), {Addr("v", {})}),
          Both(Maybe(G("shared"), {Group({"a"}), Addr("v", {})}),
               Maybe(G("dg2"), {Group({"a"}), Group({"a", "g"})})))))
        rules ==
          Both(Always(At("security-rule", "a", "dg2"),
                      {SecurityRule({"a"}, {AnyName}, {AnyName}, {}), SecurityRule({"a", "g"}, {"g"}, {AnyName}, {})}),
               {<<>>, At("nat-rule", "a", "dg1") :> NatRule({"a"}, {AnyName}, {}),
                At("nat-rule", "a", "dg1") :> NatRule({AnyName}, {"g"}, {"a"}),
                At("policy-rule", "a", "dg2") :> PolicyRule({"g"}, {"a"})})
    IN  Both(objects, rules)

(* Tags at two levels, carriers of them, and a dynamic group.              *)
TagFamily(dags) ==
    Both(Maybe(T("shared"), {TagObj}),
    Both(Maybe(T("dg1"), {TagObj}),
    Both(Maybe(A("shared"), {Addr("v", {}), Addr("v", {"a"})}),
    Both(Maybe(A("dg1"), {Addr("v", {"a"})}),
    Both(Maybe(G("dg1"), dags),
         {At("security-rule", "a", "dg2") :> SecurityRule({"g"}, {AnyName}, {AnyName}, {"a"}),
          At("security-rule", "a", "dg2") :> SecurityRule({AnyName}, {"a"}, {AnyName}, {})})))))

(* Services, nested service groups, and rules that name them.              *)
ServiceFamily(groups) ==
    Both(Maybe(A("shared"), {Addr("v", {})}),
    Both(Maybe(S("shared"), {Svc("v")}),
    Both(Maybe(S("dg2"), {Svc("v")}),
    Both(Maybe(H("shared"), {SvcGroup({"a"}, {}), SvcGroup({"a", "service-http"}, {})}),
    Both(Maybe(H("dg2"), groups),
         {At("security-rule", "a", "dg2") :> SecurityRule({AnyName}, {AnyName}, {"a", "g"}, {}),
          At("security-rule", "a", "dg2") :> SecurityRule({AnyName}, {AnyName}, {"a"}, {}),
          At("nat-rule", "a", "shared") :>
              Obj("nat-rule", Nil, [source |-> {AnyName}, destination |-> {AnyName}, service |-> {"a"}])})))))

MCInitConfigs ==
    AddressFamily
    \cup TagFamily({Dag({"a"}, {}), Group({"a"})})
    \cup ServiceFamily({SvcGroup({"g"}, {}), SvcGroup({"a"}, {})})

MCTargets ==
    {{A("shared")}, {A("dg1")}, {A("shared"), A("dg2")}, {G("shared"), A("dg1")}, {G("dg2")},
     {T("shared")}, {T("dg1"), A("dg1")}, {S("shared")}, {S("dg2"), H("shared")}}
=============================================================================
