--------------------------- MODULE MCHousekeeping ---------------------------
(***************************************************************************)
(* Instances of Housekeeping: files with addresses and with services, and  *)
(* devices with two firewalls and dynamic groups at two levels.            *)
(***************************************************************************)
EXTENDS Housekeeping, MCConfigs

MCTypeOf     == "v" :> "ip-netmask" @@ "w" :> "ip-netmask" @@ "x" :> "fqdn" @@ "p" :> "tcp" @@ Nil :> "none"
MCTypeOrder  == <<"ip-netmask", "fqdn", "tcp">>
MCSchemeName == [v \in Values \cup {Nil} |-> Nil]

A(l) == At("address", "a", l)
B(l) == At("address", "b", l)
G(l) == At("address", "g", l)
S(n, l) == At("service", n, l)
T(n) == At("tag", n, "shared")
R(l) == At("security-rule", "a", l)
N(l) == At("nat-rule", "a", l)

MCDisabledRules == {At("nat-rule", "a", "dg1")}

Open == {AnyName}

(* A configuration as it is usually written: no empty lists, except that a *)
(* static group without members still says that it is static.              *)
Written(c) ==
    [e \in {ElementOf(c[i].kind, i) : i \in DOMAIN c} |->
        LET i == CHOOSE x \in DOMAIN c : ElementOf(c[x].kind, x) = e
        IN  [values |-> {c[i].value} \ {Nil},
             lists  |-> [f \in Fields |->
                IF \/ c[i].fields[f] # {}
                   \/ c[i].kind = "address-group" /\ f = "static"
                   \/ c[i].kind = "dynamic-group" /\ f \in FilterFields
                THEN <<c[i].fields[f]>> ELSE <<>>]]]

Tagged == T("t") :> TagObj @@ T("u") :> TagObj

FileConfigs ==
    {Tagged @@ A("dg1") :> Addr("v", {"t"}) @@ B("shared") :> Addr("w", {})
        @@ G("dg1") :> group @@ R("dg2") :> SecurityRule({"g"}, {"b"}, Open, {"t"})
        : group \in {Group({"a"}), Dag({"t"}, {})}}
    \cup
    {S("a", "shared") :> Svc("p") @@ S("g", "dg1") :> SvcGroup({"a"}, {})
        @@ A("dg1") :> Addr("v", {}) @@ B("dg2") :> Group({"a"})
        @@ R("dg2") :> SecurityRule(Open, Open, {"g"}, {})
        @@ N("dg1") :> NatRule({"b"}, Open, {"a"})}

(* Nothing but what the firewalls know may keep an address in use.         *)
DeviceConfigs ==
    {Tagged @@ A("dg1") :> Addr("v", own) @@ B("shared") :> Addr("w", {})
        @@ G(l) :> Dag({"t"}, {"u"}) @@ R("dg2") :> SecurityRule({"g"}, Open, Open, {})
        : own \in {{}, {"u"}}, l \in {"shared", "dg1"}}

Nothing == [v \in Values |-> {}]
MCRegistrations ==
    {Nothing, [Nothing EXCEPT !["v"] = {"t"}], [Nothing EXCEPT !["v"] = {"t", "u"}]}

(* Nothing is registered at first: a firewall may register anything before *)
(* it is asked.                                                            *)
Starting(mediums, configs) ==
    {[medium |-> m, document |-> Written(c), registered |-> [f \in Firewalls |-> Nothing]]
        : m \in mediums, c \in configs}

FileStarts   == Starting({"file"}, FileConfigs)
DeviceStarts == Starting({"device"}, DeviceConfigs)
MCStarts     == FileStarts \cup DeviceStarts

FirewallSymmetry == Permutations(Firewalls)

Put1(id, entry) == [id |-> id, entry |-> entry]

MCPuts ==
    {Put1(A("dg1"), Addr("x", {})), Put1(A("dg1"), Addr("w", {"t"})),
     Put1(A("dg2"), Addr("v", {})), Put1(G("dg1"), Addr("v", {})),
     Put1(G("dg1"), Group({"b"})), Put1(G("dg1"), Group({"a", "b"})), Put1(G("dg1"), Dag({}, {"t"})),
     Put1(B("dg2"), Group({"g"})), Put1(S("g", "dg1"), SvcGroup({"b"}, {"t"})), Put1(T("b"), TagObj)}

MCImports ==
    {<<Put1(B("dg1"), Addr("v", {})), Put1(B("dg1"), Addr("x", {"t"}))>>,
     <<Put1(B("dg1"), Addr("v", {})), Put1(A("dg1"), Addr("w", {}))>>,
     <<Put1(B("dg1"), Group({"a"})), Put1(G("dg1"), Group({"b"}))>>}
=============================================================================
