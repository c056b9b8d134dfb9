---------------------------- MODULE MCWorkbench -----------------------------
(***************************************************************************)
(* Instances of Workbench: one device-group under shared, a name with a    *)
(* definition at both levels, a group of it and rules that use both.       *)
(***************************************************************************)
EXTENDS Workbench, MCConfigs

WbLocs  == {"shared", "dg1"}
WbChain == "shared" :> <<"shared">> @@ "dg1" :> <<"dg1", "shared">>
WbTypes == "v" :> "ip" @@ "w" :> "ip" @@ "x" :> "fqdn" @@ Nil :> "none"

A(l) == At("address", "a", l)
G(l) == At("address", "g", l)

Rule(src) == At("security-rule", "a", "dg1") :> SecurityRule(src, {AnyName}, {AnyName}, {})

(* A shadowed address, its group and a rule on both.                       *)
Plain == A("shared") :> Addr("v", {}) @@ G("shared") :> Group({"a"}) @@ Rule({"g"})

(* A service whose name an address may take, and a service group of        *)
(* built-in services that can still take it.                               *)
Mixed == At("service", "a", "shared") :> Svc("v")
         @@ At("service", "g", "shared") :> SvcGroup({"service-http"}, {})
         @@ Rule({AnyName})

MCSources == {Plain, Mixed}

MCCreations ==
    {<<A("dg1"), Addr("v", {})>>,
     <<A("shared"), Addr("x", {})>>}

MCQueries == {{"a", "g"}}

(* For the violation runs, one source is enough.                           *)
OneSource == {Plain}
=============================================================================
