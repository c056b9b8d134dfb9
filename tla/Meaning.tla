------------------------------ MODULE Meaning -------------------------------
(***************************************************************************)
(* What a group or a member list stands for: the addresses it expands to,  *)
(* every name resolved where it is written (psc/core/dedup.py).            *)
(***************************************************************************)
EXTENDS ChangeSets

AddressGroupKinds == {"address-group", "dynamic-group"}

AddressGroups(c) == {i \in DOMAIN c : c[i].kind \in AddressGroupKinds}

(* What the static members of a group resolve to. *)
MemberTargets(c, g) ==
    {Resolve(DOMAIN c, "address", m, g.loc) : m \in c[g].fields["static"]}

(* The group and every group nested in it. *)
Reached(c, g) ==
    LET grown(s) == s \cup UNION {MemberTargets(c, h) \cap AddressGroups(c) : h \in s}
        reach[n \in 0..Cardinality(AddressGroups(c))] == IF n = 0 THEN {g} ELSE grown(reach[n - 1])
    IN  reach[Cardinality(AddressGroups(c))]

(* _group_closure: the groups a group contains. *)
Contained(c, g) == UNION {MemberTargets(c, h) \cap AddressGroups(c) : h \in Reached(c, g)}

(* resolve_group_members answers only for a group all of whose members,    *)
(* however deep, resolve, and none of them to a dynamic group.             *)
Knowable(c, g) ==
    \A h \in Reached(c, g) : c[h].kind = "address-group" /\ Nil \notin MemberTargets(c, h)

Leaves(c, g) ==
    {c[a].value : a \in {t \in UNION {MemberTargets(c, h) : h \in Reached(c, g)} :
                            t # Nil /\ c[t].kind = "address"}}

Equivalent(c, g, h) == Knowable(c, g) /\ Knowable(c, h) /\ Leaves(c, g) = Leaves(c, h)
=============================================================================
