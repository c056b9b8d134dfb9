------------------------------ MODULE LiveScan ------------------------------
(***************************************************************************)
(* Reading the registered addresses of the firewalls (LiveSource's         *)
(* live_dag_membership in psc/core/source.py, psc/core/livedag.py).        *)
(*                                                                         *)
(* The manager names the firewalls it knows; psc asks each one in turn.    *)
(* One may be unreachable, fail to answer, or answer with rows that name   *)
(* no address.  Registrations come and go while psc is asking.             *)
(***************************************************************************)
EXTENDS Reachability

CONSTANTS
    Firewalls,       \* the managed firewalls
    Registrations    \* what a firewall may hold: value -> registered tags

ASSUME RegistrationsAssumption == Registrations \subseteq [Values -> SUBSET Names]

VARIABLES
    registered,  \* firewall -> what it holds
    scan         \* the scan of the running command

(* A scan: the firewalls the manager named and psc still has to ask, the   *)
(* ones it cannot query, the answers, the firewalls with unreadable rows   *)
(* and the ones that did not answer.  `held` is what each firewall held    *)
(* when it was asked: no part of psc.                                      *)
NoScan ==
    [phase |-> "idle", partial |-> FALSE, todo |-> {}, unreadable |-> {}, answers |-> <<>>,
     short |-> {}, failed |-> {}, held |-> <<>>]

(* After each firewall: a scan nobody answered is an error, not an empty   *)
(* result.                                                                 *)
Continued(s) ==
    IF s.todo # {} THEN s
    ELSE IF DOMAIN s.answers = {} THEN NoScan
    ELSE [s EXCEPT !.phase = "done"]

(* `show devices connected`: every row is a firewall psc can ask or one it *)
(* cannot.  Without --live-dag-partial the latter end the command.         *)
StartScan(partial, rows) ==
    /\ scan.phase = "idle"
    /\ \E f \in Firewalls : rows[f] # "unnamed"
    /\ partial \/ \A f \in Firewalls : rows[f] # "unreadable"
    /\ scan' = Continued([NoScan EXCEPT
            !.phase = "asking", !.partial = partial,
            !.todo       = {f \in Firewalls : rows[f] = "connected"},
            !.unreadable = {f \in Firewalls : rows[f] = "unreadable"},
            !.held       = [f \in {g \in Firewalls : rows[g] = "unreadable"} |-> registered[f]]])
    /\ UNCHANGED registered

Asked(f) ==
    [scan EXCEPT !.todo = @ \ {f},
                 !.held = [g \in DOMAIN @ \cup {f} |-> IF g = f THEN registered[f] ELSE @[g]]]

Extended(answers, f, rows) == [g \in DOMAIN answers \cup {f} |-> IF g = f THEN rows ELSE answers[g]]

(* Faulty variant: a row without an address is skipped and forgotten. *)
AnswerSkippingRows(f, lost) ==
    /\ f \in scan.todo
    /\ scan' = Continued([Asked(f) EXCEPT
            !.answers = Extended(@, f, [v \in Values |-> IF v \in lost THEN {} ELSE registered[f][v]])])
    /\ UNCHANGED registered

(* parse_registered_ip: the rows of `lost` name no address and are counted.*)
Answer(f, lost) ==
    /\ f \in scan.todo
    /\ scan' = Continued([Asked(f) EXCEPT
            !.answers = Extended(@, f, [v \in Values |-> IF v \in lost THEN {} ELSE registered[f][v]]),
            !.short   = IF lost = {} THEN @ ELSE @ \cup {f}])
    /\ UNCHANGED registered

(* No answer, a refusal, or one whose shape psc does not know.             *)
Fail(f) ==
    /\ f \in scan.todo
    /\ scan' = IF scan.partial THEN Continued([Asked(f) EXCEPT !.failed = @ \cup {f}]) ELSE NoScan
    /\ UNCHANGED registered

(* External: registrations change while psc is asking others.  A change on *)
(* a firewall that was asked before is not seen by this scan.              *)
Register(f, rows) ==
    /\ f \in scan.todo
    /\ rows # registered[f]
    /\ registered' = [registered EXCEPT ![f] = rows]
    /\ UNCHANGED scan

ScanNext ==
    \/ \E partial \in BOOLEAN, rows \in [Firewalls -> {"connected", "unreadable", "unnamed"}] :
          StartScan(partial, rows)
    \/ \E f \in Firewalls :
          \/ \E lost \in SUBSET {v \in Values : registered[f][v] # {}} : Answer(f, lost)
          \/ Fail(f)
          \/ \E rows \in Registrations : Register(f, rows)

-----------------------------------------------------------------------------
(* The result.                                                             *)

(* build_membership: one tag set per firewall, never joined; an object     *)
(* without a value is registered nowhere.                                  *)
ByKey(s) ==
    [v \in Values \cup {Nil} |->
        IF v = Nil THEN {} ELSE {s.answers[f][v] : f \in DOMAIN s.answers} \ {{}}]

IsPartial(s) == s.failed # {} \/ s.unreadable # {} \/ s.short # {}

(* A scan that does not call itself partial has read everything that every *)
(* firewall the manager named held when it was asked.                      *)
GapsAreSaid ==
    scan.phase = "done" /\ ~IsPartial(scan) => scan.answers = scan.held
=============================================================================
