---------------------------- MODULE ChangeLedger ----------------------------
(***************************************************************************)
(* What the workbench promises about staged changes: each one is pending   *)
(* until it is dropped by itself or leaves with its batch, and a batch is  *)
(* delivered as a whole or given up as a whole.                            *)
(***************************************************************************)
EXTENDS Naturals

CONSTANT Changes  \* identities of staged changes

VARIABLES
    pending,    \* staged, not yet handed over
    delivered,  \* handed over with their batch
    forgotten   \* dropped, or given up with their batch

ledger == <<pending, delivered, forgotten>>

LedgerInit ==
    /\ pending = {}
    /\ delivered = {}
    /\ forgotten = {}

Enter(c) ==
    /\ c \notin pending \cup delivered \cup forgotten
    /\ pending' = pending \cup {c}
    /\ UNCHANGED <<delivered, forgotten>>

Forget(c) ==
    /\ c \in pending
    /\ pending' = pending \ {c}
    /\ forgotten' = forgotten \cup {c}
    /\ UNCHANGED delivered

DeliverAll ==
    /\ delivered' = delivered \cup pending
    /\ pending' = {}
    /\ UNCHANGED forgotten

ForgetAll ==
    /\ forgotten' = forgotten \cup pending
    /\ pending' = {}
    /\ UNCHANGED delivered

LedgerNext ==
    \/ \E c \in Changes : Enter(c) \/ Forget(c)
    \/ DeliverAll \/ ForgetAll

LedgerSpec == LedgerInit /\ [][LedgerNext]_ledger
=============================================================================
