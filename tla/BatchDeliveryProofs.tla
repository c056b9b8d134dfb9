------------------------- MODULE BatchDeliveryProofs ------------------------
(***************************************************************************)
(* The workbench keeps its ledger, asks before it overwrites, pushes or    *)
(* discards, and never tears a destination: for every set of files and     *)
(* paths, every aliasing between them, and every number of changes and     *)
(* failures.                                                               *)
(***************************************************************************)
EXTENDS BatchDelivery, PlanProofs

(* Whatever is staged was entered once, and is neither delivered nor       *)
(* forgotten; the working configuration holds nothing else than staged and *)
(* delivered changes.                                                      *)
Staging ==
    /\ next \in 0 .. MaxChanges
    /\ staged \in Seq(Changes) /\ IsInjective(staged)
    /\ ToSet(staged) \subseteq compounded
    /\ compounded \subseteq ToSet(staged) \cup delivered
    /\ delivered \cap ToSet(staged) = {}
    /\ ToSet(staged) \cup delivered \cup forgotten \subseteq 1 .. next

(* What a latch stands for, and what a write or a push under way was       *)
(* started with.                                                           *)
Asking ==
    /\ source \in Sources
    /\ mode \in Dispositions
    /\ screen \in {"hub", "staged", "apply", "profiles"}
    /\ busy \in {"no", "writing", "pushing"}
    /\ screen = "apply" => form.what \in Dispositions /\ form.where \in Paths \cup {Nowhere}
    /\ screen = "profiles" => form.where \in Sources
    /\ busy # "no" => screen = "apply" /\ staged # <<>>
    /\ busy = "writing" => form.what \in ToFile /\ form.where \in Paths /\ Dest # source
    /\ armed \in BOOLEAN
    /\ armed => asked = form

Disk ==
    /\ files \in [Files -> [is : {"absent", "torn", "foreign", "ours"}, holds : SUBSET Changes]]
    /\ DestinationsNeverTorn

(* As long as nothing failed, the candidate holds what was delivered and   *)
(* what the push under way has sent.                                       *)
Underway == IF busy = "pushing" THEN {staged[j] : j \in 1 .. sent} ELSE {}

Candidate ==
    /\ sent \in Nat
    /\ busy = "pushing" => sent <= Len(staged)
    /\ pushes \in [Changes -> Nat]
    /\ failures \in Nat
    /\ failures = 0 =>
        \A c \in Changes : pushes[c] <= 1 /\ (pushes[c] = 1 => c \in delivered \cup Underway)

IInv == Staging /\ Asking /\ Disk /\ Candidate

-----------------------------------------------------------------------------
(* The changes a finished push sent.                                       *)
LEMMA WholeBatch ==
    ASSUME NEW s \in Seq(Changes) PROVE {s[j] : j \in 1 .. Len(s)} = ToSet(s)
BY DEF ToSet
-----------------------------------------------------------------------------
(* The invariant holds initially, and every step keeps each of its parts.  *)
LEMMA InitIInv == Init => IInv
<1> SUFFICES ASSUME Init PROVE IInv
  OBVIOUS
<1>1. Staging
  BY EmptyDistinct, BoundsAssumption DEF Init, Staging
<1>2. Asking
  BY DEF Init, Asking
<1>3. Disk
  BY DEF Init, Disk, DestinationsNeverTorn, Absent, Foreign, Content
<1>4. Candidate
  BY DEF Init, Candidate
<1> QED
  BY <1>1, <1>2, <1>3, <1>4 DEF IInv

(* A payload is made of changes, and covers the batch.                     *)
LEMMA PayloadIsBatch ==
    ASSUME Staging
    PROVE  /\ Payload \subseteq ToSet(staged) \cup delivered
           /\ ToSet(staged) \subseteq Payload
           /\ Payload \subseteq Changes
<1>1. 1 .. next \subseteq Changes
  BY BoundsAssumption DEF Staging, Changes
<1> QED
  BY <1>1 DEF Staging, Payload

LEMMA StagingStep == ASSUME Staging, Asking, Candidate, Next PROVE Staging'
<1>1. CASE Stage
  <2>1. next' = next + 1 /\ next' \in 0 .. MaxChanges /\ next' \in Changes
        /\ 1 .. next \subseteq 1 .. next' /\ next' \notin 1 .. next /\ next' \in 1 .. next'
    BY <1>1, BoundsAssumption DEF Stage, Staging, Changes
  <2>2. next' \notin ToSet(staged)
    BY <2>1 DEF Staging
  <2>3. /\ staged' \in Seq(Changes) /\ IsInjective(staged')
        /\ ToSet(staged') = ToSet(staged) \cup {next'}
    BY <1>1, <2>1, <2>2, AppendDistinct DEF Stage, Staging
  <2>4. /\ compounded' = compounded \cup {next'}
        /\ delivered' = delivered /\ forgotten' = forgotten
    BY <1>1 DEF Stage
  <2> QED
    BY <2>1, <2>3, <2>4 DEF Staging
<1>2. ASSUME NEW k \in 1 .. MaxChanges, Drop(k) PROVE Staging'
  <2>1. /\ staged' \in Seq(Changes) /\ IsInjective(staged')
        /\ ToSet(staged') = ToSet(staged) \ {staged[k]}
    BY <1>2, RemoveDistinct DEF Drop, Staging
  <2>2. staged[k] \in ToSet(staged)
    BY <1>2 DEF Drop, ToSet
  <2>3. /\ compounded' = ToSet(staged') /\ forgotten' = forgotten \cup {staged[k]}
        /\ delivered' = delivered /\ next' = next
    BY <1>2 DEF Drop
  <2> QED
    BY <2>1, <2>2, <2>3 DEF Staging
<1>3. CASE FinishWrite
  <2>1. next' = next /\ compounded' = compounded /\ forgotten' = forgotten
    BY <1>3 DEF FinishWrite
  <2>2. CASE form.what = "set-file"
    <3>1. staged' = staged /\ delivered' = delivered
      BY <1>3, <2>2 DEF FinishWrite, Handed
    <3> QED
      BY <2>1, <3>1 DEF Staging
  <2>3. CASE form.what # "set-file"
    <3>1. staged' = <<>> /\ delivered' = delivered \cup Payload
      BY <1>3, <2>3 DEF FinishWrite, Handed
    <3> QED
      BY <2>1, <3>1, EmptyDistinct, PayloadIsBatch DEF Staging
  <2> QED
    BY <2>2, <2>3
<1>4. CASE FinishPush
  <2>1. /\ next' = next /\ compounded' = compounded /\ forgotten' = forgotten
        /\ staged' = <<>> /\ delivered' = delivered \cup ToSet(staged)
    BY <1>4, WholeBatch DEF FinishPush, Staging
  <2> QED
    BY <2>1, EmptyDistinct DEF Staging
<1>5. CASE Reload \/ Kill
  <2>1. /\ next' = next /\ compounded' = {} /\ forgotten' = forgotten \cup ToSet(staged)
        /\ staged' = <<>> /\ delivered' = delivered
    BY <1>5 DEF Reload, Kill, LoadSource
  <2> QED
    BY <2>1, EmptyDistinct DEF Staging
<1>6. CASE UNCHANGED <<staged, compounded, next, delivered, forgotten>>
  BY <1>6 DEF Staging
<1>7. CASE Navigate
  BY <1>6, <1>7 DEF Navigate, Go, history
<1>8. ASSUME NEW what, NEW where, Edit(what, where) PROVE Staging'
  BY <1>6, <1>8 DEF Edit, Typing, history
<1>9. CASE AskToApply \/ ApplyNothing \/ AskToReload \/ FailReload
  BY <1>6, <1>9 DEF AskToApply, ApplyNothing, AskToReload, FailReload, AskingFirst, history
<1>10. CASE StartWrite \/ FailWrite
  BY <1>6, <1>10 DEF StartWrite, FailWrite, history
<1>11. CASE StartPush \/ PushOne \/ FailPush
  BY <1>6, <1>11 DEF StartPush, PushOne, FailPush, history
<1> QED
  BY <1>1, <1>2, <1>3, <1>4, <1>5, <1>7, <1>8, <1>9, <1>10, <1>11 DEF Next
(* Where the form may point, as a step types it.                           *)
LEMMA AskingStep == ASSUME Asking, Next PROVE Asking'
<1> USE DEF Asking
<1>1. CASE Stage
  BY <1>1 DEF Stage
<1>2. ASSUME NEW k \in 1 .. MaxChanges, Drop(k) PROVE Asking'
  BY <1>2 DEF Drop
<1>3. CASE Navigate
  <2>1. /\ busy = "no" /\ busy' = "no" /\ armed' = FALSE
        /\ source' = source /\ mode' = mode
    BY <1>3 DEF Navigate, Go
  <2>2. /\ screen' \in {"hub", "staged", "apply", "profiles"}
        /\ screen' = "apply" => form'.what = InitialDisposition /\ form'.where = Nowhere
        /\ screen' = "profiles" => form'.where = Live
    BY <1>3 DEF Navigate, Go
  <2>3. InitialDisposition \in Dispositions
    BY DEF InitialDisposition, Offered, Dispositions
  <2>4. Live \in Sources
    BY DEF Sources
  <2> QED
    BY <2>1, <2>2, <2>3, <2>4
<1>4. ASSUME NEW what, NEW where, Edit(what, where) PROVE Asking'
  BY <1>4 DEF Edit, Typing, Entered, Offered, Dispositions
<1>5. CASE AskToApply \/ AskToReload
  BY <1>5 DEF AskToApply, AskToReload, AskingFirst, Ready
<1>6. CASE ApplyNothing
  BY <1>6 DEF ApplyNothing, Confirmed, Ready, Dispositions
<1>7. CASE StartWrite
  BY <1>7 DEF StartWrite, Confirmed, Ready, Writable, Dest, Dispositions
<1>8. CASE FinishWrite \/ FailWrite
  BY <1>8 DEF FinishWrite, FailWrite
<1>9. CASE StartPush
  BY <1>9 DEF StartPush, Confirmed, Ready, Dispositions
<1>10. CASE PushOne
  BY <1>10 DEF PushOne
<1>11. CASE FailPush \/ FinishPush
  BY <1>11 DEF FailPush, FinishPush
<1>12. CASE Reload \/ FailReload
  BY <1>12 DEF Reload, FailReload, LoadSource, Readable, Sources
<1>13. CASE Kill
  BY <1>13 DEF Kill, LoadSource, Readable, Sources
<1> QED
  BY <1>1, <1>2, <1>3, <1>4, <1>5, <1>6, <1>7, <1>8, <1>9, <1>10, <1>11, <1>12, <1>13 DEF Next

LEMMA DiskStep == ASSUME Staging, Asking, Disk, Next PROVE Disk'
<1> USE DEF Disk, DestinationsNeverTorn
<1>1. busy = "writing" => Dest \in Files /\ TmpOf[Dest] \in Files
  BY FilesAssumption DEF Asking, Dest
<1>2. CASE StartWrite
  <2>1. form.where \in Paths
    BY <1>2 DEF StartWrite, Confirmed, Ready, Writable, Asking
  <2>2. TmpOf[Dest] \in Files
    BY <2>1, FilesAssumption DEF Dest
  <2>3. files' = [files EXCEPT ![TmpOf[Dest]] = Torn]
    BY <1>2 DEF StartWrite
  <2>4. Torn \in [is : {"absent", "torn", "foreign", "ours"}, holds : SUBSET Changes]
    BY DEF Torn, Content
  <2> QED
    BY <2>1, <2>2, <2>3, <2>4 DEF Dest
<1>3. CASE FinishWrite
  <2>1. files' = [files EXCEPT ![TmpOf[Dest]] = Absent, ![Dest] = Content("ours", Payload)]
        /\ busy = "writing"
    BY <1>3 DEF FinishWrite
  <2>2. /\ Absent \in [is : {"absent", "torn", "foreign", "ours"}, holds : SUBSET Changes]
        /\ Absent.is # "torn"
        /\ Content("ours", Payload)
             \in [is : {"absent", "torn", "foreign", "ours"}, holds : SUBSET Changes]
        /\ Content("ours", Payload).is # "torn"
    BY PayloadIsBatch DEF Absent, Content
  <2> QED
    BY <1>1, <2>1, <2>2
<1>4. CASE FailWrite
  BY <1>1, <1>4 DEF FailWrite, Absent, Content
<1>5. CASE UNCHANGED files
  BY <1>5
<1>6. CASE Stage \/ \E k \in 1 .. MaxChanges : Drop(k)
  BY <1>5, <1>6 DEF Stage, Drop
<1>7. CASE Navigate
  BY <1>5, <1>7 DEF Navigate, Go
<1>8. ASSUME NEW what, NEW where, Edit(what, where) PROVE Disk'
  BY <1>5, <1>8 DEF Edit, Typing
<1>9. CASE AskToApply \/ ApplyNothing \/ AskToReload \/ FailReload
  BY <1>5, <1>9 DEF AskToApply, ApplyNothing, AskToReload, FailReload, AskingFirst
<1>10. CASE StartPush \/ PushOne \/ FailPush \/ FinishPush
  BY <1>5, <1>10 DEF StartPush, PushOne, FailPush, FinishPush
<1>11. CASE Reload \/ Kill
  BY <1>5, <1>11 DEF Reload, Kill
<1> QED
  BY <1>2, <1>3, <1>4, <1>6, <1>7, <1>8, <1>9, <1>10, <1>11 DEF Next
LEMMA CandidateStep == ASSUME Staging, Asking, Candidate, Next PROVE Candidate'
<1>1. CASE busy # "pushing" /\ busy' # "pushing" /\ delivered \subseteq delivered'
           /\ UNCHANGED <<sent, pushes, failures>>
  BY <1>1 DEF Candidate, Underway
<1>2. CASE failures' = failures + 1 /\ busy' # "pushing" /\ sent' \in {0, sent}
           /\ UNCHANGED pushes
  BY <1>2 DEF Candidate
<1>3. screen # "apply" => busy = "no"
  BY DEF Asking
<1>4. CASE Stage \/ \E k \in 1 .. MaxChanges : Drop(k)
  BY <1>1, <1>3, <1>4 DEF Stage, Drop
<1>5. CASE Navigate
  BY <1>1, <1>5 DEF Navigate, Go, history
<1>6. ASSUME NEW what, NEW where, Edit(what, where) PROVE Candidate'
  BY <1>1, <1>6 DEF Edit, Typing, history
<1>7. CASE AskToApply \/ ApplyNothing
  BY <1>1, <1>7 DEF AskToApply, ApplyNothing, AskingFirst, Confirmed, Ready, history
<1>8. CASE AskToReload \/ Reload \/ FailReload
  BY <1>1, <1>3, <1>8 DEF AskToReload, Reload, FailReload, AskingFirst, history
<1>9. CASE StartWrite
  BY <1>1, <1>9 DEF StartWrite, Confirmed, Ready, history
<1>10. CASE FinishWrite
  <2>1. delivered \subseteq delivered'
    BY <1>10 DEF FinishWrite, Handed
  <2> QED
    BY <1>1, <1>10, <2>1 DEF FinishWrite
<1>11. CASE FailWrite \/ FailPush \/ Kill
  BY <1>2, <1>11 DEF FailWrite, FailPush, Kill
<1>12. CASE StartPush
  BY <1>12 DEF StartPush, Confirmed, Ready, Candidate, Underway, Staging, history
<1>13. CASE PushOne
  <2>1. /\ busy = "pushing" /\ busy' = "pushing" /\ sent < Len(staged) /\ sent' = sent + 1
        /\ pushes' = [pushes EXCEPT ![staged[sent']] = @ + 1]
        /\ UNCHANGED <<staged, delivered, failures>>
    BY <1>13 DEF PushOne
  <2>2. sent \in Nat /\ sent' \in 1 .. Len(staged) /\ DOMAIN staged = 1 .. Len(staged)
        /\ Len(staged) \in Nat
    BY <2>1 DEF Candidate, Staging
  <2>3. staged[sent'] \in Changes /\ staged[sent'] \in ToSet(staged)
    BY <2>2 DEF Staging, ToSet
  <2>4. staged[sent'] \notin Underway
    BY <2>1, <2>2 DEF Underway, Staging, IsInjective
  <2>5. Underway \cup {staged[sent']} \subseteq Underway'
    <3>1. Underway = {staged[j] : j \in 1 .. sent} /\ Underway' = {staged[j] : j \in 1 .. sent'}
      BY <2>1 DEF Underway
    <3>2. 1 .. sent \subseteq 1 .. sent' /\ sent' \in 1 .. sent'
      BY <2>1, <2>2
    <3> QED
      BY <3>1, <3>2
  <2>6. /\ sent' \in Nat /\ sent' <= Len(staged') /\ pushes' \in [Changes -> Nat]
        /\ failures' \in Nat
    BY <2>1, <2>2, <2>3 DEF Candidate
  <2>7. ASSUME failures' = 0, NEW c \in Changes
        PROVE  pushes'[c] <= 1 /\ (pushes'[c] = 1 => c \in delivered' \cup Underway')
    <3>1. pushes[c] \in Nat /\ pushes[c] <= 1 /\ (pushes[c] = 1 => c \in delivered \cup Underway)
      BY <2>1, <2>7 DEF Candidate
    <3>2. CASE c = staged[sent']
      <4>1. c \notin delivered \cup Underway
        BY <2>3, <2>4, <3>2 DEF Staging
      <4>2. pushes'[c] = pushes[c] + 1
        BY <2>1, <3>2 DEF Candidate
      <4> QED
        BY <3>1, <3>2, <4>1, <4>2, <2>5
    <3>3. CASE c # staged[sent']
      <4>1. pushes'[c] = pushes[c]
        BY <2>1, <3>3 DEF Candidate
      <4> QED
        BY <2>1, <3>1, <4>1, <2>5
    <3> QED
      BY <3>2, <3>3
  <2> QED
    BY <2>6, <2>7 DEF Candidate
<1>14. CASE FinishPush
  <2>1. Underway = {staged[j] : j \in 1 .. sent} /\ Underway' = {}
    BY <1>14 DEF FinishPush, Underway
  <2>2. delivered' = delivered \cup Underway
    BY <1>14, <2>1 DEF FinishPush
  <2>3. UNCHANGED <<sent, pushes, failures>> /\ busy' # "pushing"
    BY <1>14 DEF FinishPush
  <2> QED
    BY <2>2, <2>3 DEF Candidate
<1> QED
  BY <1>4, <1>5, <1>6, <1>7, <1>8, <1>9, <1>10, <1>11, <1>12, <1>13, <1>14 DEF Next

(* The inductive invariant holds in every reachable state.                 *)
THEOREM BatchInvariant == Spec => []IInv
<1>1. Init => IInv
  BY InitIInv
<1>2. IInv /\ [Next]_vars => IInv'
  <2> SUFFICES ASSUME IInv, [Next]_vars PROVE IInv'
    OBVIOUS
  <2>1. CASE Next
    BY <2>1, StagingStep, AskingStep, DiskStep, CandidateStep DEF IInv
  <2>2. CASE UNCHANGED vars
    BY <2>2 DEF vars, IInv, Staging, Asking, Disk, Candidate, DestinationsNeverTorn,
                Underway, Dest
  <2> QED
    BY <2>1, <2>2
<1> QED
  BY <1>1, <1>2, PTL DEF Spec
-----------------------------------------------------------------------------
(* The state keeps its types; a write or a push under way has a batch.     *)
THEOREM DeliveryTypes == Spec => []TypeOK
<1>1. IInv => TypeOK
  BY DEF IInv, Staging, Asking, Disk, TypeOK
<1> QED
  BY <1>1, BatchInvariant, PTL

(* However writes fail or the process is killed, a torn file is a          *)
(* temporary sibling.                                                      *)
THEOREM NeverTornTheorem == Spec => []DestinationsNeverTorn
<1>1. IInv => DestinationsNeverTorn
  BY DEF IInv, Disk
<1> QED
  BY <1>1, BatchInvariant, PTL

(* As long as nothing failed, the candidate has received what was          *)
(* delivered, once, and nothing that was dropped.                          *)
THEOREM CandidateTheorem == Spec => []CandidateIsBatch
<1>1. IInv => CandidateIsBatch
  BY DEF IInv, Candidate, Underway, CandidateIsBatch
<1> QED
  BY <1>1, BatchInvariant, PTL

(* A write or a push starts only from a confirmation of the form as it is. *)
LEMMA ConfirmedStep ==
    ASSUME Asking, [Next]_vars, busy = "no", busy' # "no", NeedsConfirming
    PROVE  asked = form
<1>1. CASE StartWrite \/ StartPush
  BY <1>1 DEF StartWrite, StartPush, Confirmed, Asking
<1>2. ASSUME ~(StartWrite \/ StartPush) PROVE FALSE
  <2>1. CASE Stage \/ \E k \in 1 .. MaxChanges : Drop(k)
    BY <2>1 DEF Stage, Drop
  <2>2. CASE Navigate
    BY <2>2 DEF Navigate, Go
  <2>3. ASSUME NEW what, NEW where, Edit(what, where) PROVE FALSE
    BY <2>3 DEF Edit, Typing
  <2>4. CASE AskToApply \/ ApplyNothing \/ AskToReload \/ FailReload
    BY <2>4 DEF AskToApply, ApplyNothing, AskToReload, FailReload, AskingFirst
  <2>5. CASE FinishWrite \/ FailWrite \/ PushOne \/ FailPush \/ FinishPush
    BY <2>5 DEF FinishWrite, FailWrite, PushOne, FailPush, FinishPush
  <2>6. CASE Reload \/ Kill
    BY <2>6 DEF Reload, Kill
  <2>7. CASE UNCHANGED vars
    BY <2>7 DEF vars
  <2> QED
    BY <1>2, <2>1, <2>2, <2>3, <2>4, <2>5, <2>6, <2>7 DEF Next
<1> QED
  BY <1>1, <1>2

(* Whatever was typed, undone and typed again before, an existing file is  *)
(* overwritten and the candidate pushed to only after the operator was     *)
(* asked about exactly that.                                               *)
THEOREM ConfirmedTheorem == Spec => ConfirmedExactly
<1>1. IInv /\ [Next]_vars =>
        [busy = "no" /\ busy' # "no" /\ NeedsConfirming => asked = form]_vars
  BY ConfirmedStep DEF IInv
<1> QED
  BY <1>1, BatchInvariant, PTL DEF Spec, ConfirmedExactly

(* A batch is given up for another source only after the operator was      *)
(* asked about that source.                                                *)
THEOREM DiscardTheorem == Spec => DiscardsWereAsked
<1>1. IInv /\ [Next]_vars => [Reload /\ staged # <<>> => asked = form]_vars
  BY DEF IInv, Asking, Reload
<1> QED
  BY <1>1, BatchInvariant, PTL DEF Spec, DiscardsWereAsked

(* A step writes to the destination and its temporary sibling only.        *)
LEMMA SourceKeptStep ==
    ASSUME \A p \in Paths : TmpOf[FileOf[p]] \notin Exports,
           Asking, Disk, [Next]_vars, source # Live
    PROVE  files'[source] = files[source]
<1>1. source \in Exports
  BY DEF Asking, Sources
<1>2. busy = "writing" => source # Dest /\ source # TmpOf[Dest]
  BY <1>1 DEF Asking, Dest
<1>3. CASE StartWrite
  <2>1. form.where \in Paths
    BY <1>3 DEF StartWrite, Confirmed, Ready, Writable, Asking
  <2>2. source # TmpOf[Dest]
    BY <1>1, <2>1 DEF Dest
  <2> QED
    BY <1>3, <2>2 DEF StartWrite, Disk
<1>4. CASE FinishWrite \/ FailWrite
  <2>1. source # Dest /\ source # TmpOf[Dest] /\ source \in DOMAIN files
    BY <1>1, <1>2, <1>4, FilesAssumption DEF FinishWrite, FailWrite, Disk
  <2> QED
    BY <1>4, <2>1 DEF FinishWrite, FailWrite
<1>5. CASE Stage \/ \E k \in 1 .. MaxChanges : Drop(k)
  BY <1>5 DEF Stage, Drop
<1>6. CASE Navigate
  BY <1>6 DEF Navigate, Go
<1>7. ASSUME NEW what, NEW where, Edit(what, where) PROVE files'[source] = files[source]
  BY <1>7 DEF Edit, Typing
<1>8. CASE AskToApply \/ ApplyNothing \/ AskToReload \/ FailReload
  BY <1>8 DEF AskToApply, ApplyNothing, AskToReload, FailReload, AskingFirst
<1>9. CASE StartPush \/ PushOne \/ FailPush \/ FinishPush
  BY <1>9 DEF StartPush, PushOne, FailPush, FinishPush
<1>10. CASE Reload \/ Kill
  BY <1>10 DEF Reload, Kill
<1>11. CASE UNCHANGED vars
  BY <1>11 DEF vars
<1> QED
  BY <1>3, <1>4, <1>5, <1>6, <1>7, <1>8, <1>9, <1>10, <1>11 DEF Next

(* The export behind the session keeps its content under every spelling    *)
(* of its path, unless it is itself named as a temporary sibling: the      *)
(* code compares the destination with the source, not the sibling.         *)
THEOREM SourceKeptTheorem ==
    ASSUME \A p \in Paths : TmpOf[FileOf[p]] \notin Exports
    PROVE  Spec => SourceKept
<1>1. IInv /\ [Next]_vars =>
        [source = source' /\ source # Live => files'[source] = files[source]]_vars
  BY SourceKeptStep DEF IInv
<1> QED
  BY <1>1, BatchInvariant, PTL DEF Spec, SourceKept

-----------------------------------------------------------------------------
(* Every step of the workbench is a step of the ledger, or changes nothing *)
(* in it.                                                                  *)
LEMMA LedgerStep ==
    ASSUME Staging, Asking, Candidate, [Next]_vars
    PROVE  [Ledger!LedgerNext]_(Ledger!ledger)
<1> USE DEF Ledger!ledger
<1>1. CASE Stage
  <2>1. next' = next + 1 /\ next' \in Changes /\ next' \notin 1 .. next
    BY <1>1, BoundsAssumption DEF Stage, Staging, Changes
  <2>2. next' \notin ToSet(staged) \cup delivered \cup forgotten
    BY <2>1 DEF Staging
  <2>3. ToSet(staged') = ToSet(staged) \cup {next'}
    BY <1>1, <2>1, <2>2, AppendDistinct DEF Stage, Staging
  <2>4. Ledger!Enter(next')
    BY <1>1, <2>2, <2>3 DEF Stage, Ledger!Enter
  <2> QED
    BY <2>1, <2>4 DEF Ledger!LedgerNext
<1>2. ASSUME NEW k \in 1 .. MaxChanges, Drop(k) PROVE Ledger!LedgerNext
  <2>1. staged[k] \in ToSet(staged) /\ staged[k] \in Changes
    BY <1>2 DEF Drop, ToSet, Staging
  <2>2. ToSet(staged') = ToSet(staged) \ {staged[k]}
    BY <1>2, RemoveDistinct DEF Drop, Staging
  <2>3. Ledger!Forget(staged[k])
    BY <1>2, <2>1, <2>2 DEF Drop, Ledger!Forget
  <2> QED
    BY <2>1, <2>3 DEF Ledger!LedgerNext
<1>3. CASE FinishWrite
  <2>1. CASE form.what = "set-file"
    BY <1>3, <2>1 DEF FinishWrite, Handed
  <2>2. CASE form.what # "set-file"
    <3>1. staged' = <<>> /\ delivered' = delivered \cup Payload /\ forgotten' = forgotten
      BY <1>3, <2>2 DEF FinishWrite, Handed
    <3>2. delivered' = delivered \cup ToSet(staged) /\ ToSet(staged') = {}
      BY <3>1, PayloadIsBatch, EmptyDistinct
    <3> QED
      BY <3>1, <3>2 DEF Ledger!DeliverAll, Ledger!LedgerNext
  <2> QED
    BY <2>1, <2>2
<1>4. CASE FinishPush
  <2>1. staged' = <<>> /\ delivered' = delivered \cup ToSet(staged) /\ forgotten' = forgotten
    BY <1>4, WholeBatch DEF FinishPush, Staging
  <2>2. ToSet(staged') = {}
    BY <2>1, EmptyDistinct
  <2> QED
    BY <2>1, <2>2 DEF Ledger!DeliverAll, Ledger!LedgerNext
<1>5. CASE Reload \/ Kill
  <2>1. staged' = <<>> /\ forgotten' = forgotten \cup ToSet(staged) /\ delivered' = delivered
    BY <1>5 DEF Reload, Kill, LoadSource
  <2>2. ToSet(staged') = {}
    BY <2>1, EmptyDistinct
  <2> QED
    BY <2>1, <2>2 DEF Ledger!ForgetAll, Ledger!LedgerNext
<1>6. CASE UNCHANGED <<staged, delivered, forgotten>>
  BY <1>6
<1>7. CASE Navigate
  BY <1>6, <1>7 DEF Navigate, Go, history
<1>8. ASSUME NEW what, NEW where, Edit(what, where)
      PROVE  [Ledger!LedgerNext]_(Ledger!ledger)
  BY <1>6, <1>8 DEF Edit, Typing, history
<1>9. CASE AskToApply \/ ApplyNothing \/ AskToReload \/ FailReload
  BY <1>6, <1>9 DEF AskToApply, ApplyNothing, AskToReload, FailReload, AskingFirst, history
<1>10. CASE StartWrite \/ FailWrite
  BY <1>6, <1>10 DEF StartWrite, FailWrite, history
<1>11. CASE StartPush \/ PushOne \/ FailPush
  BY <1>6, <1>11 DEF StartPush, PushOne, FailPush, history
<1>12. CASE UNCHANGED vars
  BY <1>6, <1>12 DEF vars
<1> QED
  BY <1>1, <1>2, <1>3, <1>4, <1>5, <1>7, <1>8, <1>9, <1>10, <1>11, <1>12 DEF Next

(* The workbench keeps its ledger: a batch is handed over whole or kept    *)
(* whole, and no change is handed over and staged, or dropped and handed   *)
(* over, through failed writes, failed pushes and kills.                   *)
THEOREM LedgerTheorem == Spec => KeepsLedger
<1>1. Init => Ledger!LedgerInit
  BY EmptyDistinct DEF Init, Ledger!LedgerInit
<1>2. IInv /\ [Next]_vars => [Ledger!LedgerNext]_(Ledger!ledger)
  BY LedgerStep DEF IInv
<1> QED
  BY <1>1, <1>2, BatchInvariant, PTL DEF Spec, KeepsLedger, Ledger!LedgerSpec
=============================================================================
