---------------------------- MODULE BatchDelivery ---------------------------
(***************************************************************************)
(* Where a staged batch goes: the apply screen and its confirmation latch, *)
(* apply_batch with its file writes and live pushes, the reload of another *)
(* source (psc/tui/screens/apply.py, profiles.py, psc/tui/session.py).     *)
(* A change is a number; Workbench models what changes do.                 *)
(*                                                                         *)
(* A file write takes two steps, the temporary sibling and the rename, and *)
(* a live push one per change, so the process can be killed, the disk or   *)
(* the device can fail, in between.  The screens wait for both.            *)
(***************************************************************************)
EXTENDS Naturals, Sequences, FiniteSets, SequencesExt

CONSTANTS
    Files,        \* files on disk
    Paths,        \* paths an operator may type
    FileOf,       \* path -> the file it resolves to
    TmpOf,        \* file -> its sibling with ".tmp" appended
    Exports,      \* files that are configuration exports
    Live,         \* the source that is a firewall manager, not a file
    Nowhere,      \* an empty destination
    MaxChanges,   \* bound on the changes staged in a behaviour
    MaxFailures   \* bound on failed writes and pushes, and on kills

VARIABLES
    source,      \* Live or an export
    staged,      \* staged changes, oldest first
    compounded,  \* the changes in the working configuration
    mode,        \* the disposition applied last
    screen,      \* "hub", "staged", "apply" or "profiles"
    form,        \* what the screen's form says: [what, where]
    armed,       \* its confirmation latch
    busy,        \* "no", "writing" or "pushing"
    sent,        \* changes pushed by this push
    files,       \* file -> content
    next,        \* history: changes staged so far
    asked,       \* history: the last form a confirmation was asked for
    delivered,   \* history: changes handed over
    forgotten,   \* history: changes dropped or given up
    pushes,      \* history: change -> times pushed to the candidate
    failures     \* history: failures and kills

vars == <<source, staged, compounded, mode, screen, form, armed, busy, sent, files,
          next, asked, delivered, forgotten, pushes, failures>>
history == <<next, delivered, forgotten, pushes, failures>>

ASSUME FilesAssumption ==
    /\ FileOf \in [Paths -> Files] /\ TmpOf \in [{FileOf[p] : p \in Paths} -> Files]
    /\ Exports \subseteq Files /\ Live \notin Files /\ Nowhere \notin Paths

ASSUME BoundsAssumption == MaxChanges \in Nat /\ MaxFailures \in Nat

Changes == 1..MaxChanges
Sources == Exports \cup {Live}

ToFile       == {"set-file", "offline-full", "offline-partial"}
Dispositions == ToFile \cup {"set-preview", "live-push"}

Content(is, holds) == [is |-> is, holds |-> holds]
Absent  == Content("absent", {})
Torn    == Content("torn", {})
Foreign == Content("foreign", {})

Blank == [what |-> "none", where |-> Nowhere]

-----------------------------------------------------------------------------
Init ==
    /\ source \in Sources
    /\ staged = <<>> /\ compounded = {}
    /\ mode \in Dispositions
    /\ screen = "hub" /\ form = Blank /\ armed = FALSE
    /\ busy = "no" /\ sent = 0
    /\ files \in [Files -> {Absent, Foreign}] /\ \A f \in Exports : files[f] = Foreign
    /\ next = 0 /\ asked = Blank
    /\ delivered = {} /\ forgotten = {}
    /\ pushes = [c \in Changes |-> 0] /\ failures = 0

-----------------------------------------------------------------------------
(* The hub and the staged changelist.                                      *)

Stage ==
    /\ screen = "hub" /\ next < MaxChanges
    /\ next' = next + 1
    /\ staged' = Append(staged, next')
    /\ compounded' = compounded \cup {next'}
    /\ UNCHANGED <<source, mode, screen, form, armed, busy, sent, files, asked,
                   delivered, forgotten, pushes, failures>>

(* drop_staged rebuilds the working configuration from the source.         *)
Drop(k) ==
    /\ screen = "staged" /\ k \in DOMAIN staged
    /\ staged' = RemoveAt(staged, k)
    /\ compounded' = ToSet(staged')
    /\ forgotten' = forgotten \cup {staged[k]}
    /\ UNCHANGED <<source, mode, screen, form, armed, busy, sent, files, next, asked,
                   delivered, pushes, failures>>

Offered == IF source = Live THEN Dispositions ELSE Dispositions \ {"live-push"}

(* initial_disposition; a launch path is one of the typed ones.            *)
InitialDisposition == IF mode \in Offered THEN mode ELSE "set-preview"

Go(to, shown) ==
    /\ screen' = to /\ form' = shown /\ armed' = FALSE
    /\ UNCHANGED <<source, staged, compounded, mode, busy, sent, files, asked, history>>

Navigate ==
    /\ busy = "no"
    /\ \/ screen = "hub" /\ Go("staged", Blank)
       \/ screen = "hub" /\ Go("profiles", [what |-> "reload", where |-> Live])
       \/ screen = "staged" /\ Go("apply", [what |-> InitialDisposition, where |-> Nowhere])
       \/ screen = "apply" /\ Go("staged", Blank)
       \/ screen \in {"staged", "profiles"} /\ Go("hub", Blank)

Entered(what, where) ==
    \/ screen = "apply" /\ what \in Offered /\ where \in Paths \cup {Nowhere}
    \/ screen = "profiles" /\ what = "reload" /\ where \in Sources

Typing(what, where, latch) ==
    /\ busy = "no" /\ Entered(what, where) /\ form # [what |-> what, where |-> where]
    /\ form' = [what |-> what, where |-> where]
    /\ armed' = latch
    /\ UNCHANGED <<source, staged, compounded, mode, screen, busy, sent, files, asked, history>>

(* Faulty variant: what was confirmed stays confirmed. *)
EditKeepingLatch(what, where) == Typing(what, where, armed)

(* Another choice or destination must be confirmed anew.                   *)
Edit(what, where) == Typing(what, where, FALSE)

-----------------------------------------------------------------------------
(* Pressing the key of the apply screen.                                   *)

Dest == FileOf[form.where]

(* Faulty variant: an empty batch is applied too. *)
ReadyWhenEmpty == screen = "apply" /\ busy = "no" /\ (form.what \in ToFile => form.where # Nowhere)

Ready ==
    /\ screen = "apply" /\ busy = "no" /\ staged # <<>>
    /\ form.what \in ToFile => form.where # Nowhere

NeedsConfirming == form.what = "live-push" \/ (form.what \in ToFile /\ files[Dest] # Absent)

AskingFirst(needed) ==
    /\ needed /\ ~armed
    /\ armed' = TRUE
    /\ asked' = form
    /\ UNCHANGED <<source, staged, compounded, mode, screen, form, busy, sent, files, history>>

AskToApply == Ready /\ AskingFirst(NeedsConfirming)

Confirmed == Ready /\ (NeedsConfirming => armed)

(* A preview prints the script; a destination that is the source raises.   *)
ApplyNothing ==
    /\ Confirmed
    /\ form.what = "set-preview" \/ (form.what \in ToFile /\ Dest = source)
    /\ mode' = form.what
    /\ armed' = FALSE
    /\ UNCHANGED <<source, staged, compounded, screen, form, busy, sent, files, asked, history>>

(* Faulty variant: any path that is not spelled like the source will do. *)
WritableAnywhere == form.what \in ToFile

Writable == form.what \in ToFile /\ Dest # source

(* Faulty variant: the destination itself is opened and truncated. *)
StartWriteInPlace ==
    /\ Confirmed /\ Writable
    /\ mode' = form.what
    /\ busy' = "writing"
    /\ files' = [files EXCEPT ![Dest] = Torn]
    /\ UNCHANGED <<source, staged, compounded, screen, form, armed, sent, asked, history>>

StartWrite ==
    /\ Confirmed /\ Writable
    /\ mode' = form.what
    /\ busy' = "writing"
    /\ files' = [files EXCEPT ![TmpOf[Dest]] = Torn]
    /\ UNCHANGED <<source, staged, compounded, screen, form, armed, sent, asked, history>>

(* An exported script is no commit: only a written configuration clears.   *)
Handed(payload) ==
    IF form.what = "set-file" THEN UNCHANGED <<staged, delivered>>
    ELSE staged' = <<>> /\ delivered' = delivered \cup payload

Payload == IF form.what = "offline-full" THEN compounded ELSE ToSet(staged)

(* os.replace, and the batch is handed over.                               *)
FinishWrite ==
    /\ busy = "writing"
    /\ busy' = "no" /\ armed' = FALSE
    /\ files' = [files EXCEPT ![TmpOf[Dest]] = Absent, ![Dest] = Content("ours", Payload)]
    /\ Handed(Payload)
    /\ UNCHANGED <<source, compounded, mode, screen, form, sent, asked, next, forgotten, pushes, failures>>

FailWrite ==
    /\ busy = "writing" /\ failures < MaxFailures
    /\ busy' = "no" /\ armed' = FALSE
    /\ files' = [files EXCEPT ![TmpOf[Dest]] = Absent]
    /\ failures' = failures + 1
    /\ UNCHANGED <<source, staged, compounded, mode, screen, form, sent, asked, next,
                   delivered, forgotten, pushes>>

StartPush ==
    /\ Confirmed /\ form.what = "live-push"
    /\ mode' = form.what
    /\ busy' = "pushing" /\ sent' = 0
    /\ UNCHANGED <<source, staged, compounded, screen, form, armed, files, asked, history>>

PushOne ==
    /\ busy = "pushing" /\ sent < Len(staged)
    /\ sent' = sent + 1
    /\ pushes' = [pushes EXCEPT ![staged[sent']] = @ + 1]
    /\ UNCHANGED <<source, staged, compounded, mode, screen, form, armed, busy, files, asked,
                   next, delivered, forgotten, failures>>

(* Faulty variant: what was pushed leaves the batch. *)
FailPushTrimming ==
    /\ busy = "pushing" /\ sent < Len(staged) /\ failures < MaxFailures
    /\ busy' = "no" /\ armed' = FALSE
    /\ staged' = SubSeq(staged, sent + 1, Len(staged))
    /\ delivered' = delivered \cup {staged[j] : j \in 1..sent}
    /\ failures' = failures + 1
    /\ UNCHANGED <<source, compounded, mode, screen, form, sent, files, asked, next, forgotten, pushes>>

(* The push stops at the first change that fails and the batch stays.      *)
FailPush ==
    /\ busy = "pushing" /\ sent < Len(staged) /\ failures < MaxFailures
    /\ busy' = "no" /\ armed' = FALSE
    /\ failures' = failures + 1
    /\ UNCHANGED <<source, staged, compounded, mode, screen, form, sent, files, asked, next,
                   delivered, forgotten, pushes>>

(* Faulty variant: a pushed batch stays staged. *)
FinishPushKeeping ==
    /\ busy = "pushing" /\ sent = Len(staged)
    /\ busy' = "no" /\ armed' = FALSE
    /\ UNCHANGED <<source, staged, compounded, mode, screen, form, sent, files, asked, history>>

FinishPush ==
    /\ busy = "pushing" /\ sent = Len(staged)
    /\ busy' = "no" /\ armed' = FALSE
    /\ delivered' = delivered \cup {staged[j] : j \in 1..sent}
    /\ staged' = <<>>
    /\ UNCHANGED <<source, compounded, mode, screen, form, sent, files, asked, next,
                   forgotten, pushes, failures>>

-----------------------------------------------------------------------------
(* Reloading a source, and a killed process started again.                 *)

AskToReload ==
    /\ screen = "profiles"
    /\ AskingFirst(staged # <<>>)

Readable == {Live} \cup {f \in Exports : files[f] # Absent}

LoadSource(s) ==
    /\ source' = s
    /\ staged' = <<>> /\ compounded' = {}
    /\ forgotten' = forgotten \cup ToSet(staged)

(* Faulty variant: no confirmation. *)
ReloadAtOnce ==
    /\ screen = "profiles"
    /\ form.where \in Readable
    /\ LoadSource(form.where)
    /\ armed' = FALSE
    /\ UNCHANGED <<mode, screen, form, busy, sent, files, asked, next, delivered, pushes, failures>>

Reload ==
    /\ screen = "profiles" /\ (staged # <<>> => armed)
    /\ form.where \in Readable
    /\ LoadSource(form.where)
    /\ armed' = FALSE
    /\ UNCHANGED <<mode, screen, form, busy, sent, files, asked, next, delivered, pushes, failures>>

(* The source cannot be read or parsed: nothing is replaced.               *)
FailReload ==
    /\ screen = "profiles" /\ armed
    /\ armed' = FALSE
    /\ UNCHANGED <<source, staged, compounded, mode, screen, form, busy, sent, files, asked, history>>

Kill ==
    /\ failures < MaxFailures
    /\ failures' = failures + 1
    /\ \E s \in Readable : LoadSource(s)
    /\ mode' \in Dispositions
    /\ screen' = "hub" /\ form' = Blank /\ armed' = FALSE /\ busy' = "no" /\ sent' = 0
    /\ UNCHANGED <<files, asked, next, delivered, pushes>>

Next ==
    \/ Stage \/ Navigate
    \/ \E k \in 1..MaxChanges : Drop(k)
    \/ \E what \in Dispositions \cup {"reload"}, where \in Paths \cup Sources \cup {Nowhere} :
        Edit(what, where)
    \/ AskToApply \/ ApplyNothing
    \/ StartWrite \/ FinishWrite \/ FailWrite
    \/ StartPush \/ PushOne \/ FailPush \/ FinishPush
    \/ AskToReload \/ Reload \/ FailReload
    \/ Kill

Spec == Init /\ [][Next]_vars

-----------------------------------------------------------------------------
(* Properties.                                                             *)

TypeOK ==
    /\ source \in Sources
    /\ staged \in Seq(Changes) /\ IsInjective(staged)
    /\ ToSet(staged) \subseteq compounded
    /\ mode \in Dispositions
    /\ screen \in {"hub", "staged", "apply", "profiles"}
    /\ busy # "no" => screen = "apply" /\ staged # <<>>
    /\ files \in [Files -> [is : {"absent", "torn", "foreign", "ours"}, holds : SUBSET Changes]]

(* The workbench keeps its ledger: a batch is handed over whole, by a file *)
(* that holds all of it or a push that ran to its end, or kept whole; what *)
(* was handed over is not staged again, failures and kills included.       *)
Ledger == INSTANCE ChangeLedger WITH pending <- ToSet(staged)
KeepsLedger == Ledger!LedgerSpec

(* A file that exists is overwritten, and the candidate pushed to, only    *)
(* after the operator was asked about exactly this disposition and path.   *)
ConfirmedExactly ==
    [][busy = "no" /\ busy' # "no" /\ NeedsConfirming => asked = form]_vars

(* A staged batch is discarded by loading a source only after the operator *)
(* was asked about exactly this source.                                    *)
DiscardsWereAsked ==
    [][Reload /\ staged # <<>> => asked = form]_vars

(* A killed or failed write never leaves a destination torn: a file is     *)
(* torn only under the temporary name.                                     *)
DestinationsNeverTorn ==
    \A f \in Files : files[f].is = "torn" => \E p \in Paths : TmpOf[FileOf[p]] = f

(* The candidate holds a change twice, or one that was dropped, only if a  *)
(* push failed or the process died.                                        *)
CandidateIsBatch ==
    (failures = 0 /\ busy = "no") =>
        \A c \in Changes : pushes[c] <= 1 /\ (pushes[c] = 1 => c \in delivered)

(* "The compounded config is never written back over the source export":   *)
(* the export behind the session keeps its content.                        *)
SourceKept ==
    [][source = source' /\ source # Live => files'[source] = files[source]]_vars
=============================================================================
