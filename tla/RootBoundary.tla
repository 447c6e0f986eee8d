---------------------------- MODULE RootBoundary ----------------------------
(***************************************************************************)
(* blob-nix-nixos-root-boundary and blob-nix-nixos-privileged-helper: an   *)
(* invocation consumes the permit of an exact request, checks the host,    *)
(* consumes the authorization in the execution ledger, runs the            *)
(* candidate's switch-to-configuration and puts the baseline back where    *)
(* the run did not do what was approved.                                   *)
(*                                                                         *)
(* Each helper is one process.  A step is one system call, or several that *)
(* no other process can tell apart.  The helper passes on the time it was  *)
(* given when it was called: the clock is read once, in Begin.             *)
(***************************************************************************)
EXTENDS PreparedActivation, PermitDirectory

CONSTANTS
  Helpers,      \* processes that call RootOwnedNixOsActivationBoundary::execute
  BootDefault,  \* closure of the boot-default profile; nothing in src writes it
  NoClosure     \* "no closure" where a closure is expected

ASSUME BoundaryAssumption ==
  /\ NoClosure \notin StoreClosure
  /\ BootDefault \in StoreClosure

VARIABLES
  pc,           \* what each helper does next
  req,          \* the request of each invocation
  at,           \* now_unix_ms, as the caller read it
  before,       \* the closure that was live before the command
  succeeded,    \* whether the candidate command exited with success
  result,       \* what the last invocation of each helper returned
  receipt,      \* the execution ledger: the authorizations with a receipt
  receiptDisk,  \* what each receipt may turn out to be after a power loss
  current,      \* the closure /run/current-system points to
  spent,        \* history: the files a helper took for consumed for good
  runs          \* history: how often each request's command was started

localVars    == <<pc, req, at, before, succeeded, result>>
ledgerVars   == <<receipt, receiptDisk>>
historyVars  == <<spent, runs>>
boundaryVars == <<localVars, ledgerVars, current, historyVars>>

HelperSteps ==
  {"idle", "readPermit", "removePermit", "syncPermits", "inspectHost",
   "createReceipt", "syncReceipt", "spawn", "running", "readAfter",
   "restore", "restoring", "checkRestored", "readFinal",
   "orphan", "orphanRestore"}

\* Grouped by what a caller can conclude: the errors that precede the
\* command; an error that returns at once wherever it occurs; success; success
\* of the rollback of a failed test; an unexpected effect that was undone;
\* RollbackFailed; and no answer, because the helper was killed.
Results ==
  {"none", "refused", "error", "ok", "rolledBack", "undone", "rollbackFailed",
   "killed"}

BoundaryTypeOK ==
  /\ pc          \in [Helpers -> HelperSteps]
  /\ req         \in [Helpers -> Request \cup {NoRequest}]
  /\ at          \in [Helpers -> Nat]
  /\ before      \in [Helpers -> StoreClosure \cup {NoClosure}]
  /\ succeeded   \in [Helpers -> BOOLEAN]
  /\ result      \in [Helpers -> Results]
  /\ receipt     \in [Authorizations -> BOOLEAN]
  /\ receiptDisk \in [Authorizations -> SUBSET BOOLEAN]
  /\ current     \in StoreClosure
  /\ spent       \in SUBSET Files
  /\ runs        \in [Request -> 0 .. 2]

IdleLocals ==
  /\ pc        = [h \in Helpers |-> "idle"]
  /\ req       = [h \in Helpers |-> NoRequest]
  /\ at        = [h \in Helpers |-> 0]
  /\ before    = [h \in Helpers |-> NoClosure]
  /\ succeeded = [h \in Helpers |-> FALSE]
  /\ result    = [h \in Helpers |-> "none"]

BoundaryInit ==
  /\ IdleLocals
  /\ receipt     = [a \in Authorizations |-> FALSE]
  /\ receiptDisk = [a \in Authorizations |-> {FALSE}]
  /\ current     = BootDefault
  /\ spent       = {}
  /\ runs        = [r \in Request |-> 0]

-----------------------------------------------------------------------------
(* Parts of actions.                                                        *)

Plan(h)      == Prepared[req[h]].plan
Candidate(h) == Plan(h).closure
IsPreview(h) == Plan(h).action = PreviewActivation
AuthOf(h)    == Authorization(req[h])

Goes(h, from, to) ==
  /\ pc[h] = from
  /\ pc' = [pc EXCEPT ![h] = to]
  /\ UNCHANGED <<clock, req, at, result>>

\* The invocation returns outcome and its locals are gone.
Returns(h, outcome) ==
  /\ pc'        = [pc        EXCEPT ![h] = "idle"]
  /\ req'       = [req       EXCEPT ![h] = NoRequest]
  /\ at'        = [at        EXCEPT ![h] = 0]
  /\ before'    = [before    EXCEPT ![h] = NoClosure]
  /\ succeeded' = [succeeded EXCEPT ![h] = FALSE]
  /\ result'    = [result    EXCEPT ![h] = outcome]
  /\ UNCHANGED clock

\* What switch-to-configuration may leave live: it points the system at its
\* own closure, or gives up before it does.
Effects(closure) == {current, closure}

-----------------------------------------------------------------------------
(* RootOwnedNixOsActivationBoundary::execute up to the permit.              *)

Begin(h, r) ==
  /\ pc[h] = "idle"
  /\ IF ValidatePrepared(Prepared[r], clock)
     THEN /\ pc'     = [pc     EXCEPT ![h] = "readPermit"]
          /\ req'    = [req    EXCEPT ![h] = r]
          /\ at'     = [at     EXCEPT ![h] = clock]
          /\ result' = [result EXCEPT ![h] = "none"]
     ELSE /\ result' = [result EXCEPT ![h] = "refused"]
          /\ UNCHANGED <<pc, req, at>>
  /\ UNCHANGED <<clock, before, succeeded, current>>
  /\ UNCHANGED <<dirVars, ledgerVars, historyVars>>

IsPermitFor(f, r) ==
  text[f] \in Request /\ PermitText(Prepared[text[f]]) = PermitText(Prepared[r])

\* The text at the authorization's path is the one this request needs.
HoldsPermitFor(r) ==
  entry[Authorization(r)] # NoFile /\ IsPermitFor(entry[Authorization(r)], r)

\* Mutant: any complete permit with the authorization's name will do.
ReadAnyPermit(h) ==
  /\ Goes(h, "readPermit", "removePermit")
  /\ entry[AuthOf(h)] # NoFile
  /\ text[entry[AuthOf(h)]] \in Request
  /\ UNCHANGED <<before, succeeded, current>>
  /\ UNCHANGED <<dirVars, ledgerVars, historyVars>>

ReadPermit(h) ==
  /\ Goes(h, "readPermit", "removePermit")
  /\ HoldsPermitFor(req[h])
  /\ UNCHANGED <<before, succeeded, current>>
  /\ UNCHANGED <<dirVars, ledgerVars, historyVars>>

\* Missing, torn or for another request: the file stays.
PermitRefused(h) ==
  /\ pc[h] = "readPermit"
  /\ ~HoldsPermitFor(req[h])
  /\ Returns(h, "refused")
  /\ UNCHANGED current
  /\ UNCHANGED <<dirVars, ledgerVars, historyVars>>

\* Mutant: the permit is taken for consumed before its removal is on disk.
RemoveUnsynced(h) ==
  /\ Goes(h, "removePermit", "inspectHost")
  /\ Unlink(AuthOf(h))
  /\ UNCHANGED <<before, succeeded, current>>
  /\ UNCHANGED <<ledgerVars, historyVars>>

RemovePermit(h) ==
  /\ Goes(h, "removePermit", "syncPermits")
  /\ Unlink(AuthOf(h))
  /\ UNCHANGED <<before, succeeded, current>>
  /\ UNCHANGED <<ledgerVars, historyVars>>

\* Mutant: a helper that finds nothing to remove tries again.
RetryRemoval(h) ==
  /\ pc[h] = "removePermit"
  /\ entry[AuthOf(h)] = NoFile
  /\ UNCHANGED <<clock, localVars, current>>
  /\ UNCHANGED <<dirVars, ledgerVars, historyVars>>

\* Another helper removed it first.
PermitGone(h) ==
  /\ pc[h] = "removePermit"
  /\ entry[AuthOf(h)] = NoFile
  /\ Returns(h, "refused")
  /\ UNCHANGED current
  /\ UNCHANGED <<dirVars, ledgerVars, historyVars>>

\* Mutant: the directory is not synced after the removal.
SkipPermitSync(h) ==
  /\ Goes(h, "syncPermits", "inspectHost")
  /\ spent' = removed
  /\ UNCHANGED <<before, succeeded, current, runs>>
  /\ UNCHANGED <<dirVars, ledgerVars>>

\* consume_matching returns Ok: the removal is on disk.  The runtime validates
\* the request again, with the same time, and so with the same outcome.
SyncPermits(h) ==
  /\ Goes(h, "syncPermits", "inspectHost")
  /\ SyncDirectory
  /\ spent' = removed
  /\ UNCHANGED <<before, succeeded, current, runs>>
  /\ UNCHANGED ledgerVars

-----------------------------------------------------------------------------
(* PrivilegedNixOsActivationHelper::execute.                                *)

\* Mutant: the live system is taken as the baseline whatever it is.
InspectAnyHost(h) ==
  /\ Goes(h, "inspectHost", "createReceipt")
  /\ before' = [before EXCEPT ![h] = current]
  /\ UNCHANGED <<succeeded, current>>
  /\ UNCHANGED <<dirVars, ledgerVars, historyVars>>

\* Mutant: the baseline is checked but not kept for the rollback.
ForgetBaseline(h) ==
  /\ Goes(h, "inspectHost", "createReceipt")
  /\ current = BootDefault
  /\ UNCHANGED <<before, succeeded, current>>
  /\ UNCHANGED <<dirVars, ledgerVars, historyVars>>

\* The candidate is canonical and executable, the live system is the boot
\* default, and the program that would restore it is there.
InspectHost(h) ==
  /\ Goes(h, "inspectHost", "createReceipt")
  /\ current = BootDefault
  /\ before' = [before EXCEPT ![h] = current]
  /\ UNCHANGED <<succeeded, current>>
  /\ UNCHANGED <<dirVars, ledgerVars, historyVars>>

NotBootDefault(h) ==
  /\ pc[h] = "inspectHost"
  /\ current # BootDefault
  /\ Returns(h, "refused")
  /\ UNCHANGED current
  /\ UNCHANGED <<dirVars, ledgerVars, historyVars>>

\* Mutant: an existing receipt is opened again.
CreateOrReopenReceipt(h) ==
  /\ Goes(h, "createReceipt", "syncReceipt")
  /\ receipt'     = [receipt     EXCEPT ![AuthOf(h)] = TRUE]
  /\ receiptDisk' = [receiptDisk EXCEPT ![AuthOf(h)] = @ \cup {TRUE}]
  /\ UNCHANGED <<before, succeeded, current>>
  /\ UNCHANGED <<dirVars, historyVars>>

CreateReceipt(h) ==
  /\ Goes(h, "createReceipt", "syncReceipt")
  /\ ~receipt[AuthOf(h)]
  /\ receipt'     = [receipt     EXCEPT ![AuthOf(h)] = TRUE]
  /\ receiptDisk' = [receiptDisk EXCEPT ![AuthOf(h)] = @ \cup {TRUE}]
  /\ UNCHANGED <<before, succeeded, current>>
  /\ UNCHANGED <<dirVars, historyVars>>

AlreadyConsumed(h) ==
  /\ pc[h] = "createReceipt"
  /\ receipt[AuthOf(h)]
  /\ Returns(h, "refused")
  /\ UNCHANGED current
  /\ UNCHANGED <<dirVars, ledgerVars, historyVars>>

\* Mutant: the command is started before the receipt is on disk.
SkipReceiptSync(h) ==
  /\ Goes(h, "syncReceipt", "spawn")
  /\ UNCHANGED <<before, succeeded, current>>
  /\ UNCHANGED <<dirVars, ledgerVars, historyVars>>

\* The receipt is written and synced, and then its directory is.
SyncReceipt(h) ==
  /\ Goes(h, "syncReceipt", "spawn")
  /\ receiptDisk' = [a \in Authorizations |-> {receipt[a]}]
  /\ UNCHANGED <<before, succeeded, current, receipt>>
  /\ UNCHANGED <<dirVars, historyVars>>

StartCandidate(h) ==
  /\ Goes(h, "spawn", "running")
  /\ runs' = [runs EXCEPT ![req[h]] = IF @ < 2 THEN @ + 1 ELSE 2]
  /\ UNCHANGED <<before, succeeded, current, spent>>
  /\ UNCHANGED <<dirVars, ledgerVars>>

FinishCandidate(h) ==
  /\ Goes(h, "running", "readAfter")
  /\ current' \in Effects(Candidate(h))
  /\ \E exit \in BOOLEAN : succeeded' = [succeeded EXCEPT ![h] = exit]
  /\ UNCHANGED before
  /\ UNCHANGED <<dirVars, ledgerVars, historyVars>>

\* Mutant: a test counts as done when the command says so.
ExitCodeDecides(h) ==
  IF IsPreview(h) THEN current = before[h] ELSE succeeded[h]

\* A preview left the live system alone; a test succeeded and its candidate
\* is live.
AsApproved(h) ==
  IF IsPreview(h)
  THEN current = before[h]
  ELSE succeeded[h] /\ current = Candidate(h)

ReportOk(h) ==
  /\ pc[h] = "readAfter"
  /\ AsApproved(h)
  /\ Returns(h, "ok")
  /\ UNCHANGED current
  /\ UNCHANGED <<dirVars, ledgerVars, historyVars>>

DecideToRestore(h) ==
  /\ Goes(h, "readAfter", "restore")
  /\ ~AsApproved(h)
  /\ UNCHANGED <<before, succeeded, current>>
  /\ UNCHANGED <<dirVars, ledgerVars, historyVars>>

-----------------------------------------------------------------------------
(* restore_baseline, and what execute does after it.                        *)

StartRestore(h) ==
  /\ Goes(h, "restore", "restoring")
  /\ UNCHANGED <<before, succeeded, current>>
  /\ UNCHANGED <<dirVars, ledgerVars, historyVars>>

FinishRestore(h) ==
  /\ Goes(h, "restoring", "checkRestored")
  /\ current' \in Effects(before[h])
  /\ UNCHANGED <<before, succeeded>>
  /\ UNCHANGED <<dirVars, ledgerVars, historyVars>>

\* The rollback command exits with a failure.
RestoreExitsBadly(h) ==
  /\ pc[h] = "restoring"
  /\ current' \in Effects(before[h])
  /\ Returns(h, "rollbackFailed")
  /\ UNCHANGED <<dirVars, ledgerVars, historyVars>>

NotRestored(h) ==
  /\ pc[h] = "checkRestored"
  /\ current # before[h]
  /\ Returns(h, "rollbackFailed")
  /\ UNCHANGED current
  /\ UNCHANGED <<dirVars, ledgerVars, historyVars>>

FailedTest(h) == ~IsPreview(h) /\ ~succeeded[h]

\* A command that had the wrong effect is an error although the baseline is
\* back.
ReportUndone(h) ==
  /\ pc[h] = "checkRestored"
  /\ current = before[h]
  /\ ~FailedTest(h)
  /\ Returns(h, "undone")
  /\ UNCHANGED current
  /\ UNCHANGED <<dirVars, ledgerVars, historyVars>>

\* A failed test is reported with its rollback and what is live after it.
RestoredAfterFailure(h) ==
  /\ Goes(h, "checkRestored", "readFinal")
  /\ current = before[h]
  /\ FailedTest(h)
  /\ UNCHANGED <<before, succeeded, current>>
  /\ UNCHANGED <<dirVars, ledgerVars, historyVars>>

ReportRolledBack(h) ==
  /\ pc[h] = "readFinal"
  /\ Returns(h, "rolledBack")
  /\ UNCHANGED current
  /\ UNCHANGED <<dirVars, ledgerVars, historyVars>>

-----------------------------------------------------------------------------
(* What can end an invocation anywhere.                                     *)

InsideHelper ==
  HelperSteps \ {"idle", "running", "restoring", "orphan", "orphanRestore"}

\* A system call fails, a command that cannot be started included, and the
\* error is returned at once.  What earlier steps did stays: a removed permit is
\* gone, a receipt is used up, and after the command nothing is restored.
CallFails(h) ==
  /\ pc[h] \in InsideHelper
  /\ Returns(h, "error")
  /\ UNCHANGED current
  /\ UNCHANGED <<dirVars, ledgerVars, historyVars>>

\* The helper is killed between two steps.
KillHelper(h) ==
  /\ pc[h] \in InsideHelper
  /\ Returns(h, "killed")
  /\ UNCHANGED current
  /\ UNCHANGED <<dirVars, ledgerVars, historyVars>>

\* The helper is killed while its command runs, or output() fails after the
\* start and its error is returned: the command goes on, nobody waits for it and
\* nothing is restored after it.
Abandon(h) ==
  /\ \/ Goes(h, "running",   "orphan")
     \/ Goes(h, "restoring", "orphanRestore")
  /\ UNCHANGED <<before, succeeded, current>>
  /\ UNCHANGED <<dirVars, ledgerVars, historyVars>>

\* An abandoned command ends.  The slot of its helper is free from here on, and
\* what the caller was told is recorded here.
FinishOrphan(h) ==
  /\ \/ pc[h] = "orphan"        /\ current' \in Effects(Candidate(h))
     \/ pc[h] = "orphanRestore" /\ current' \in Effects(before[h])
  /\ \E outcome \in {"error", "killed"} : Returns(h, outcome)
  /\ UNCHANGED <<dirVars, ledgerVars, historyVars>>

\* The steps a helper takes by itself.
HelperProgress(h) ==
  \/ ReadPermit(h)
  \/ PermitRefused(h)
  \/ RemovePermit(h)
  \/ PermitGone(h)
  \/ SyncPermits(h)
  \/ InspectHost(h)
  \/ NotBootDefault(h)
  \/ CreateReceipt(h)
  \/ AlreadyConsumed(h)
  \/ SyncReceipt(h)
  \/ StartCandidate(h)
  \/ FinishCandidate(h)
  \/ ReportOk(h)
  \/ DecideToRestore(h)
  \/ StartRestore(h)
  \/ FinishRestore(h)
  \/ RestoreExitsBadly(h)
  \/ NotRestored(h)
  \/ ReportUndone(h)
  \/ RestoredAfterFailure(h)
  \/ ReportRolledBack(h)
  \/ FinishOrphan(h)

HelperStep(h) ==
  \/ \E r \in Request : Begin(h, r)
  \/ HelperProgress(h)
  \/ CallFails(h)
  \/ KillHelper(h)
  \/ Abandon(h)

\* A reboot ends every process, loses what was not synced in the ledger and
\* starts the boot-default generation.
RebootBoundary ==
  /\ pc'        = [h \in Helpers |-> "idle"]
  /\ req'       = [h \in Helpers |-> NoRequest]
  /\ at'        = [h \in Helpers |-> 0]
  /\ before'    = [h \in Helpers |-> NoClosure]
  /\ succeeded' = [h \in Helpers |-> FALSE]
  /\ result'    = [h \in Helpers |-> "none"]
  /\ receipt'   \in [Authorizations -> BOOLEAN]
  /\ \A a \in Authorizations : receipt'[a] \in receiptDisk[a]
  /\ receiptDisk' = [a \in Authorizations |-> {receipt'[a]}]
  /\ current'   = BootDefault
  /\ UNCHANGED historyVars
=============================================================================
