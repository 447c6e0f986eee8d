--------------------------- MODULE AuthorityProofs ---------------------------
(***************************************************************************)
(* ActivationSystem implements SingleUseAuthority: every initial state     *)
(* maps to its initial state, and every step to a step or a stutter.       *)
(***************************************************************************)
EXTENDS ActivationSystemProofs

-----------------------------------------------------------------------------
(* A running switch program was started.                                    *)

\* Between a start and the end of its command nothing uncounts the start.
LEMMA HelperKeepsStarted ==
  ASSUME TypeInv, StartedInv, NEW h \in Helpers, Helper(h)
  PROVE  StartedInv'
<1> USE DEF TypeInv, TypeOK, BoundaryTypeOK, StartedInv, dirVars, ledgerVars, historyVars
<1>1. ASSUME StartCandidate(h) PROVE StartedInv'
  <2>1. /\ pc' = [pc EXCEPT ![h] = "running"] /\ req' = req
        /\ runs' = [runs EXCEPT ![req[h]] = IF @ < 2 THEN @ + 1 ELSE 2]
        /\ req[h] \in Request
    BY <1>1 DEF StartCandidate, Goes, HelperLocals
  <2>2. runs'[req[h]] > 0 /\ \A r \in Request : runs[r] > 0 => runs'[r] > 0
    BY <2>1
  <2>3. \A k \in Helpers : pc'[k] \in {"running", "orphan"} => req[k] \in Request
    BY <2>1 DEF HelperLocals
  <2> QED  BY <2>1, <2>2, <2>3
<1>2. ASSUME ~StartCandidate(h) PROVE StartedInv'
  <2> DEFINE Quiet ==
        /\ runs' = runs
        /\ \A k \in Helpers : pc'[k] \in {"running", "orphan"} =>
             pc[k] \in {"running", "orphan"} /\ req'[k] = req[k]
  <2>1. ASSUME NEW r \in Request, Begin(h, r) PROVE Quiet
    BY <2>1 DEF Begin
  <2>2. (ReadPermit(h) \/ RemovePermit(h) \/ SyncPermits(h) \/ InspectHost(h)
           \/ CreateReceipt(h) \/ SyncReceipt(h)) => Quiet
    BY DEF ReadPermit, RemovePermit, SyncPermits, InspectHost, CreateReceipt, SyncReceipt, Goes
  <2>3. (PermitRefused(h) \/ PermitGone(h) \/ NotBootDefault(h) \/ AlreadyConsumed(h)) => Quiet
    BY DEF PermitRefused, PermitGone, NotBootDefault, AlreadyConsumed, Returns
  <2>4. (FinishCandidate(h) \/ DecideToRestore(h) \/ StartRestore(h) \/ FinishRestore(h)
           \/ RestoredAfterFailure(h) \/ Abandon(h)) => Quiet
    BY DEF FinishCandidate, DecideToRestore, StartRestore, FinishRestore,
       RestoredAfterFailure, Abandon, Goes
  <2>5. (ReportOk(h) \/ RestoreExitsBadly(h) \/ NotRestored(h) \/ ReportUndone(h)
           \/ ReportRolledBack(h)) => Quiet
    BY DEF ReportOk, RestoreExitsBadly, NotRestored, ReportUndone, ReportRolledBack, Returns
  <2>6. (CallFails(h) \/ KillHelper(h) \/ FinishOrphan(h)) => Quiet
    BY DEF CallFails, KillHelper, FinishOrphan, Returns
  <2>7. Quiet
    BY <1>2, <2>1, <2>2, <2>3, <2>4, <2>5, <2>6 DEF Helper, HelperStep, HelperProgress
  <2> QED  BY <2>7
<1> QED  BY <1>1, <1>2

\* Whatever runs for a candidate was counted as started.
LEMMA AlwaysStartedInv == Spec => []StartedInv
<1>1. Init => StartedInv
  BY DEF Init, BoundaryInit, IdleLocals, StartedInv
<1>2. TypeInv /\ StartedInv /\ [Next]_vars => StartedInv'
  <2> SUFFICES ASSUME TypeInv, StartedInv, [Next]_vars PROVE StartedInv'
    OBVIOUS
  <2> USE DEF StartedInv, boundaryVars, localVars, historyVars
  <2>1. ASSUME NEW i \in Issuers, Issuer(i) PROVE StartedInv'
    BY <2>1 DEF Issuer
  <2>2. ASSUME NEW h \in Helpers, Helper(h) PROVE StartedInv'
    BY <2>2, HelperKeepsStarted
  <2>3. CASE ClockMoves
    BY <2>3 DEF ClockMoves
  <2>4. CASE PowerLoss
    BY <2>4 DEF PowerLoss, RebootBoundary
  <2>5. CASE UNCHANGED vars
    BY <2>5 DEF vars
  <2> QED  BY <2>1, <2>2, <2>3, <2>4, <2>5 DEF Next
<1> QED  BY <1>1, <1>2, AlwaysTypeInv, PTL DEF Spec

-----------------------------------------------------------------------------
(* The refinement.                                                          *)

\* The initial states are initial states of the promise.
LEMMA InitIsAbstract == Init => Authority!Init
<1> SUFFICES ASSUME Init PROVE Authority!Init
  OBVIOUS
<1>1. Approved = {}
  BY DEF Init, IssuerInit, Approved
<1>2. Spent = {}
  <2>1. {FALSE} # {TRUE}
    OBVIOUS
  <2> QED  BY <2>1 DEF Init, BoundaryInit, Spent
<1>3. Started = {} /\ current = BootDefault
  BY DEF Init, BoundaryInit, Started
<1> QED  BY <1>1, <1>2, <1>3 DEF Authority!Init

\* What is durable stays durable where only names that may be on disk, or the
\* receipts that are there, become certain.
LEMMA SpentGrows ==
  ASSUME TypeInv, LedgerInv,
         \/ receiptDisk' = receiptDisk
         \/ \E a \in Authorizations :
              receiptDisk' = [receiptDisk EXCEPT ![a] = @ \cup {TRUE}]
         \/ \E f \in [Authorizations -> BOOLEAN] :
              /\ \A a \in Authorizations : f[a] \in receiptDisk[a]
              /\ receiptDisk' = [a \in Authorizations |-> {f[a]}]
  PROVE  Spent \subseteq Spent' /\ Spent' \subseteq {Authorization(r) : r \in Request}
BY DEF Spent, Authorizations, TypeInv, TypeOK, BoundaryTypeOK

\* An issuer approves, or does what the promise does not see.
LEMMA IssuerStepIsAbstract ==
  ASSUME TypeInv, NEW i \in Issuers, Issuer(i)
  PROVE  [Authority!Next]_(Authority!vars)
<1>1. UNCHANGED <<current, receiptDisk, runs>>
  BY DEF Issuer, boundaryVars, ledgerVars, historyVars
<1>2. Spent' = Spent /\ Started' = Started
  BY <1>1 DEF Spent, Started
<1>3. CASE PolkitApproves(i)
  <2>1. asked[i] \in Request
    BY <1>3 DEF PolkitApproves, TypeInv, IssuerLocals
  <2>2. approvals' = approvals \cup {[request |-> asked[i], checkedAt |-> askedAt[i]]}
    BY <1>3 DEF PolkitApproves
  <2>3. Approved' = Approved \cup {asked[i]}
    <3>1. ASSUME NEW x \in Approved' PROVE x \in Approved \cup {asked[i]}
      BY <2>2, <3>1 DEF Approved
    <3>2. Approved \subseteq Approved'
      BY <2>2 DEF Approved
    <3>3. asked[i] \in Approved'
      <4> DEFINE g == [request |-> asked[i], checkedAt |-> askedAt[i]]
      <4>1. g \in approvals' /\ g.request = asked[i]
        BY <2>2
      <4> QED  BY <4>1 DEF Approved
    <3> QED  BY <3>1, <3>2, <3>3
  <2>4. Authority!Approve(asked[i])
    BY <1>1, <1>2, <2>3 DEF Authority!Approve
  <2> QED  BY <2>1, <2>4 DEF Authority!Next
<1>4. CASE ~PolkitApproves(i)
  <2>1. approvals' = approvals
    BY <1>4 DEF Issuer, IssuerStep, BeginCheck, BeginIssue, IssuerBegins, PolkitRefuses,
       CreatePermit, AlreadyIssued, WritePermit, FlushPermit, InspectPermit, SyncPermit,
       IssueGoesWrong, CleanUp, IssueFails, KillIssuer, IssuerGoes
  <2> QED  BY <1>1, <1>2, <2>1 DEF Authority!vars, Approved
<1> QED  BY <1>3, <1>4

\* The abstract action each step of a helper is.
LEMMA HelperStepIsAbstract ==
  ASSUME TypeInv, LedgerInv, ApprovalInv, StartedInv, NEW h \in Helpers, Helper(h)
  PROVE  [Authority!Next]_(Authority!vars)
<1> USE DEF TypeInv, TypeOK, BoundaryTypeOK
<1>1. Approved' = Approved
  BY DEF Helper, issuerVars, Approved
\* A new receipt, or a sync of the ledger.
<1>2. CASE CreateReceipt(h) \/ SyncReceipt(h)
  <2>1. Spent \subseteq Spent' /\ Spent' \subseteq {Authorization(r) : r \in Request}
    <3>1. CASE CreateReceipt(h)
      <4>1. AuthOf(h) \in Authorizations
        BY <3>1, AuthorizationIn DEF CreateReceipt, Goes, HelperLocals, AuthOf
      <4> QED  BY <3>1, <4>1, SpentGrows DEF CreateReceipt
    <3>2. CASE SyncReceipt(h)
      <4>1. receipt \in [Authorizations -> BOOLEAN] /\ \A a \in Authorizations : receipt[a] \in receiptDisk[a]
        BY DEF LedgerInv
      <4> QED  BY <3>2, <4>1, SpentGrows DEF SyncReceipt
    <3> QED  BY <1>2, <3>1, <3>2
  <2>2. current' = current /\ Started' = Started
    BY <1>2 DEF CreateReceipt, SyncReceipt, historyVars, Started
  <2>3. Authority!Spend
    BY <1>1, <2>1, <2>2 DEF Authority!Spend
  <2> QED  BY <2>3 DEF Authority!Next
<1>3. CASE StartCandidate(h)
  <2>1. /\ pc[h] = "spawn" /\ req[h] \in Request
        /\ runs' = [runs EXCEPT ![req[h]] = IF @ < 2 THEN @ + 1 ELSE 2]
        /\ current' = current /\ receiptDisk' = receiptDisk
    BY <1>3 DEF StartCandidate, Goes, HelperLocals, ledgerVars
  <2>2. Authorization(req[h]) \in Spent
    BY <2>1, AuthorizationIn DEF LedgerInv, AuthOf, Spent
  <2>3. \A s \in Started : Authorization(s) # Authorization(req[h])
    BY <2>1 DEF LedgerInv, Armed, AuthOf, Started
  <2>4. \E q \in Approved : PermitText(Prepared[q]) = PermitText(Prepared[req[h]])
    <3>1. WasApproved(req[h])
      BY <2>1 DEF ApprovalInv, Permitted
    <3> QED  BY <3>1 DEF WasApproved, Approved
  <2>5. Started' = Started \cup {req[h]}
    BY <2>1 DEF Started
  <2>6. Spent' = Spent
    BY <2>1 DEF Spent
  <2>7. Approved \subseteq Request
    BY DEF Approved, IssuerTypeOK, Grants
  <2>8. Authority!Start(req[h])
    BY <1>1, <2>1, <2>2, <2>3, <2>4, <2>5, <2>6, <2>7 DEF Authority!Start, Started
  <2> QED  BY <2>1, <2>8 DEF Authority!Next
<1>4. ASSUME UNCHANGED <<receiptDisk, runs>> PROVE Spent' = Spent /\ Started' = Started
  BY <1>4 DEF Spent, Started
\* Either the candidate takes effect, or nothing happens.
<1>5. CASE FinishCandidate(h) \/ (pc[h] = "orphan" /\ FinishOrphan(h))
  <2>1. /\ pc[h] \in {"running", "orphan"} /\ UNCHANGED <<receiptDisk, runs>>
        /\ current' \in {current, Candidate(h)}
    BY <1>5 DEF FinishCandidate, FinishOrphan, Goes, Effects, ledgerVars, historyVars
  <2>2. req[h] \in Request /\ req[h] \in Started
    BY <2>1 DEF HelperLocals, StartedInv, Started
  <2>3. CASE current' = current
    BY <1>1, <1>4, <2>1, <2>3 DEF Authority!vars
  <2>4. CASE current' = Candidate(h)
    <3>1. Authority!TakeEffect(req[h])
      BY <1>1, <1>4, <2>1, <2>2, <2>4 DEF Authority!TakeEffect, Candidate, Plan
    <3> QED  BY <2>2, <3>1 DEF Authority!Next
  <2> QED  BY <2>1, <2>3, <2>4
\* Either the baseline, which is the boot default, is back, or nothing happens.
<1>6. CASE FinishRestore(h) \/ RestoreExitsBadly(h) \/ (pc[h] = "orphanRestore" /\ FinishOrphan(h))
  <2>1. /\ pc[h] \in {"restoring", "orphanRestore"} /\ UNCHANGED <<receiptDisk, runs>>
        /\ current' \in {current, before[h]}
    BY <1>6 DEF FinishRestore, RestoreExitsBadly, FinishOrphan, Goes, Effects,
       ledgerVars, historyVars
  <2>2. before[h] = BootDefault
    BY <2>1 DEF HelperLocals
  <2>3. CASE current' = current
    BY <1>1, <1>4, <2>1, <2>3 DEF Authority!vars
  <2>4. CASE current' = BootDefault
    <3>1. Spent' \subseteq {Authorization(r) : r \in Request}
      BY <1>4, <2>1 DEF Spent, Authorizations
    <3>2. Authority!Restore
      BY <1>1, <1>4, <2>1, <2>4, <3>1 DEF Authority!Restore
    <3> QED  BY <3>2 DEF Authority!Next
  <2> QED  BY <2>1, <2>2, <2>3, <2>4
\* Everything else is invisible.
<1>7. CASE UNCHANGED <<receiptDisk, runs, current>>
  BY <1>1, <1>4, <1>7 DEF Authority!vars
<1>8. \/ CreateReceipt(h) \/ SyncReceipt(h) \/ StartCandidate(h)
      \/ FinishCandidate(h) \/ FinishRestore(h) \/ RestoreExitsBadly(h) \/ FinishOrphan(h)
      \/ UNCHANGED <<receiptDisk, runs, current>>
  <2> USE DEF ledgerVars, historyVars
  <2>1. ASSUME NEW r \in Request, Begin(h, r) PROVE UNCHANGED <<receiptDisk, runs, current>>
    BY <2>1 DEF Begin
  <2>2. (ReadPermit(h) \/ PermitRefused(h) \/ RemovePermit(h) \/ PermitGone(h) \/ SyncPermits(h)
           \/ InspectHost(h) \/ NotBootDefault(h) \/ AlreadyConsumed(h)) =>
         UNCHANGED <<receiptDisk, runs, current>>
    BY DEF ReadPermit, PermitRefused, RemovePermit, PermitGone, SyncPermits, InspectHost,
       NotBootDefault, AlreadyConsumed
  <2>3. (ReportOk(h) \/ DecideToRestore(h) \/ StartRestore(h) \/ NotRestored(h) \/ ReportUndone(h)
           \/ RestoredAfterFailure(h) \/ ReportRolledBack(h)) =>
         UNCHANGED <<receiptDisk, runs, current>>
    BY DEF ReportOk, DecideToRestore, StartRestore, NotRestored, ReportUndone,
       RestoredAfterFailure, ReportRolledBack
  <2>4. (CallFails(h) \/ KillHelper(h) \/ Abandon(h)) => UNCHANGED <<receiptDisk, runs, current>>
    BY DEF CallFails, KillHelper, Abandon
  <2> QED  BY <2>1, <2>2, <2>3, <2>4 DEF Helper, HelperStep, HelperProgress
<1>9. FinishOrphan(h) => pc[h] \in {"orphan", "orphanRestore"}
  BY DEF FinishOrphan
<1> QED  BY <1>2, <1>3, <1>5, <1>6, <1>7, <1>8, <1>9

\* A power loss restores the boot default and unspends nothing.
LEMMA PowerLossIsAbstract ==
  ASSUME TypeInv, LedgerInv, PowerLoss
  PROVE  Authority!Next
<1>1. /\ current' = BootDefault /\ UNCHANGED <<approvals, runs>>
      /\ receipt' \in [Authorizations -> BOOLEAN]
      /\ \A a \in Authorizations : receipt'[a] \in receiptDisk[a]
      /\ receiptDisk' = [a \in Authorizations |-> {receipt'[a]}]
  BY DEF PowerLoss, RebootIssuers, RebootBoundary, historyVars
<1>2. Spent \subseteq Spent' /\ Spent' \subseteq {Authorization(r) : r \in Request}
  BY <1>1, SpentGrows
<1>3. Approved' = Approved /\ Started' = Started
  BY <1>1 DEF Approved, Started
<1>4. Authority!Restore
  BY <1>1, <1>2, <1>3 DEF Authority!Restore
<1> QED  BY <1>4 DEF Authority!Next

\* The privileged side as a whole keeps the abstract promise: it spends an
\* authorization for good before it starts anything under it, starts only what
\* was approved and once, and nothing else changes the live system.
THEOREM Refinement == Spec => ImplementsAuthority
<1>1. TypeInv /\ LedgerInv /\ ApprovalInv /\ StartedInv /\ [Next]_vars
        => [Authority!Next]_(Authority!vars)
  <2> SUFFICES ASSUME TypeInv, LedgerInv, ApprovalInv, StartedInv, [Next]_vars
               PROVE  [Authority!Next]_(Authority!vars)
    OBVIOUS
  <2> USE DEF Authority!vars, Approved, Spent, Started, issuerVars, boundaryVars,
        localVars, ledgerVars, historyVars
  <2>1. ASSUME NEW i \in Issuers, Issuer(i) PROVE [Authority!Next]_(Authority!vars)
    BY <2>1, IssuerStepIsAbstract
  <2>2. ASSUME NEW h \in Helpers, Helper(h) PROVE [Authority!Next]_(Authority!vars)
    BY <2>2, HelperStepIsAbstract
  <2>3. CASE ClockMoves
    BY <2>3 DEF ClockMoves
  <2>4. CASE PowerLoss
    BY <2>4, PowerLossIsAbstract
  <2>5. CASE UNCHANGED vars
    BY <2>5 DEF vars
  <2> QED  BY <2>1, <2>2, <2>3, <2>4, <2>5 DEF Next
<1> QED  BY <1>1, InitIsAbstract, AlwaysTypeInv, AlwaysLedgerInv, AlwaysApprovalInv,
            AlwaysStartedInv, PTL DEF Spec, ImplementsAuthority, Authority!Spec
=============================================================================
