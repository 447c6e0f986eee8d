----------------------- MODULE ActivationSystemProofs -----------------------
(***************************************************************************)
(* Proofs about ActivationSystem, for any number of issuers and helpers,   *)
(* any requests, any ages and any bounds.                                  *)
(***************************************************************************)
EXTENDS ActivationInvariants, TLAPS

-----------------------------------------------------------------------------
(* Types.                                                                   *)

\* A request's authorization is one of those the directory and the ledger know.
LEMMA AuthorizationIn ==
  ASSUME NEW r \in Request
  PROVE  Authorization(r) \in Authorizations
BY DEF Authorizations

\* Every step of a permit issuer keeps the type invariant.
LEMMA IssuerKeepsTypes ==
  ASSUME TypeInv, NEW i \in Issuers, Issuer(i)
  PROVE  TypeInv'
<1> USE DEF TypeInv, TypeOK, DirTypeOK, IssuerTypeOK
<1>1. BoundaryTypeOK' /\ reboots' \in Nat /\ HelperLocals'
  BY DEF Issuer, BoundaryTypeOK, HelperLocals, boundaryVars, localVars, ledgerVars, historyVars
<1>2. DirTypeOK' /\ IssuerTypeOK' /\ IssuerLocals'
  <2> USE DEF IssuerLocals, IssuerSteps, Grants, dirVars, NoFile
  <2>1. ASSUME NEW r \in Request, BeginCheck(i, r)
        PROVE  DirTypeOK' /\ IssuerTypeOK' /\ IssuerLocals'
    BY <2>1 DEF BeginCheck, IssuerBegins
  <2>2. ASSUME PolkitApproves(i)
        PROVE  DirTypeOK' /\ IssuerTypeOK' /\ IssuerLocals'
    BY <2>2 DEF PolkitApproves, IssuerReturns
  <2>3. ASSUME PolkitRefuses(i)
        PROVE  DirTypeOK' /\ IssuerTypeOK' /\ IssuerLocals'
    BY <2>3 DEF PolkitRefuses, IssuerReturns
  <2>4. ASSUME NEW r \in Request, BeginIssue(i, r)
        PROVE  DirTypeOK' /\ IssuerTypeOK' /\ IssuerLocals'
    BY <2>4 DEF BeginIssue, IssuerBegins
  <2>5. ASSUME CreatePermit(i)
        PROVE  DirTypeOK' /\ IssuerTypeOK' /\ IssuerLocals'
    BY <2>5, AuthorizationIn DEF CreatePermit, IssuerGoes, CreateNew
  <2>6. ASSUME AlreadyIssued(i)
        PROVE  DirTypeOK' /\ IssuerTypeOK' /\ IssuerLocals'
    BY <2>6 DEF AlreadyIssued, IssuerReturns
  <2>7. ASSUME WritePermit(i)
        PROVE  DirTypeOK' /\ IssuerTypeOK' /\ IssuerLocals'
    BY <2>7 DEF WritePermit, IssuerGoes, WriteText
  <2>8. ASSUME FlushPermit(i)
        PROVE  DirTypeOK' /\ IssuerTypeOK' /\ IssuerLocals'
    BY <2>8 DEF FlushPermit, IssuerGoes, FlushFile
  <2>9. ASSUME InspectPermit(i)
        PROVE  DirTypeOK' /\ IssuerTypeOK' /\ IssuerLocals'
    BY <2>9 DEF InspectPermit, IssuerGoes
  <2>10. ASSUME SyncPermit(i)
         PROVE  DirTypeOK' /\ IssuerTypeOK' /\ IssuerLocals'
    BY <2>10 DEF SyncPermit, IssuerReturns, SyncDirectory
  <2>11. ASSUME IssueGoesWrong(i)
         PROVE  DirTypeOK' /\ IssuerTypeOK' /\ IssuerLocals'
    BY <2>11 DEF IssueGoesWrong, IssuerGoes
  <2>12. ASSUME CleanUp(i)
         PROVE  DirTypeOK' /\ IssuerTypeOK' /\ IssuerLocals'
    BY <2>12, AuthorizationIn DEF CleanUp, IssuerReturns, Unlink
  <2>13. ASSUME IssueFails(i)
         PROVE  DirTypeOK' /\ IssuerTypeOK' /\ IssuerLocals'
    BY <2>13 DEF IssueFails, IssuerReturns
  <2>14. ASSUME KillIssuer(i)
         PROVE  DirTypeOK' /\ IssuerTypeOK' /\ IssuerLocals'
    BY <2>14 DEF KillIssuer, IssuerReturns
  <2> QED
    BY <2>1, <2>2, <2>3, <2>4, <2>5, <2>6, <2>7, <2>8, <2>9, <2>10, <2>11,
       <2>12, <2>13, <2>14 DEF Issuer, IssuerStep
<1> QED  BY <1>1, <1>2

\* Every step of a helper keeps the type invariant.
LEMMA HelperKeepsTypes ==
  ASSUME TypeInv, NEW h \in Helpers, Helper(h)
  PROVE  TypeInv'
<1> USE DEF TypeInv, TypeOK, DirTypeOK, BoundaryTypeOK
<1>1. IssuerTypeOK' /\ reboots' \in Nat /\ IssuerLocals'
  BY DEF Helper, IssuerTypeOK, IssuerLocals, issuerVars
<1>2. DirTypeOK' /\ BoundaryTypeOK' /\ HelperLocals'
  <2> USE BoundaryAssumption DEF HelperLocals, HelperSteps, Results,
        dirVars, ledgerVars, historyVars, NoFile
  <2>1. ASSUME NEW r \in Request, Begin(h, r)
        PROVE  DirTypeOK' /\ BoundaryTypeOK' /\ HelperLocals'
    BY <2>1 DEF Begin, ValidatePrepared
  <2>2. ASSUME ReadPermit(h)
        PROVE  DirTypeOK' /\ BoundaryTypeOK' /\ HelperLocals'
    BY <2>2 DEF ReadPermit, Goes
  <2>3. ASSUME PermitRefused(h)
        PROVE  DirTypeOK' /\ BoundaryTypeOK' /\ HelperLocals'
    BY <2>3 DEF PermitRefused, Returns
  <2>4. ASSUME RemovePermit(h)
        PROVE  DirTypeOK' /\ BoundaryTypeOK' /\ HelperLocals'
    BY <2>4, AuthorizationIn DEF RemovePermit, Goes, Unlink, AuthOf
  <2>5. ASSUME PermitGone(h)
        PROVE  DirTypeOK' /\ BoundaryTypeOK' /\ HelperLocals'
    BY <2>5 DEF PermitGone, Returns
  <2>6. ASSUME SyncPermits(h)
        PROVE  DirTypeOK' /\ BoundaryTypeOK' /\ HelperLocals'
    BY <2>6 DEF SyncPermits, Goes, SyncDirectory
  <2>7. ASSUME InspectHost(h)
        PROVE  DirTypeOK' /\ BoundaryTypeOK' /\ HelperLocals'
    BY <2>7 DEF InspectHost, Goes
  <2>8. ASSUME NotBootDefault(h)
        PROVE  DirTypeOK' /\ BoundaryTypeOK' /\ HelperLocals'
    BY <2>8 DEF NotBootDefault, Returns
  <2>9. ASSUME CreateReceipt(h)
        PROVE  DirTypeOK' /\ BoundaryTypeOK' /\ HelperLocals'
    BY <2>9, AuthorizationIn DEF CreateReceipt, Goes, AuthOf
  <2>10. ASSUME AlreadyConsumed(h)
         PROVE  DirTypeOK' /\ BoundaryTypeOK' /\ HelperLocals'
    BY <2>10 DEF AlreadyConsumed, Returns
  <2>11. ASSUME SyncReceipt(h)
         PROVE  DirTypeOK' /\ BoundaryTypeOK' /\ HelperLocals'
    BY <2>11 DEF SyncReceipt, Goes
  <2>12. ASSUME StartCandidate(h)
         PROVE  DirTypeOK' /\ BoundaryTypeOK' /\ HelperLocals'
    BY <2>12 DEF StartCandidate, Goes
  <2>13. ASSUME FinishCandidate(h)
         PROVE  DirTypeOK' /\ BoundaryTypeOK' /\ HelperLocals'
    BY <2>13 DEF FinishCandidate, Goes, Effects, Candidate, Plan, CanonicalPlan
  <2>14. ASSUME ReportOk(h)
         PROVE  DirTypeOK' /\ BoundaryTypeOK' /\ HelperLocals'
    BY <2>14 DEF ReportOk, Returns
  <2>15. ASSUME DecideToRestore(h)
         PROVE  DirTypeOK' /\ BoundaryTypeOK' /\ HelperLocals'
    BY <2>15 DEF DecideToRestore, Goes
  <2>16. ASSUME StartRestore(h)
         PROVE  DirTypeOK' /\ BoundaryTypeOK' /\ HelperLocals'
    BY <2>16 DEF StartRestore, Goes
  <2>17. ASSUME FinishRestore(h)
         PROVE  DirTypeOK' /\ BoundaryTypeOK' /\ HelperLocals'
    BY <2>17 DEF FinishRestore, Goes, Effects
  <2>18. ASSUME RestoreExitsBadly(h)
         PROVE  DirTypeOK' /\ BoundaryTypeOK' /\ HelperLocals'
    BY <2>18 DEF RestoreExitsBadly, Returns, Effects
  <2>19. ASSUME NotRestored(h)
         PROVE  DirTypeOK' /\ BoundaryTypeOK' /\ HelperLocals'
    BY <2>19 DEF NotRestored, Returns
  <2>20. ASSUME ReportUndone(h)
         PROVE  DirTypeOK' /\ BoundaryTypeOK' /\ HelperLocals'
    BY <2>20 DEF ReportUndone, Returns
  <2>21. ASSUME RestoredAfterFailure(h)
         PROVE  DirTypeOK' /\ BoundaryTypeOK' /\ HelperLocals'
    BY <2>21 DEF RestoredAfterFailure, Goes
  <2>22. ASSUME ReportRolledBack(h)
         PROVE  DirTypeOK' /\ BoundaryTypeOK' /\ HelperLocals'
    BY <2>22 DEF ReportRolledBack, Returns
  <2>23. ASSUME CallFails(h)
         PROVE  DirTypeOK' /\ BoundaryTypeOK' /\ HelperLocals'
    BY <2>23 DEF CallFails, InsideHelper, Returns
  <2>24. ASSUME KillHelper(h)
         PROVE  DirTypeOK' /\ BoundaryTypeOK' /\ HelperLocals'
    BY <2>24 DEF KillHelper, InsideHelper, Returns
  <2>25. ASSUME Abandon(h)
         PROVE  DirTypeOK' /\ BoundaryTypeOK' /\ HelperLocals'
    BY <2>25 DEF Abandon, Goes
  <2>26. ASSUME FinishOrphan(h)
         PROVE  DirTypeOK' /\ BoundaryTypeOK' /\ HelperLocals'
    BY <2>26 DEF FinishOrphan, Returns, Effects, Candidate, Plan, CanonicalPlan
  <2> QED
    BY <2>1, <2>2, <2>3, <2>4, <2>5, <2>6, <2>7, <2>8, <2>9, <2>10, <2>11,
       <2>12, <2>13, <2>14, <2>15, <2>16, <2>17, <2>18, <2>19, <2>20, <2>21,
       <2>22, <2>23, <2>24, <2>25, <2>26 DEF Helper, HelperStep,
       HelperProgress
<1> QED  BY <1>1, <1>2

\* A power loss keeps it: each name and each receipt is one of those that may
\* be on disk, and those are of the right type.
LEMMA PowerLossKeepsTypes ==
  ASSUME TypeInv, PowerLoss
  PROVE  TypeInv'
<1> USE DEF TypeInv, TypeOK
<1>1. DirTypeOK'
  BY DEF DirTypeOK, PowerLoss, LoseUnsynced
<1>2. IssuerTypeOK' /\ IssuerLocals'
  BY DEF PowerLoss, RebootIssuers, IssuerTypeOK, IssuerLocals, IssuerSteps, Files, NoFile
<1>3. BoundaryTypeOK' /\ HelperLocals'
  BY BoundaryAssumption DEF PowerLoss, RebootBoundary, BoundaryTypeOK, HelperLocals,
     HelperSteps, Results, historyVars
<1>4. reboots' \in Nat
  BY DEF PowerLoss
<1> QED  BY <1>1, <1>2, <1>3, <1>4

\* The host starts with nobody at work.
LEMMA InitHasTypes == Init => TypeInv
<1> SUFFICES ASSUME Init PROVE TypeInv
  OBVIOUS
<1> USE SystemAssumption DEF Init
<1>1. DirTypeOK
  BY DEF DirInit, DirTypeOK
<1>2. IssuerTypeOK /\ IssuerLocals
  BY DEF IssuerInit, IssuerTypeOK, IssuerLocals, IssuerSteps
<1>3. BoundaryTypeOK /\ HelperLocals
  BY BoundaryAssumption DEF BoundaryInit, IdleLocals, BoundaryTypeOK, HelperLocals,
     HelperSteps, Results
<1> QED  BY <1>1, <1>2, <1>3 DEF TypeInv, TypeOK

\* Every step of issuers, helpers, clock and power keeps the types.
LEMMA NextKeepsTypes == TypeInv /\ [Next]_vars => TypeInv'
<1> SUFFICES ASSUME TypeInv, [Next]_vars PROVE TypeInv'
  OBVIOUS
<1>1. ASSUME NEW i \in Issuers, Issuer(i) PROVE TypeInv'
  BY <1>1, IssuerKeepsTypes
<1>2. ASSUME NEW h \in Helpers, Helper(h) PROVE TypeInv'
  BY <1>2, HelperKeepsTypes
<1>3. CASE ClockMoves
  BY <1>3, SystemAssumption DEF ClockMoves, TypeInv, TypeOK, DirTypeOK, IssuerTypeOK,
     BoundaryTypeOK, HelperLocals, IssuerLocals, dirVars, issuerVars, boundaryVars,
     localVars, ledgerVars, historyVars
<1>4. CASE PowerLoss
  BY <1>4, PowerLossKeepsTypes
<1>5. CASE UNCHANGED vars
  BY <1>5 DEF vars, TypeInv, TypeOK, DirTypeOK, IssuerTypeOK,
     BoundaryTypeOK, HelperLocals, IssuerLocals, dirVars, issuerVars, boundaryVars,
     localVars, ledgerVars, historyVars
<1> QED  BY <1>1, <1>2, <1>3, <1>4, <1>5 DEF Next

\* What each process knows of its request holds throughout.
LEMMA AlwaysTypeInv == Spec => []TypeInv
BY InitHasTypes, NextKeepsTypes, PTL DEF Spec

\* Every variable of the privileged side keeps its type; with it, only
\* closures of the store ever become live.
THEOREM TypeCorrect == Spec => []TypeOK
<1>1. TypeInv => TypeOK
  BY DEF TypeInv
<1> QED  BY <1>1, AlwaysTypeInv, PTL

-----------------------------------------------------------------------------
(* The execution ledger.                                                    *)

\* A step that leaves the ledger and the runs alone, and after which no helper
\* is newly armed, keeps the ledger invariant.
LEMMA QuietForLedger ==
  ASSUME LedgerInv,
         UNCHANGED <<receipt, receiptDisk, runs>>,
         \A h \in Helpers : pc'[h] \in Armed => pc'[h] = pc[h] /\ req'[h] = req[h]
  PROVE  LedgerInv'
<1>1. \A h \in Helpers : pc'[h] \in Armed =>
        pc'[h] = pc[h] /\ AuthOf(h)' = AuthOf(h)
  BY DEF AuthOf
<1>2. ReceiptBeforeRun' /\ AtMostOneRun'
  BY DEF LedgerInv, ReceiptBeforeRun, AtMostOneRun
<1>3. \A h \in Helpers : pc'[h] \in Armed =>
        /\ receipt'[AuthOf(h)']
        /\ \A r \in Request : runs'[r] > 0 => Authorization(r) # AuthOf(h)'
  <2> SUFFICES ASSUME NEW h \in Helpers, pc'[h] \in Armed
               PROVE  /\ receipt[AuthOf(h)]
                      /\ \A r \in Request : runs[r] > 0 => Authorization(r) # AuthOf(h)
    BY <1>1
  <2>1. pc[h] \in Armed
    BY <1>1
  <2> QED  BY <2>1 DEF LedgerInv
<1>4. \A h \in Helpers : pc'[h] = "spawn" => receiptDisk'[AuthOf(h)'] = {TRUE}
  <2> SUFFICES ASSUME NEW h \in Helpers, pc'[h] = "spawn"
               PROVE  receiptDisk[AuthOf(h)] = {TRUE}
    BY <1>1 DEF Armed
  <2>1. pc[h] = "spawn"
    BY <1>1 DEF Armed
  <2> QED  BY <2>1 DEF LedgerInv
<1>5. \A h, k \in Helpers :
        (h # k /\ pc'[h] \in Armed /\ pc'[k] \in Armed) => AuthOf(h)' # AuthOf(k)'
  BY <1>1 DEF LedgerInv
<1> QED  BY <1>2, <1>3, <1>4, <1>5 DEF LedgerInv

\* Only CreateReceipt and SyncReceipt write the ledger, only StartCandidate relies on it.
LEMMA HelperKeepsLedger ==
  ASSUME TypeInv, LedgerInv, NEW h \in Helpers, Helper(h)
  PROVE  LedgerInv'
<1> USE DEF TypeInv, TypeOK, BoundaryTypeOK
\* The receipt was not there, so nobody is armed with it and nothing ran.
<1>1. ASSUME CreateReceipt(h) PROVE LedgerInv'
  <2>1. AuthOf(h) \in Authorizations
    BY <1>1, AuthorizationIn DEF CreateReceipt, Goes, HelperLocals, AuthOf
  <2>2. receipt[AuthOf(h)] = FALSE
    BY <1>1, <2>1 DEF CreateReceipt
  <2>3. /\ pc' = [pc EXCEPT ![h] = "syncReceipt"] /\ req' = req /\ runs' = runs
        /\ receipt' = [receipt EXCEPT ![AuthOf(h)] = TRUE]
        /\ receiptDisk' = [receiptDisk EXCEPT ![AuthOf(h)] = @ \cup {TRUE}]
    BY <1>1 DEF CreateReceipt, Goes, historyVars
  <2>4. \A r \in Request : runs[r] > 0 => Authorization(r) # AuthOf(h)
    <3> SUFFICES ASSUME NEW r \in Request, runs[r] > 0
                 PROVE  receipt[Authorization(r)] = TRUE
      BY <2>2
    <3>1. receiptDisk[Authorization(r)] = {TRUE}
      BY DEF LedgerInv, ReceiptBeforeRun
    <3>2. receipt[Authorization(r)] \in receiptDisk[Authorization(r)]
      BY AuthorizationIn DEF LedgerInv
    <3> QED  BY <3>1, <3>2
  <2>5. \A k \in Helpers : pc[k] \in Armed => AuthOf(k) # AuthOf(h)
    BY <2>2 DEF LedgerInv
  <2>6. \A a \in Authorizations : receipt'[a] \in receiptDisk'[a]
    BY <2>1, <2>3 DEF LedgerInv
  <2>7. \A k \in Helpers : pc'[k] \in Armed =>
          /\ receipt'[AuthOf(k)']
          /\ \A r \in Request : runs'[r] > 0 => Authorization(r) # AuthOf(k)'
    <3> SUFFICES ASSUME NEW k \in Helpers, pc'[k] \in Armed
                 PROVE  /\ receipt'[AuthOf(k)]
                        /\ \A r \in Request : runs[r] > 0 => Authorization(r) # AuthOf(k)
      BY <2>3 DEF AuthOf
    <3>1. CASE k = h
      BY <3>1, <2>1, <2>3, <2>4
    <3>2. CASE k # h
      <4>1. pc[k] \in Armed
        BY <3>2, <2>3
      <4>2. AuthOf(k) \in Authorizations
        BY <4>1, AuthorizationIn DEF Armed, HelperLocals, AuthOf
      <4> QED  BY <4>1, <4>2, <2>1, <2>3 DEF LedgerInv
    <3> QED  BY <3>1, <3>2
  <2>8. \A k \in Helpers : pc'[k] = "spawn" => receiptDisk'[AuthOf(k)'] = {TRUE}
    <3> SUFFICES ASSUME NEW k \in Helpers, pc'[k] = "spawn"
                 PROVE  receiptDisk'[AuthOf(k)] = {TRUE}
      BY <2>3 DEF AuthOf
    <3>1. k # h /\ pc[k] = "spawn"
      BY <2>3
    <3>2. AuthOf(k) \in Authorizations
      BY <3>1, AuthorizationIn DEF HelperLocals, AuthOf
    <3> QED  BY <3>1, <3>2, <2>1, <2>3, <2>5 DEF LedgerInv, Armed
  <2>9. \A k, l \in Helpers :
          (k # l /\ pc'[k] \in Armed /\ pc'[l] \in Armed) => AuthOf(k)' # AuthOf(l)'
    BY <2>3, <2>5 DEF LedgerInv, AuthOf
  <2>10. ReceiptBeforeRun'
    <3> SUFFICES ASSUME NEW r \in Request, runs[r] > 0
                 PROVE  receiptDisk'[Authorization(r)] = {TRUE}
      BY <2>3 DEF ReceiptBeforeRun
    <3> QED  BY <2>1, <2>3, <2>4, AuthorizationIn DEF LedgerInv, ReceiptBeforeRun
  <2>11. AtMostOneRun'
    BY <2>3 DEF LedgerInv, AtMostOneRun
  <2> QED  BY <2>6, <2>7, <2>8, <2>9, <2>10, <2>11 DEF LedgerInv
\* The sync makes every receipt that is there durable.
<1>2. ASSUME SyncReceipt(h) PROVE LedgerInv'
  <2>1. /\ pc[h] = "syncReceipt" /\ pc' = [pc EXCEPT ![h] = "spawn"]
        /\ req' = req /\ runs' = runs /\ receipt' = receipt
        /\ receiptDisk' = [a \in Authorizations |-> {receipt[a]}]
    BY <1>2 DEF SyncReceipt, Goes, historyVars
  <2>2. \A k \in Helpers : pc'[k] \in Armed =>
          pc[k] \in Armed /\ AuthOf(k) \in Authorizations /\ receipt[AuthOf(k)] = TRUE
    <3> SUFFICES ASSUME NEW k \in Helpers, pc'[k] \in Armed
                 PROVE  pc[k] \in Armed /\ AuthOf(k) \in Authorizations /\ receipt[AuthOf(k)] = TRUE
      OBVIOUS
    <3>1. pc[k] \in Armed
      BY <2>1 DEF Armed
    <3>2. AuthOf(k) \in Authorizations
      BY <3>1, AuthorizationIn DEF Armed, HelperLocals, AuthOf
    <3> QED  BY <3>1, <3>2 DEF LedgerInv
  <2>3. \A r \in Request : runs[r] > 0 => receipt[Authorization(r)] = TRUE
    BY AuthorizationIn DEF LedgerInv, ReceiptBeforeRun
  <2>4. ReceiptBeforeRun'
    BY <2>1, <2>3, AuthorizationIn DEF ReceiptBeforeRun
  <2>5. AtMostOneRun'
    BY <2>1 DEF LedgerInv, AtMostOneRun
  <2> QED  BY <2>1, <2>2, <2>4, <2>5 DEF LedgerInv, AuthOf, Armed
\* The only winner starts the command and is not armed any more.
<1>3. ASSUME StartCandidate(h) PROVE LedgerInv'
  <2>1. /\ pc[h] = "spawn" /\ pc' = [pc EXCEPT ![h] = "running"]
        /\ req' = req /\ receipt' = receipt /\ receiptDisk' = receiptDisk
        /\ runs' = [runs EXCEPT ![req[h]] = IF @ < 2 THEN @ + 1 ELSE 2]
    BY <1>3 DEF StartCandidate, Goes, ledgerVars
  <2>2. req[h] \in Request
    BY <2>1 DEF HelperLocals
  <2>3. \A r \in Request : runs[r] > 0 => Authorization(r) # AuthOf(h)
    BY <2>1 DEF LedgerInv, Armed
  <2>4. runs[req[h]] = 0
    BY <2>2, <2>3 DEF AuthOf
  <2>5. runs'[req[h]] = 1 /\ \A r \in Request : r # req[h] => runs'[r] = runs[r]
    BY <2>1, <2>2, <2>4
  <2>6. AtMostOneRun'
    BY <2>2, <2>3, <2>5 DEF LedgerInv, AtMostOneRun, AuthOf
  <2>7. ReceiptBeforeRun'
    <3> SUFFICES ASSUME NEW r \in Request, runs'[r] > 0
                 PROVE  receiptDisk[Authorization(r)] = {TRUE}
      BY <2>1 DEF ReceiptBeforeRun
    <3>1. CASE r = req[h]
      BY <3>1, <2>1 DEF LedgerInv, AuthOf
    <3>2. CASE r # req[h]
      BY <3>2, <2>5 DEF LedgerInv, ReceiptBeforeRun
    <3> QED  BY <3>1, <3>2
  <2>8. \A k \in Helpers : pc'[k] \in Armed => k # h /\ pc[k] = pc'[k]
    BY <2>1 DEF Armed
  <2>9. \A k \in Helpers : pc'[k] \in Armed => AuthOf(k) # AuthOf(h)
    BY <2>1, <2>8 DEF LedgerInv, Armed
  <2>10. \A k \in Helpers : pc'[k] \in Armed =>
           \A r \in Request : runs'[r] > 0 => Authorization(r) # AuthOf(k)
    BY <2>5, <2>8, <2>9 DEF LedgerInv, AuthOf
  <2> QED  BY <2>1, <2>6, <2>7, <2>8, <2>10 DEF LedgerInv, AuthOf, Armed
\* Every other step is quiet.
<1>4. ASSUME Helper(h), ~CreateReceipt(h), ~SyncReceipt(h), ~StartCandidate(h)
      PROVE  LedgerInv'
  <2> DEFINE Quiet ==
        /\ UNCHANGED <<receipt, receiptDisk, runs>>
        /\ \A k \in Helpers : pc'[k] \in Armed => pc'[k] = pc[k] /\ req'[k] = req[k]
  <2> USE DEF ledgerVars, historyVars, Armed
  <2>1. ASSUME NEW r \in Request, Begin(h, r) PROVE Quiet
    BY <2>1 DEF Begin
  <2>2. (ReadPermit(h) \/ RemovePermit(h) \/ SyncPermits(h) \/ InspectHost(h)) => Quiet
    BY DEF ReadPermit, RemovePermit, SyncPermits, InspectHost, Goes
  <2>3. (PermitRefused(h) \/ PermitGone(h) \/ NotBootDefault(h) \/ AlreadyConsumed(h)) => Quiet
    BY DEF PermitRefused, PermitGone, NotBootDefault, AlreadyConsumed, Returns
  <2>4. (FinishCandidate(h) \/ DecideToRestore(h) \/ StartRestore(h) \/ FinishRestore(h)
           \/ RestoredAfterFailure(h) \/ Abandon(h)) => Quiet
    BY DEF FinishCandidate, DecideToRestore, StartRestore, FinishRestore,
       RestoredAfterFailure, Abandon, Goes
  <2>5. (ReportOk(h) \/ RestoreExitsBadly(h) \/ NotRestored(h) \/ ReportUndone(h)
           \/ ReportRolledBack(h)) => Quiet
    BY DEF ReportOk, RestoreExitsBadly, NotRestored, ReportUndone, ReportRolledBack, Returns
  <2>6. (CallFails(h) \/ KillHelper(h) \/ FinishOrphan(h)) => Quiet
    BY DEF CallFails, KillHelper, FinishOrphan, Returns
  <2>7. Quiet
    BY <1>4, <2>1, <2>2, <2>3, <2>4, <2>5, <2>6 DEF Helper, HelperStep, HelperProgress
  <2> QED  BY <2>7, QuietForLedger
<1> QED  BY <1>1, <1>2, <1>3, <1>4

\* A power loss leaves nobody armed, and every durable receipt in place.
LEMMA PowerLossKeepsLedger ==
  ASSUME TypeInv, LedgerInv, PowerLoss
  PROVE  LedgerInv'
<1>1. /\ pc' = [h \in Helpers |-> "idle"] /\ runs' = runs
      /\ \A a \in Authorizations : receipt'[a] \in receiptDisk[a]
      /\ receiptDisk' = [a \in Authorizations |-> {receipt'[a]}]
  BY DEF PowerLoss, RebootBoundary, historyVars
<1>2. ReceiptBeforeRun'
  BY <1>1, AuthorizationIn DEF LedgerInv, ReceiptBeforeRun
<1>3. AtMostOneRun'
  BY <1>1 DEF LedgerInv, AtMostOneRun
<1> QED  BY <1>1, <1>2, <1>3 DEF LedgerInv, Armed

\* The ledger starts empty.
LEMMA InitHasLedger == Init => LedgerInv
BY DEF Init, BoundaryInit, IdleLocals, LedgerInv, Armed, ReceiptBeforeRun, AtMostOneRun

\* Every step keeps what winners rely on (consume_once, run).
LEMMA NextKeepsLedger == TypeInv /\ LedgerInv /\ [Next]_vars => LedgerInv'
<1> SUFFICES ASSUME TypeInv, LedgerInv, [Next]_vars PROVE LedgerInv'
  OBVIOUS
<1> USE DEF boundaryVars, localVars, ledgerVars, historyVars
<1>1. ASSUME NEW i \in Issuers, Issuer(i) PROVE LedgerInv'
  BY <1>1, QuietForLedger DEF Issuer
<1>2. ASSUME NEW h \in Helpers, Helper(h) PROVE LedgerInv'
  BY <1>2, HelperKeepsLedger
<1>3. CASE ClockMoves
  BY <1>3, QuietForLedger DEF ClockMoves
<1>4. CASE PowerLoss
  BY <1>4, PowerLossKeepsLedger
<1>5. CASE UNCHANGED vars
  BY <1>5, QuietForLedger DEF vars
<1> QED  BY <1>1, <1>2, <1>3, <1>4, <1>5 DEF Next

\* Of each authorization there is one winner of the ledger at most, whose receipt
\* is there before it goes on and durable before it starts its command.
THEOREM AlwaysLedgerInv == Spec => []LedgerInv
BY AlwaysTypeInv, InitHasLedger, NextKeepsLedger, PTL DEF Spec

\* However often an authorization is approved, issued and presented, and
\* whatever crashes, it starts one command at most.
THEOREM SingleUse == Spec => []AtMostOneRun
<1>1. LedgerInv => AtMostOneRun
  BY DEF LedgerInv
<1> QED  BY <1>1, AlwaysLedgerInv, PTL

\* The receipt of a command that was started survives every power loss.
THEOREM ReceiptsLast == Spec => []ReceiptBeforeRun
<1>1. LedgerInv => ReceiptBeforeRun
  BY DEF LedgerInv
<1> QED  BY <1>1, AlwaysLedgerInv, PTL

-----------------------------------------------------------------------------
(* Approval.                                                                *)

\* Requests with the same text are in time together.
LEMMA SameTextSameTimes ==
  ASSUME NEW p, NEW q, NEW t, PermitText(p) = PermitText(q), InTime(p, t)
  PROVE  InTime(q, t)
<1>1. /\ p.readinessAt = q.readinessAt /\ p.preparedAt = q.preparedAt
      /\ p.expiresAt = q.expiresAt
  BY DEF PermitText
<1> QED  BY <1>1 DEF InTime

\* A request that is valid now was in time ever since it was prepared.
LEMMA InTimeSincePrepared ==
  ASSUME NEW r \in Request, NEW now \in Nat, NEW t \in Nat,
         ValidatePrepared(Prepared[r], now), Prepared[r].preparedAt <= t, t <= now
  PROVE  InTime(Prepared[r], t)
BY RequestAssumption, AgeAssumption DEF InTime, ValidatePrepared,
   FreshPreparation, FreshReadiness, NotExpired

\* A grant that covers a request now, held since polkit gave it, approves it.
LEMMA CoveredIsApproved ==
  ASSUME TypeInv, grants \subseteq approvals, NEW r \in Request, NEW g \in grants,
         GrantCovers(r, g, clock)
  PROVE  WasApproved(r)
<1>1. g.checkedAt \in Nat /\ clock \in Nat
  BY DEF TypeInv, TypeOK, IssuerTypeOK, DirTypeOK, Grants
<1>2. InTime(Prepared[r], g.checkedAt)
  BY <1>1, InTimeSincePrepared DEF GrantCovers
<1> QED  BY <1>2 DEF GrantCovers, WasApproved

\* A helper that found the text it needs works on an approved request.
LEMMA PermitCarriesApproval ==
  ASSUME TypeInv, ApprovalInv, NEW r \in Request, HoldsPermitFor(r)
  PROVE  WasApproved(r)
<1> DEFINE f == entry[Authorization(r)]
           s == text[f]
<1>1. f \in Files /\ s \in Request /\ PermitText(Prepared[s]) = PermitText(Prepared[r])
  BY AuthorizationIn DEF HoldsPermitFor, IsPermitFor, TypeInv, TypeOK, DirTypeOK
<1>2. PICK g \in approvals :
        /\ PermitText(Prepared[g.request]) = PermitText(Prepared[s])
        /\ InTime(Prepared[s], g.checkedAt)
  BY <1>1 DEF ApprovalInv, WasApproved
<1>3. InTime(Prepared[r], g.checkedAt)
  BY <1>1, <1>2, SameTextSameTimes
<1> QED  BY <1>1, <1>2, <1>3 DEF WasApproved

\* Approvals are never taken back.
LEMMA ApprovalsLast ==
  ASSUME approvals \subseteq approvals', NEW r, WasApproved(r)
  PROVE  WasApproved(r)'
BY DEF WasApproved

\* A step that brings no new text into a file, lets no issuer or helper pass a
\* check and starts no command keeps the invariant.
LEMMA QuietForApproval ==
  ASSUME ApprovalInv, approvals \subseteq approvals', grants' \subseteq approvals',
         UNCHANGED runs,
         \A f \in Files : text'[f] \in Request => text'[f] = text[f],
         \A i \in Issuers : issuerPc'[i] \notin {"idle", "check"} =>
           issuerPc[i] \notin {"idle", "check"} /\ asked'[i] = asked[i],
         \A h \in Helpers : pc'[h] \in Permitted =>
           pc[h] \in Permitted /\ req'[h] = req[h]
  PROVE  ApprovalInv'
<1>1. \A r : WasApproved(r) => WasApproved(r)'
  BY ApprovalsLast
<1>2. \A i \in Issuers : issuerPc'[i] \notin {"idle", "check"} => WasApproved(asked[i])'
  <2> SUFFICES ASSUME NEW i \in Issuers, issuerPc'[i] \notin {"idle", "check"}
               PROVE  WasApproved(asked[i])'
    OBVIOUS
  <2>1. WasApproved(asked[i]) /\ asked'[i] = asked[i]
    BY DEF ApprovalInv
  <2> QED  BY <2>1, approvals \subseteq approvals' DEF WasApproved
<1>3. \A f \in Files : text'[f] \in Request => WasApproved(text[f])'
  <2> SUFFICES ASSUME NEW f \in Files, text'[f] \in Request
               PROVE  WasApproved(text[f])'
    OBVIOUS
  <2>1. WasApproved(text[f]) /\ text'[f] = text[f]
    BY DEF ApprovalInv
  <2> QED  BY <2>1, approvals \subseteq approvals' DEF WasApproved
<1>4. \A h \in Helpers : pc'[h] \in Permitted => WasApproved(req[h])'
  <2> SUFFICES ASSUME NEW h \in Helpers, pc'[h] \in Permitted
               PROVE  WasApproved(req[h])'
    OBVIOUS
  <2>1. WasApproved(req[h]) /\ req'[h] = req[h]
    BY DEF ApprovalInv
  <2> QED  BY <2>1, approvals \subseteq approvals' DEF WasApproved
<1>5. RunsWereApproved'
  BY <1>1 DEF ApprovalInv, RunsWereApproved
<1> QED  BY <1>2, <1>3, <1>4, <1>5 DEF ApprovalInv

\* An issuer goes on, and writes, only what a grant covers (issue).
LEMMA IssuerKeepsApproval ==
  ASSUME TypeInv, ApprovalInv, NEW i \in Issuers, Issuer(i)
  PROVE  ApprovalInv'
<1> USE DirectoryAssumption
    DEF TypeInv, TypeOK, DirTypeOK, IssuerTypeOK, boundaryVars, localVars, historyVars, dirVars
<1>0. pc' = pc /\ req' = req /\ runs' = runs
  BY DEF Issuer
<1>1. ASSUME NEW r \in Request, BeginIssue(i, r) PROVE ApprovalInv'
  <2>1. WasApproved(r)
    BY <1>1, CoveredIsApproved DEF BeginIssue, ApprovalInv
  <2>2. /\ issuerPc' = [issuerPc EXCEPT ![i] = "create"]
        /\ asked' = [asked EXCEPT ![i] = r]
        /\ UNCHANGED <<grants, approvals, text>>
    BY <1>1 DEF BeginIssue, IssuerBegins
  <2> QED  BY <1>0, <2>1, <2>2 DEF ApprovalInv, WasApproved, RunsWereApproved
<1>2. ASSUME WritePermit(i) PROVE ApprovalInv'
  <2>1. WasApproved(asked[i])
    BY <1>2 DEF WritePermit, IssuerGoes, ApprovalInv
  <2>2. /\ issuerPc[i] = "write" /\ issuerPc' = [issuerPc EXCEPT ![i] = "flush"]
        /\ text' = [text EXCEPT ![created[i]] = asked[i]]
        /\ UNCHANGED <<grants, approvals, asked>>
    BY <1>2 DEF WritePermit, IssuerGoes, WriteText
  <2> QED  BY <1>0, <2>1, <2>2 DEF ApprovalInv, WasApproved, RunsWereApproved
<1>3. ASSUME ~(\E r \in Request : BeginIssue(i, r)), ~WritePermit(i)
      PROVE  ApprovalInv'
  <2> DEFINE Quiet ==
        /\ approvals \subseteq approvals' /\ grants' \subseteq approvals'
        /\ \A f \in Files : text'[f] \in Request => text'[f] = text[f]
        /\ \A k \in Issuers : issuerPc'[k] \notin {"idle", "check"} =>
             issuerPc[k] \notin {"idle", "check"} /\ asked'[k] = asked[k]
  <2> USE DEF ApprovalInv
  <2>1. ASSUME NEW r \in Request, BeginCheck(i, r) PROVE Quiet
    BY <2>1 DEF BeginCheck, IssuerBegins
  <2>2. (PolkitApproves(i) \/ PolkitRefuses(i) \/ AlreadyIssued(i) \/ IssueFails(i)
           \/ KillIssuer(i)) => Quiet
    BY DEF PolkitApproves, PolkitRefuses, AlreadyIssued, IssueFails, KillIssuer, IssuerReturns
  <2>3. CreatePermit(i) => Quiet
    BY DEF CreatePermit, IssuerGoes, CreateNew
  <2>4. (FlushPermit(i) \/ InspectPermit(i) \/ IssueGoesWrong(i)) => Quiet
    BY DEF FlushPermit, InspectPermit, IssueGoesWrong, IssuerGoes, FlushFile
  <2>5. (SyncPermit(i) \/ CleanUp(i)) => Quiet
    BY DEF SyncPermit, CleanUp, IssuerReturns, SyncDirectory, Unlink
  <2>6. Quiet
    BY <1>3, <2>1, <2>2, <2>3, <2>4, <2>5 DEF Issuer, IssuerStep
  <2> QED  BY <1>0, <2>6, QuietForApproval
<1> QED  BY <1>1, <1>2, <1>3

\* A helper goes on only with what it compared a permit for (consume_matching).
LEMMA HelperKeepsApproval ==
  ASSUME TypeInv, ApprovalInv, NEW h \in Helpers, Helper(h)
  PROVE  ApprovalInv'
<1> USE DEF TypeInv, TypeOK, BoundaryTypeOK, dirVars, ledgerVars, historyVars, issuerVars, Permitted
<1>0. UNCHANGED <<issuerPc, asked, grants, approvals>>
  BY DEF Helper
<1>1. ASSUME ReadPermit(h) PROVE ApprovalInv'
  <2>1. pc[h] = "readPermit" /\ HoldsPermitFor(req[h])
    BY <1>1 DEF ReadPermit, Goes
  <2>2. WasApproved(req[h])
    BY <2>1, PermitCarriesApproval DEF HelperLocals
  <2>3. pc' = [pc EXCEPT ![h] = "removePermit"] /\ UNCHANGED <<req, text, runs>>
    BY <1>1 DEF ReadPermit, Goes
  <2> QED  BY <1>0, <2>2, <2>3 DEF ApprovalInv, WasApproved, RunsWereApproved
<1>2. ASSUME StartCandidate(h) PROVE ApprovalInv'
  <2>1. /\ pc[h] = "spawn" /\ pc' = [pc EXCEPT ![h] = "running"] /\ UNCHANGED <<req, text>>
        /\ runs' = [runs EXCEPT ![req[h]] = IF @ < 2 THEN @ + 1 ELSE 2]
    BY <1>2 DEF StartCandidate, Goes
  <2>2. WasApproved(req[h]) /\ req[h] \in Request
    BY <2>1 DEF ApprovalInv, HelperLocals
  <2>3. \A r \in Request : r # req[h] => runs'[r] = runs[r]
    BY <2>1, <2>2
  <2>4. RunsWereApproved'
    BY <1>0, <2>2, <2>3 DEF ApprovalInv, RunsWereApproved, WasApproved
  <2> QED  BY <1>0, <2>1, <2>4 DEF ApprovalInv, WasApproved
<1>3. ASSUME ~ReadPermit(h), ~StartCandidate(h) PROVE ApprovalInv'
  <2> DEFINE Quiet ==
        /\ UNCHANGED <<text, runs>>
        /\ \A k \in Helpers : pc'[k] \in Permitted => pc[k] \in Permitted /\ req'[k] = req[k]
  <2>1. ASSUME NEW r \in Request, Begin(h, r) PROVE Quiet
    BY <2>1 DEF Begin
  <2>2. (RemovePermit(h) \/ SyncPermits(h) \/ InspectHost(h) \/ CreateReceipt(h)
           \/ SyncReceipt(h)) => Quiet
    BY DEF RemovePermit, SyncPermits, InspectHost, CreateReceipt, SyncReceipt, Goes,
       Unlink, SyncDirectory
  <2>3. (PermitRefused(h) \/ PermitGone(h) \/ NotBootDefault(h) \/ AlreadyConsumed(h)) => Quiet
    BY DEF PermitRefused, PermitGone, NotBootDefault, AlreadyConsumed, Returns
  <2>4. (FinishCandidate(h) \/ DecideToRestore(h) \/ StartRestore(h) \/ FinishRestore(h)
           \/ RestoredAfterFailure(h) \/ Abandon(h)) => Quiet
    BY DEF FinishCandidate, DecideToRestore, StartRestore, FinishRestore,
       RestoredAfterFailure, Abandon, Goes
  <2>5. (ReportOk(h) \/ RestoreExitsBadly(h) \/ NotRestored(h) \/ ReportUndone(h)
           \/ ReportRolledBack(h)) => Quiet
    BY DEF ReportOk, RestoreExitsBadly, NotRestored, ReportUndone, ReportRolledBack, Returns
  <2>6. (CallFails(h) \/ KillHelper(h) \/ FinishOrphan(h)) => Quiet
    BY DEF CallFails, KillHelper, FinishOrphan, Returns
  <2>7. Quiet
    BY <1>3, <2>1, <2>2, <2>3, <2>4, <2>5, <2>6 DEF Helper, HelperStep, HelperProgress
  <2> QED  BY <1>0, <2>7, QuietForApproval DEF ApprovalInv
<1> QED  BY <1>1, <1>2, <1>3

\* A power loss may tear a permit, which then stands for nothing.
LEMMA PowerLossKeepsApproval ==
  ASSUME ApprovalInv, PowerLoss
  PROVE  ApprovalInv'
<1>1. UNCHANGED <<approvals, runs>> /\ grants' = {}
  BY DEF PowerLoss, RebootIssuers, RebootBoundary, historyVars
<1>2. \A f \in Files : text'[f] \in Request => text'[f] = text[f]
  BY DirectoryAssumption DEF PowerLoss, LoseUnsynced
<1>3. /\ \A i \in Issuers : issuerPc'[i] = "idle"
      /\ \A h \in Helpers : pc'[h] = "idle"
  BY DEF PowerLoss, RebootIssuers, RebootBoundary
<1> QED  BY <1>1, <1>2, <1>3, QuietForApproval DEF Permitted

\* Nothing is approved, and nothing needs to be.
LEMMA InitHasApproval == Init => ApprovalInv
BY DirectoryAssumption DEF Init, DirInit, IssuerInit, BoundaryInit, IdleLocals,
   ApprovalInv, Permitted, RunsWereApproved

\* Every step hands an approval on or ends what rests on it.
LEMMA NextKeepsApproval == TypeInv /\ ApprovalInv /\ [Next]_vars => ApprovalInv'
<1> SUFFICES ASSUME TypeInv, ApprovalInv, [Next]_vars PROVE ApprovalInv'
  OBVIOUS
<1> USE DEF dirVars, issuerVars, boundaryVars, localVars, historyVars
<1>1. ASSUME NEW i \in Issuers, Issuer(i) PROVE ApprovalInv'
  BY <1>1, IssuerKeepsApproval
<1>2. ASSUME NEW h \in Helpers, Helper(h) PROVE ApprovalInv'
  BY <1>2, HelperKeepsApproval
<1>3. CASE ClockMoves
  BY <1>3, QuietForApproval DEF ClockMoves, ApprovalInv
<1>4. CASE PowerLoss
  BY <1>4, PowerLossKeepsApproval
<1>5. CASE UNCHANGED vars
  BY <1>5, QuietForApproval DEF vars, ApprovalInv
<1> QED  BY <1>1, <1>2, <1>3, <1>4, <1>5 DEF Next

\* Whoever holds a permit, or is on the way to one, holds what polkit approved.
THEOREM AlwaysApprovalInv == Spec => []ApprovalInv
BY AlwaysTypeInv, InitHasApproval, NextKeepsApproval, PTL DEF Spec

\* A command is started only under a permit text that polkit approved, by a
\* check made when the request was in time, even if the clock is set back.
THEOREM StartsAreApproved == Spec => []RunsWereApproved
<1>1. ApprovalInv => RunsWereApproved
  BY DEF ApprovalInv
<1> QED  BY <1>1, AlwaysApprovalInv, PTL

-----------------------------------------------------------------------------
(* One invocation at a time.                                                *)

\* While no other helper deals with the host only the helper itself, or a power
\* loss that ends it, changes what it saw there.
LEMMA HelperKeepsSerial ==
  ASSUME TypeInv, OneAtATime, SerialInv, NEW h \in Helpers, Helper(h)
  PROVE  SerialInv'
<1> USE DEF ReliesOnBaseline
<1>0. pc \in [Helpers -> HelperSteps] /\ before \in [Helpers -> StoreClosure \cup {NoClosure}]
  BY DEF TypeInv, TypeOK, BoundaryTypeOK
\* Steps that leave the host alone, and begin no reliance on it.
<1> DEFINE Quiet == /\ current' = current
                    /\ \A k \in Helpers :
                         pc'[k] \in ReliesOnBaseline => pc[k] \in ReliesOnBaseline
\* Steps of a command that may change the host.
           Effect == /\ pc[h] \in OnHost /\ pc'[h] \notin ReliesOnBaseline
                     /\ \A k \in Helpers \ {h} : pc'[k] = pc[k]
<1>1. Quiet => SerialInv'
  BY DEF SerialInv
<1>2. Effect => SerialInv'
  <2> SUFFICES ASSUME Effect, NEW k \in Helpers, pc'[k] \in ReliesOnBaseline PROVE FALSE
    BY DEF SerialInv
  <2>1. k # h /\ pc[k] \in ReliesOnBaseline
    OBVIOUS
  <2>2. pc[k] \in OnHost /\ pc[h] \in OnHost
    BY <2>1 DEF OnHost, HelperSteps
  <2> QED  BY <2>1, <2>2 DEF OneAtATime
<1>3. InspectHost(h) => SerialInv'
  BY <1>0 DEF InspectHost, Goes, SerialInv
<1>4. RestoredAfterFailure(h) => SerialInv'
  <2> SUFFICES ASSUME RestoredAfterFailure(h) PROVE SerialInv'
    OBVIOUS
  <2>1. pc[h] = "checkRestored" /\ current = before[h] /\ current' = current
    BY DEF RestoredAfterFailure, Goes
  <2>2. before[h] = BootDefault
    BY <2>1 DEF TypeInv, HelperLocals
  <2> QED  BY <2>1, <2>2 DEF SerialInv
<1>5. ASSUME NEW r \in Request, Begin(h, r) PROVE Quiet
  BY <1>0, <1>5 DEF Begin
<1>6. (ReadPermit(h) \/ RemovePermit(h) \/ SyncPermits(h) \/ CreateReceipt(h) \/ SyncReceipt(h)
         \/ StartCandidate(h) \/ DecideToRestore(h) \/ StartRestore(h) \/ Abandon(h)) => Quiet
  BY <1>0 DEF ReadPermit, RemovePermit, SyncPermits, CreateReceipt, SyncReceipt,
     StartCandidate, DecideToRestore, StartRestore, Abandon, Goes
<1>7. (PermitRefused(h) \/ PermitGone(h) \/ NotBootDefault(h) \/ AlreadyConsumed(h) \/ ReportOk(h)
         \/ NotRestored(h) \/ ReportUndone(h) \/ ReportRolledBack(h) \/ CallFails(h)
         \/ KillHelper(h)) => Quiet
  BY <1>0 DEF PermitRefused, PermitGone, NotBootDefault, AlreadyConsumed, ReportOk, NotRestored,
     ReportUndone, ReportRolledBack, CallFails, KillHelper, Returns
<1>8. (FinishCandidate(h) \/ FinishRestore(h)) => Effect
  BY <1>0 DEF FinishCandidate, FinishRestore, Goes, OnHost, HelperSteps
<1>9. (RestoreExitsBadly(h) \/ FinishOrphan(h)) => Effect
  BY <1>0 DEF RestoreExitsBadly, FinishOrphan, Returns, OnHost, HelperSteps
<1> HIDE DEF Quiet, Effect
<1> QED  BY <1>1, <1>2, <1>3, <1>4, <1>5, <1>6, <1>7, <1>8, <1>9
         DEF Helper, HelperStep, HelperProgress

\* Every step keeps what an invocation relies on, as long as no other disturbs it.
LEMMA NextKeepsSerial ==
  TypeInv /\ OneAtATime /\ SerialInv /\ [Next]_vars => SerialInv'
<1> SUFFICES ASSUME TypeInv, OneAtATime, SerialInv, [Next]_vars PROVE SerialInv'
  OBVIOUS
<1>1. ASSUME NEW h \in Helpers, Helper(h) PROVE SerialInv'
  BY <1>1, HelperKeepsSerial
<1>2. CASE PowerLoss
  BY <1>2 DEF PowerLoss, RebootBoundary, SerialInv
<1>3. ASSUME UNCHANGED <<pc, current>> PROVE SerialInv'
  BY <1>3 DEF SerialInv
<1>4. (\E i \in Issuers : Issuer(i)) \/ ClockMoves \/ UNCHANGED vars => UNCHANGED <<pc, current>>
  BY DEF Issuer, ClockMoves, vars, boundaryVars, localVars
<1> QED  BY <1>1, <1>2, <1>3, <1>4 DEF Next

\* An invocation that is alone from its check of the host on finds it unchanged.
LEMMA AlwaysSerialInv == (Spec /\ []OneAtATime) => []SerialInv
<1>1. Init => SerialInv
  BY DEF Init, BoundaryInit, IdleLocals, SerialInv, ReliesOnBaseline
<1> QED  BY <1>1, AlwaysTypeInv, NextKeepsSerial, PTL DEF Spec

\* While invocations do not overlap on the host no test activation is stacked on
\* another: execute compares the live system with the boot default once, some
\* steps before it starts the command.  (For two that overlap it does not hold.)
THEOREM SerialStartsAreUnstacked == (Spec /\ []OneAtATime) => NoStackedActivation
<1>1. ASSUME SerialInv, NEW h \in Helpers, pc[h] = "spawn" PROVE current = BootDefault
  BY <1>1 DEF SerialInv, ReliesOnBaseline
<1>2. SerialInv =>
        \A h \in Helpers : (pc[h] = "spawn" /\ pc'[h] = "running") => current = BootDefault
  BY <1>1
<1> QED  BY <1>2, AlwaysSerialInv, PTL DEF NoStackedActivation

\* What is said of an invocation that returns in this step, for one helper.
ToldTruth(h) ==
  /\ result'[h] = "ok" => current' = IF IsPreview(h) THEN BootDefault ELSE Candidate(h)
  /\ result'[h] \in {"rolledBack", "undone"} => current' = BootDefault

\* A helper that returns has just looked at the host, or reports no outcome that
\* says anything of it.
LEMMA ReturnTellsTruth ==
  ASSUME TypeInv, SerialInv, NEW h \in Helpers, Helper(h), pc[h] # "idle", pc'[h] = "idle"
  PROVE  ToldTruth(h)
<1>0. /\ pc \in [Helpers -> HelperSteps] /\ result \in [Helpers -> Results]
      /\ pc[h] \notin {"readPermit", "removePermit", "syncPermits", "inspectHost"} =>
           before[h] = BootDefault
  BY DEF TypeInv, TypeOK, BoundaryTypeOK, HelperLocals
<1>1. ASSUME ReportOk(h) PROVE ToldTruth(h)
  <2>1. pc[h] = "readAfter" /\ AsApproved(h) /\ result'[h] = "ok" /\ current' = current
    BY <1>0, <1>1 DEF ReportOk, Returns
  <2> QED  BY <1>0, <2>1 DEF AsApproved, ToldTruth
<1>2. ASSUME ReportUndone(h) PROVE ToldTruth(h)
  <2>1. pc[h] = "checkRestored" /\ current = before[h] /\ result'[h] = "undone"
        /\ current' = current
    BY <1>0, <1>2 DEF ReportUndone, Returns
  <2> QED  BY <1>0, <2>1 DEF ToldTruth
<1>3. ASSUME ReportRolledBack(h) PROVE ToldTruth(h)
  <2>1. pc[h] = "readFinal" /\ result'[h] = "rolledBack" /\ current' = current
    BY <1>0, <1>3 DEF ReportRolledBack, Returns
  <2> QED  BY <2>1 DEF SerialInv, ReliesOnBaseline, ToldTruth
<1>4. (PermitRefused(h) \/ PermitGone(h) \/ NotBootDefault(h) \/ AlreadyConsumed(h)) =>
        result'[h] = "refused"
  BY <1>0 DEF PermitRefused, PermitGone, NotBootDefault, AlreadyConsumed, Returns
<1>5. (RestoreExitsBadly(h) \/ NotRestored(h)) => result'[h] = "rollbackFailed"
  BY <1>0 DEF RestoreExitsBadly, NotRestored, Returns
<1>6. (CallFails(h) \/ KillHelper(h) \/ FinishOrphan(h)) => result'[h] \in {"error", "killed"}
  BY <1>0 DEF CallFails, KillHelper, FinishOrphan, Returns
\* The other steps do not return.
<1>7. \A r \in Request : ~Begin(h, r)
  BY DEF Begin
<1>8. ~(ReadPermit(h) \/ RemovePermit(h) \/ SyncPermits(h) \/ InspectHost(h) \/ CreateReceipt(h)
          \/ SyncReceipt(h) \/ StartCandidate(h) \/ FinishCandidate(h))
  BY <1>0 DEF ReadPermit, RemovePermit, SyncPermits, InspectHost, CreateReceipt,
     SyncReceipt, StartCandidate, FinishCandidate, Goes
<1>9. ~(DecideToRestore(h) \/ StartRestore(h) \/ FinishRestore(h) \/ RestoredAfterFailure(h)
          \/ Abandon(h))
  BY <1>0 DEF DecideToRestore, StartRestore, FinishRestore, RestoredAfterFailure, Abandon, Goes
<1> QED  BY <1>1, <1>2, <1>3, <1>4, <1>5, <1>6, <1>7, <1>8, <1>9
         DEF Helper, HelperStep, HelperProgress, ToldTruth

\* A helper's step leaves the others where they are.
LEMMA OthersStayPut ==
  ASSUME TypeInv, NEW k \in Helpers, Helper(k), NEW h \in Helpers, h # k
  PROVE  pc'[h] = pc[h] /\ req'[h] = req[h]
<1> DEFINE Put == pc'[h] = pc[h] /\ req'[h] = req[h]
<1>0. pc \in [Helpers -> HelperSteps] /\ req \in [Helpers -> Request \cup {NoRequest}]
  BY DEF TypeInv, TypeOK, BoundaryTypeOK
<1>1. ASSUME NEW r \in Request, Begin(k, r) PROVE Put
  BY <1>0, <1>1 DEF Begin
<1>2. ASSUME NEW from, NEW to, Goes(k, from, to) PROVE Put
  BY <1>0, <1>2 DEF Goes
<1>3. ASSUME NEW outcome, Returns(k, outcome) PROVE Put
  BY <1>0, <1>3 DEF Returns
<1>4. (ReadPermit(k) \/ RemovePermit(k) \/ SyncPermits(k) \/ InspectHost(k) \/ CreateReceipt(k)
         \/ SyncReceipt(k) \/ StartCandidate(k) \/ FinishCandidate(k)) => Put
  BY <1>2 DEF ReadPermit, RemovePermit, SyncPermits, InspectHost, CreateReceipt,
     SyncReceipt, StartCandidate, FinishCandidate
<1>5. (DecideToRestore(k) \/ StartRestore(k) \/ FinishRestore(k) \/ RestoredAfterFailure(k)
         \/ Abandon(k)) => Put
  BY <1>2 DEF DecideToRestore, StartRestore, FinishRestore, RestoredAfterFailure, Abandon
<1>6. (PermitRefused(k) \/ PermitGone(k) \/ NotBootDefault(k) \/ AlreadyConsumed(k) \/ ReportOk(k)
         \/ RestoreExitsBadly(k) \/ NotRestored(k) \/ ReportUndone(k) \/ ReportRolledBack(k)
         \/ CallFails(k) \/ KillHelper(k) \/ FinishOrphan(k)) => Put
  BY <1>3 DEF PermitRefused, PermitGone, NotBootDefault, AlreadyConsumed, ReportOk,
     RestoreExitsBadly, NotRestored, ReportUndone, ReportRolledBack, CallFails, KillHelper,
     FinishOrphan
<1> QED  BY <1>1, <1>4, <1>5, <1>6 DEF Helper, HelperStep, HelperProgress

\* While invocations do not overlap on the host every report of success, rollback
\* or an undone effect is true of the live system when it is made: the rollback
\* of a failed test is reported one read of the host after it was checked.
THEOREM SerialReportsAreTrue == (Spec /\ []OneAtATime) => ReportsTruth
<1>1. ASSUME TypeInv, SerialInv, [Next]_vars, NEW h \in Helpers, pc[h] # "idle", pc'[h] = "idle"
      PROVE  ToldTruth(h)
  <2>1. ASSUME NEW k \in Helpers, Helper(k) PROVE ToldTruth(h)
    BY <1>1, <2>1, OthersStayPut, ReturnTellsTruth
  <2>2. CASE PowerLoss
    <3>1. result'[h] = "none"
      BY <2>2 DEF PowerLoss, RebootBoundary
    <3> QED  BY <3>1 DEF ToldTruth
  <2>3. ~((\E i \in Issuers : Issuer(i)) \/ ClockMoves \/ UNCHANGED vars)
    BY <1>1 DEF Issuer, ClockMoves, vars, boundaryVars, localVars
  <2> QED  BY <1>1, <2>1, <2>2, <2>3 DEF Next
<1>2. TypeInv /\ SerialInv /\ [Next]_vars =>
        \A h \in Helpers : (pc[h] # "idle" /\ pc'[h] = "idle") =>
          /\ result'[h] = "ok" =>
               current' = IF IsPreview(h) THEN BootDefault ELSE Candidate(h)
          /\ result'[h] \in {"rolledBack", "undone"} => current' = BootDefault
  BY <1>1 DEF ToldTruth
<1> QED  BY <1>2, AlwaysTypeInv, AlwaysSerialInv, PTL DEF ReportsTruth, Spec
=============================================================================
