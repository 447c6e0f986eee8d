-------------------------- MODULE ActivationSystem --------------------------
(***************************************************************************)
(* The privileged side of the pilot: issuers and root-boundary helpers     *)
(* that share one host, one permit directory, one execution ledger and the *)
(* wall clock, and a host that may lose power at any time.                 *)
(***************************************************************************)
EXTENDS PermitIssuer, RootBoundary

CONSTANTS
  MaxTime,     \* bound: the clock stays below this or reaches it
  MaxReboots   \* bound: how often the host loses power

ASSUME SystemAssumption ==
  /\ MaxTime    \in Nat
  /\ MaxReboots \in Nat

\* Times are unsigned integers.
ASSUME RequestAssumption ==
  \A r \in Request :
    /\ Prepared[r].readinessAt \in Nat
    /\ Prepared[r].preparedAt  \in Nat
    /\ Prepared[r].expiresAt   \in Nat

VARIABLE reboots

vars == <<clock, dirVars, issuerVars, boundaryVars, reboots>>

TypeOK ==
  /\ DirTypeOK
  /\ IssuerTypeOK
  /\ BoundaryTypeOK
  /\ reboots \in Nat

Init ==
  /\ clock \in 0 .. MaxTime
  /\ DirInit
  /\ IssuerInit
  /\ BoundaryInit
  /\ reboots = 0

\* Wall-clock time passes, or is set back: now_unix_ms is the caller's reading
\* of a clock that time synchronisation and the administrator may adjust.
ClockMoves ==
  /\ clock' \in 0 .. MaxTime
  /\ clock' # clock
  /\ UNCHANGED <<dirVars, issuerVars, boundaryVars, reboots>>

PowerLoss ==
  /\ reboots < MaxReboots
  /\ reboots' = reboots + 1
  /\ LoseUnsynced
  /\ RebootIssuers
  /\ RebootBoundary
  /\ UNCHANGED clock

Issuer(i) == IssuerStep(i) /\ UNCHANGED <<boundaryVars, reboots>>
Helper(h) == HelperStep(h) /\ UNCHANGED <<issuerVars, reboots>>

Next ==
  \/ \E i \in Issuers : Issuer(i)
  \/ \E h \in Helpers : Helper(h)
  \/ ClockMoves
  \/ PowerLoss

Spec == Init /\ [][Next]_vars

\* A started call gets CPU time, and switch-to-configuration terminates.
\* Nobody has to call, to answer polkit, to kill a process or to cut power.
FairSpec ==
  /\ Spec
  /\ \A h \in Helpers :
       WF_vars(HelperProgress(h) /\ UNCHANGED <<issuerVars, reboots>>)

-----------------------------------------------------------------------------
(* Safety.                                                                  *)

\* However often an authorization is prepared, approved, issued, presented by
\* racing helpers or retried after a crash, it starts one command at most
\* (permit consumption and execution ledger together).
AtMostOneRun ==
  /\ \A r \in Request : runs[r] <= 1
  /\ \A r, s \in Request :
       (runs[r] > 0 /\ runs[s] > 0 /\ Authorization(r) = Authorization(s)) => r = s

\* Time t lies after the preparation of p, while it and the readiness it rests
\* on are fresh, and before p expires.
InTime(p, t) ==
  /\ p.preparedAt <= t
  /\ t - p.preparedAt  <= MaxPreparedAge
  /\ t - p.readinessAt <= MaxReadinessAge
  /\ t < p.expiresAt

WasApproved(r) ==
  \E g \in approvals :
    /\ PermitText(Prepared[g.request]) = PermitText(Prepared[r])
    /\ InTime(Prepared[r], g.checkedAt)

\* A command that was started was approved at polkit under the exact permit
\* text of its request, by a check made when the request was in time (the
\* boundary never looks at polkit: all it has is a file).
RunsWereApproved == \A r \in Request : runs[r] > 0 => WasApproved(r)

\* Once a command was started no power loss can lose the receipt that keeps
\* its authorization from being used again (consume_once before run).
ReceiptBeforeRun ==
  \A r \in Request : runs[r] > 0 => receiptDisk[Authorization(r)] = {TRUE}

\* A permit file whose consumption was reported is not in the directory and
\* no power loss brings it back (remove, then sync of the directory).
ConsumedStaysConsumed ==
  \A a \in Authorizations : (onDisk[a] \cup {entry[a]}) \cap spent = {}

\* A permit whose issuance was reported is still there, whole, under the name
\* of its own authorization, after any crash, unless it was removed (fsync of
\* file and directory before Ok; create-new).
IssuedPermitSurvives ==
  \A f \in reported \ removed :
    /\ f \in flushed
    /\ text[f] \in Request
    /\ onDisk[Authorization(text[f])] = {f}

-----------------------------------------------------------------------------
(* Properties of steps.                                                     *)

\* A command is started only on a host that runs its boot default: no test is
\* stacked on another (execute compares before with the boot default).
NoStackedActivation ==
  [][\A h \in Helpers :
       (pc[h] = "spawn" /\ pc'[h] = "running") => current = BootDefault]_vars

\* What an invocation returns is so when it returns: after success of a test
\* its candidate is live, and after success of a preview, a reported rollback
\* or an undone effect the boot default is (the postconditions of execute).
ReportsTruth ==
  [][\A h \in Helpers :
       (pc[h] # "idle" /\ pc'[h] = "idle") =>
         /\ result'[h] = "ok" =>
              current' = IF IsPreview(h) THEN BootDefault ELSE Candidate(h)
         /\ result'[h] \in {"rolledBack", "undone"} => current' = BootDefault]_vars

\* An invocation that ran a test command to a failing exit returns no error
\* before it tried the rollback (the failure branch of execute).
FailedTestIsRestored ==
  [][\A h \in Helpers :
       (pc[h] = "readAfter" /\ FailedTest(h)) => result'[h] # "error"]_vars

\* A permit is removed by an invocation of the request it was issued for
\* (consume_matching compares the text, then removes the path).
PermitRemovedByItsRequest ==
  [][\A h \in Helpers :
       (pc[h] = "removePermit" /\ pc'[h] = "syncPermits") => HoldsPermitFor(req[h])]_vars

\* When a command is started a permit with the exact text of its request is
\* used up: it was removed, by whomever, and no power loss brings it back
\* (consume_matching returns before helper.execute is called).
StartsUseUpPermit ==
  [][\A h \in Helpers : (pc[h] = "spawn" /\ pc'[h] = "running") =>
       \E f \in spent : IsPermitFor(f, req[h])]_vars

-----------------------------------------------------------------------------
(* Liveness.                                                                *)

\* Every invocation returns, whoever else uses the directory, the ledger and
\* the host: nothing in the boundary waits for another process.
InvocationsReturn ==
  \A h \in Helpers : (pc[h] # "idle") ~> (pc[h] = "idle")

-----------------------------------------------------------------------------
(* The privileged side implements SingleUseAuthority.                       *)

Approved == {g.request : g \in approvals}
Spent    == {a \in Authorizations : receiptDisk[a] = {TRUE}}
Started  == {r \in Request : runs[r] > 0}

Authority == INSTANCE SingleUseAuthority WITH
  AuthorizationOf <- [r \in Request |-> Authorization(r)],
  TextOf    <- [r \in Request |-> PermitText(Prepared[r])],
  ClosureOf <- [r \in Request |-> Prepared[r].plan.closure],
  approved  <- Approved,
  spent     <- Spent,
  started   <- Started,
  live      <- current

\* Receipts on disk are the spent authorizations, and every start, effect and
\* restoration of the detailed system is one the abstract promise allows.
ImplementsAuthority == Authority!Spec
=============================================================================
