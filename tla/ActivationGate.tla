--------------------------- MODULE ActivationGate ---------------------------
(***************************************************************************)
(* blob-system-activation-gate and the validations of blob-core and of the *)
(* immutable planner that it calls: the unprivileged side turns a reviewed *)
(* readiness snapshot and a single-use authorization receipt into one      *)
(* PreparedPrivilegedActivation.                                           *)
(*                                                                         *)
(* The gate is a library: callers on several threads share its in-memory   *)
(* ledger.  They probe the node and ask for authorization when they like,  *)
(* and hand the gate any snapshot and any receipt they have.               *)
(***************************************************************************)
EXTENDS PreparedActivation, FiniteSets

CONSTANTS
  Callers,        \* threads that call PrivilegedActivationGate::prepare
  Operations,     \* SystemCandidateOperation values
  Candidates,     \* MaterializedNixOsCandidate values
  Conditions,     \* what a probe may find of the node, except for its time
  Profile,        \* the PhysicalTestNodeProfile of the node
  ReceiptIds,     \* SystemAuthorizationId values
  Validity,       \* how long a receipt is valid
  NoCall,         \* "no call under way"
  MaxTime,        \* bound of the clock
  MaxSnapshots,   \* bound: how many snapshots are taken
  MaxReceipts,    \* bound: how many receipts are granted
  MaxRestarts     \* bound: how often the gate's process restarts

ASSUME GateAssumption ==
  /\ Validity \in Nat
  /\ MaxTime  \in Nat

VARIABLES
  now,         \* the clock of the callers
  snapshots,   \* the readiness snapshots taken so far
  receipts,    \* the authorization receipts granted so far
  call,        \* what each caller is about to prepare once the ledger agrees
  consumed,    \* the in-memory ledger
  prepared,    \* history: everything the gate handed out
  handedOut,   \* history: how often the running process handed out a receipt
  restarts

gateVars == <<now, snapshots, receipts, call, consumed, prepared, handedOut, restarts>>

-----------------------------------------------------------------------------
(* PhysicalTestNodeProfile::validate_readiness: the violations it finds.    *)

Unless(condition, violation) == IF condition THEN {} ELSE {violation}

NodeViolations(s) ==
  Unless(s.node = Profile.node, "NodeMismatch")
  \cup Unless(s.architecture = Profile.architecture, "ArchitectureMismatch")
  \cup Unless(s.substrate = Profile.substrate, "SubstrateMismatch")
  \cup Unless(s.enrolled, "NotEnrolled")
  \cup Unless(s.trusted, "NotTrusted")
  \cup Unless(s.storageOk, "StorageHealthNotConfirmed")
  \cup Unless(s.freeSpace >= Profile.minFreeSpace, "InsufficientFreeSpace")

LiveTestViolations(s) ==
  Unless(Profile.allowTest, "TestActivationDisabled")
  \cup Unless(Profile.needsPower => s.externalPower, "ExternalPowerRequired")
  \cup Unless(Profile.needsConsole => s.consoleConfirmed, "LocalConsoleRecoveryNotConfirmed")
  \cup Unless(Profile.needsRollback => s.bootGenerationKnown, "CurrentBootGenerationUnknown")
  \cup Unless(Profile.needsRollback => s.rollbackKnown, "RollbackReferenceMissing")

Violations(action, s) ==
  NodeViolations(s) \cup
    CASE action = PreviewActivation -> Unless(Profile.allowPreview, "PreviewActivationDisabled")
      [] action = TestActivation    -> LiveTestViolations(s)
      [] OTHER                      -> {}

Ready(action, s) == Violations(action, s) = {}

-----------------------------------------------------------------------------
(* SystemOperationAuthorization::validate_for.                              *)

\* What a receipt must not leave blank.
ReceiptTexts == {"granted_by", "reason"}

\* Mutant: the receipt is not tied to the snapshot it was reviewed with.
AuthorizesAnySnapshot(a, o, s, t) ==
  /\ a.operation = o.id /\ a.candidate = o.candidate /\ a.systemSpec = o.systemSpec
  /\ a.node = s.node
  /\ a.action = o.action /\ a.authority = o.authority
  /\ o.authority = "HostAdministrator"
  /\ a.filled = ReceiptTexts
  /\ a.readinessAt <= a.grantedAt
  /\ a.grantedAt < a.expiresAt
  /\ a.grantedAt <= t /\ t < a.expiresAt

Authorizes(a, o, s, t) ==
  /\ a.operation = o.id /\ a.candidate = o.candidate /\ a.systemSpec = o.systemSpec
  /\ a.node = s.node
  /\ a.readinessAt = s.observedAt
  /\ a.action = o.action /\ a.authority = o.authority
  /\ o.authority = "HostAdministrator"
  /\ a.filled = ReceiptTexts
  /\ a.readinessAt <= a.grantedAt
  /\ a.grantedAt < a.expiresAt
  /\ a.grantedAt <= t /\ t < a.expiresAt

-----------------------------------------------------------------------------
(* ImmutableNixOsActivationPlanner::plan.                                   *)

\* Mutant: the operation is taken to have the effect class of its action.
PlannableWithAnyEffect(o, m) ==
  /\ o.authority  = RequiredAuthority(o.action)
  /\ m.closure    \in StoreClosure
  /\ o.candidate  = m.candidate
  /\ o.systemSpec = m.systemSpec
  /\ o.action     \in SupportedActions

Plannable(o, m) ==
  /\ FollowsPolicy(o)
  /\ m.closure    \in StoreClosure
  /\ o.candidate  = m.candidate
  /\ o.systemSpec = m.systemSpec
  /\ o.action     \in SupportedActions

PlanFor(o, m) ==
  [operation |-> o.id, candidate |-> o.candidate, systemSpec |-> o.systemSpec,
   materialization |-> m.operation, closure |-> m.closure,
   action |-> o.action, effect |-> o.effect, authority |-> o.authority,
   program |-> SwitchProgram(m.closure), args |-> <<ExpectedArgument(o.action)>>]

\* The value prepare returns; the evidence lines repeat what was checked.
RequestFor(o, m, s, a, t) ==
  [node                  |-> s.node,
   authorization         |-> a.id,
   readinessAt           |-> s.observedAt,
   preparedAt            |-> t,
   expiresAt             |-> a.expiresAt,
   plan                  |-> PlanFor(o, m),
   readinessEvidence     |-> [node |-> s.node, observedAt |-> s.observedAt],
   authorizationEvidence |-> [authorization |-> a.id, expiresAt |-> a.expiresAt]]

-----------------------------------------------------------------------------
GateInit ==
  /\ now       = 0
  /\ snapshots = {}
  /\ receipts  = {}
  /\ call      = [c \in Callers |-> NoCall]
  /\ consumed  = {}
  /\ prepared  = {}
  /\ handedOut = [id \in ReceiptIds |-> 0]
  /\ restarts  = 0

Snapshot(condition) ==
  [node |-> condition.node, architecture |-> condition.architecture,
   substrate |-> condition.substrate, enrolled |-> condition.enrolled,
   trusted |-> condition.trusted, storageOk |-> condition.storageOk,
   freeSpace |-> condition.freeSpace, externalPower |-> condition.externalPower,
   consoleConfirmed |-> condition.consoleConfirmed,
   bootGenerationKnown |-> condition.bootGenerationKnown,
   rollbackKnown |-> condition.rollbackKnown, observedAt |-> now]

\* A caller takes a new snapshot of the node; older ones do not go away.
Probe(condition) ==
  /\ Cardinality(snapshots) < MaxSnapshots
  /\ snapshots' = snapshots \cup {Snapshot(condition)}
  /\ UNCHANGED <<now, receipts, call, consumed, prepared, handedOut, restarts>>

\* A user grants a receipt for an operation and the snapshot reviewed for it.
Grant(id, o, s, filled) ==
  /\ Cardinality(receipts) < MaxReceipts
  /\ receipts' = receipts \cup
       {[id |-> id, operation |-> o.id, candidate |-> o.candidate,
         systemSpec |-> o.systemSpec, node |-> s.node, action |-> o.action,
         authority |-> o.authority, readinessAt |-> s.observedAt,
         filled |-> filled, grantedAt |-> now, expiresAt |-> now + Validity]}
  /\ UNCHANGED <<now, snapshots, call, consumed, prepared, handedOut, restarts>>

\* prepare up to the ledger: a call that fails a check has no effect at all.
PassChecks(c, o, m, s, a) ==
  /\ call[c] = NoCall
  /\ Ready(o.action, s)
  /\ Authorizes(a, o, s, now)
  /\ Plannable(o, m)
  /\ call' = [call EXCEPT ![c] = RequestFor(o, m, s, a, now)]
  /\ UNCHANGED <<now, snapshots, receipts, consumed, prepared, handedOut, restarts>>

\* Mutant: the ledger is asked, but the receipt is not inserted.
ConsumeForNow(c) ==
  /\ call[c] # NoCall
  /\ call[c].authorization \notin consumed
  /\ prepared'  = prepared \cup {call[c]}
  /\ handedOut' = [handedOut EXCEPT ![call[c].authorization] = IF @ < 2 THEN @ + 1 ELSE 2]
  /\ call'      = [call EXCEPT ![c] = NoCall]
  /\ UNCHANGED <<now, snapshots, receipts, consumed, restarts>>

\* consume_once holds the mutex, and prepare returns the request.
ConsumeOnce(c) ==
  /\ call[c] # NoCall
  /\ call[c].authorization \notin consumed
  /\ consumed'  = consumed \cup {call[c].authorization}
  /\ prepared'  = prepared \cup {call[c]}
  /\ handedOut' = [handedOut EXCEPT ![call[c].authorization] = IF @ < 2 THEN @ + 1 ELSE 2]
  /\ call'      = [call EXCEPT ![c] = NoCall]
  /\ UNCHANGED <<now, snapshots, receipts, restarts>>

ReceiptConsumed(c) ==
  /\ call[c] # NoCall
  /\ call[c].authorization \in consumed
  /\ call' = [call EXCEPT ![c] = NoCall]
  /\ UNCHANGED <<now, snapshots, receipts, consumed, prepared, handedOut, restarts>>

Tick ==
  /\ now < MaxTime
  /\ now' = now + 1
  /\ UNCHANGED <<snapshots, receipts, call, consumed, prepared, handedOut, restarts>>

\* The ledger is in memory: a restart forgets it, and every call under way.
RestartGate ==
  /\ restarts < MaxRestarts
  /\ restarts'  = restarts + 1
  /\ consumed'  = {}
  /\ call'      = [c \in Callers |-> NoCall]
  /\ handedOut' = [id \in ReceiptIds |-> 0]
  /\ UNCHANGED <<now, snapshots, receipts, prepared>>

\* Everything but the probe, of which this module only knows the outcome.
AfterProbes ==
  \/ \E id \in ReceiptIds, o \in Operations, s \in snapshots,
        filled \in SUBSET ReceiptTexts : Grant(id, o, s, filled)
  \/ \E c \in Callers, o \in Operations, m \in Candidates, s \in snapshots, a \in receipts :
       PassChecks(c, o, m, s, a)
  \/ \E c \in Callers : ConsumeOnce(c) \/ ReceiptConsumed(c)
  \/ Tick
  \/ RestartGate

GateNext ==
  \/ \E condition \in Conditions : Probe(condition)
  \/ AfterProbes

GateSpec == GateInit /\ [][GateNext]_gateVars

-----------------------------------------------------------------------------
(* Properties.                                                              *)

\* One process of the gate hands out a receipt once, however many threads
\* passed the checks with it and however many receipts share its identity
\* (consume_once under the mutex).
OncePerProcess == \A id \in ReceiptIds : handedOut[id] <= 1

\* A receipt and a snapshot on which p was granted by a named principal for a
\* reason, for its operation and action, on a node that was ready for it, in the
\* order snapshot, grant, preparation, expiry.
Reviewed(p) ==
  \E a \in receipts, s \in snapshots :
    /\ a.id = p.authorization /\ a.filled = ReceiptTexts
    /\ a.operation = p.plan.operation /\ a.action = p.plan.action
    /\ a.candidate = p.plan.candidate /\ a.systemSpec = p.plan.systemSpec
    /\ a.node = p.node /\ s.node = p.node
    /\ a.readinessAt = p.readinessAt /\ s.observedAt = p.readinessAt
    /\ Ready(p.plan.action, s)
    /\ s.observedAt <= a.grantedAt /\ a.grantedAt <= p.preparedAt
    /\ p.preparedAt < p.expiresAt /\ p.expiresAt = a.expiresAt

\* Everything that was handed out had been reviewed, although what was reviewed
\* and what is prepared meet only as values that the caller brings along (the
\* three validations of prepare together).
BoundToReview == \A p \in prepared : Reviewed(p)

Acceptable(p) ==
  (p.node = LocalNode /\ FreshReadiness(p, p.preparedAt)) => ValidatePrepared(p, p.preparedAt)

\* The root side accepts, at the time of preparation, what the gate prepared
\* for its node, unless the readiness snapshot was too old for it: the gate
\* does not look at the age (prepare against validate_prepared).
RootAcceptsPrepared == \A p \in prepared : Acceptable(p)

-----------------------------------------------------------------------------
(* The inductive invariant behind the three.                                *)

\* Times are numbers.
GateTimes ==
  /\ now \in Nat
  /\ \A s \in snapshots : s.observedAt \in Nat
  /\ \A a \in receipts : a.readinessAt \in Nat /\ a.grantedAt \in Nat /\ a.expiresAt \in Nat

\* What waits for the ledger is acceptable and was reviewed, and the ledger
\* holds exactly what the running process handed out.
GateInv ==
  /\ GateTimes
  /\ \A c \in Callers : call[c] # NoCall => Acceptable(call[c]) /\ Reviewed(call[c])
  /\ RootAcceptsPrepared
  /\ BoundToReview
  /\ handedOut = [id \in ReceiptIds |-> IF id \in consumed THEN 1 ELSE 0]
=============================================================================
