------------------------- MODULE PreparedActivation -------------------------
(***************************************************************************)
(* The request an unprivileged gate hands to the root side, the checks the *)
(* privileged helper makes on it, and the permit text derived from it.     *)
(*                                                                         *)
(* The gate, the permit issuer and the root boundary all work on one       *)
(* PreparedPrivilegedActivation value.  It is data: nothing in this module *)
(* has state.  Times are milliseconds in the code and small numbers here.  *)
(***************************************************************************)
EXTENDS Integers, OperationPolicy

CONSTANTS
  LocalNode,        \* the node the root side was configured for
  StoreClosure,     \* paths of the form /nix/store/<entry>
  MaxPreparedAge,   \* policy.max_prepared_age_ms
  MaxReadinessAge   \* policy.max_readiness_age_ms

ASSUME AgeAssumption ==
  /\ MaxPreparedAge  \in Nat
  /\ MaxReadinessAge \in Nat

-----------------------------------------------------------------------------
(* The two actions the helper accepts, and what each one has to look like.  *)

SupportedActions == {PreviewActivation, TestActivation}

ExpectedEffect(action) ==
  IF action = PreviewActivation THEN "PreviewHooks" ELSE "TemporaryLiveActivation"

ExpectedArgument(action) ==
  IF action = PreviewActivation THEN "dry-activate" ELSE "test"

\* <closure>/bin/switch-to-configuration: a path is its closure and a file in it.
SwitchProgram(closure) == <<closure, "switch-to-configuration">>

-----------------------------------------------------------------------------
(* validate_prepared, one conjunct per early return, in the code's order.   *)

TimestampsInOrder(p, now) ==
  /\ p.readinessAt <= p.preparedAt
  /\ p.preparedAt  <= now
  /\ p.preparedAt  <  p.expiresAt

FreshPreparation(p, now) == now - p.preparedAt  <= MaxPreparedAge
FreshReadiness(p, now)   == now - p.readinessAt <= MaxReadinessAge
NotExpired(p, now)       == now < p.expiresAt

CanonicalPlan(plan) ==
  /\ plan.action    \in SupportedActions
  /\ plan.authority = "HostAdministrator"
  /\ plan.effect    = ExpectedEffect(plan.action)
  /\ plan.closure   \in StoreClosure
  /\ plan.program   = SwitchProgram(plan.closure)
  /\ plan.args      = <<ExpectedArgument(plan.action)>>

\* The evidence lines the helper looks for carry the fields they describe.
EvidenceMatches(p) ==
  /\ p.authorizationEvidence.authorization = p.authorization
  /\ p.authorizationEvidence.expiresAt     = p.expiresAt
  /\ p.readinessEvidence.node              = p.node
  /\ p.readinessEvidence.observedAt        = p.readinessAt

\* Mutant: the freshness of the preparation is not checked.
ValidateStalePrepared(p, now) ==
  /\ p.node = LocalNode
  /\ TimestampsInOrder(p, now)
  /\ FreshReadiness(p, now)
  /\ NotExpired(p, now)
  /\ CanonicalPlan(p.plan)
  /\ EvidenceMatches(p)

ValidatePrepared(p, now) ==
  /\ p.node = LocalNode
  /\ TimestampsInOrder(p, now)
  /\ FreshPreparation(p, now)
  /\ FreshReadiness(p, now)
  /\ NotExpired(p, now)
  /\ CanonicalPlan(p.plan)
  /\ EvidenceMatches(p)

-----------------------------------------------------------------------------
(* TrustedActivationPermit::from_prepared(p).canonical_text().  The text is *)
(* versioned and every string in it is hex encoded, so two permits have the *)
(* same text exactly when they have the same fields: the record is the text.*)
(* The evidence lines are not part of it.                                   *)

PermitText(p) ==
  [authorization |-> p.authorization,
   node          |-> p.node,
   plan          |-> p.plan,
   readinessAt   |-> p.readinessAt,
   preparedAt    |-> p.preparedAt,
   expiresAt     |-> p.expiresAt]
=============================================================================
