-------------------------- MODULE OperationPolicy --------------------------
(***************************************************************************)
(* What a system candidate operation may be: its action decides which      *)
(* effect it has on the machine and whose authority it needs.  The command *)
(* planner, the executor, the immutable planner and the gate all compare   *)
(* operations with this policy of blob-core.                               *)
(***************************************************************************)

Materialize       == "Materialize"
BuildIsolatedVm   == "BuildIsolatedVm"
PreviewActivation == "PreviewActivation"
TestActivation    == "TestActivation"
Actions == {Materialize, BuildIsolatedVm, PreviewActivation, TestActivation}

\* action_policy, the effect class and the authority class apart.
RequiredEffect(action) ==
  CASE action = PreviewActivation -> "PreviewHooks"
    [] action = TestActivation    -> "TemporaryLiveActivation"
    [] OTHER                      -> "MaterializationOnly"

RequiredAuthority(action) ==
  IF action \in {PreviewActivation, TestActivation} THEN "HostAdministrator" ELSE "User"

\* SystemCandidateOperation::new, which the fields of the value may leave again.
NewOperation(id, candidate, systemSpec, action) ==
  [id |-> id, candidate |-> candidate, systemSpec |-> systemSpec, action |-> action,
   effect |-> RequiredEffect(action), authority |-> RequiredAuthority(action)]

\* validate_policy: the public fields still say what the action requires.
FollowsPolicy(o) ==
  /\ o.effect    = RequiredEffect(o.action)
  /\ o.authority = RequiredAuthority(o.action)
=============================================================================
