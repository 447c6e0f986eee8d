---------------------------- MODULE MCActivation ----------------------------
(* Small requests for model checking ActivationSystem.                      *)
EXTENDS ActivationInvariants, TLC

MCStoreClosure == {"base", "c1", "c2"}

\* The request PrivilegedActivationGate builds from consistent inputs.
MCRequest(auth, action, closure, preparedAt, expiresAt) ==
  [node        |-> "pilot",
   authorization |-> auth,
   readinessAt |-> 0,
   preparedAt  |-> preparedAt,
   expiresAt   |-> expiresAt,
   plan |->
     [operation |-> auth, candidate |-> closure, systemSpec |-> "spec",
      materialization |-> closure, closure |-> closure,
      action |-> action, authority |-> "HostAdministrator",
      effect |-> ExpectedEffect(action),
      program |-> SwitchProgram(closure),
      args |-> <<ExpectedArgument(action)>>],
   authorizationEvidence |-> [authorization |-> auth, expiresAt |-> expiresAt],
   readinessEvidence |-> [node |-> "pilot", observedAt |-> 0]]

\* test:   tests c1 under authorization a1; too old to present before it expires
\* again:  the same plan and authorization prepared later; expires while fresh
\* other:  the authorization and times of test with another closure in the plan
\* preview, testTwo: a second authorization
MCPrepared ==
  [test    |-> MCRequest("a1", TestActivation,    "c1", 0, 3),
   again   |-> MCRequest("a1", TestActivation,    "c1", 1, 2),
   other   |-> MCRequest("a1", TestActivation,    "c2", 0, 3),
   preview |-> MCRequest("a2", PreviewActivation, "c2", 0, 3),
   testTwo |-> MCRequest("a2", TestActivation,    "c2", 0, 3)]

MCSymmetry == Permutations(Helpers)

\* What a run that asks nothing of results may leave out of a state: no step
\* reads result and reported, except to change them.
MCWithoutReports ==
  <<clock, entry, onDisk, text, flushed, removed,
    issuerPc, asked, askedAt, created, grants, approvals,
    pc, req, at, before, succeeded, ledgerVars, current, historyVars, reboots>>
=============================================================================
