------------------------------ MODULE MCPilot ------------------------------
(* Small operations, candidates and confirmations for PilotPreflight.       *)
EXTENDS PilotPreflight, TLC

MCStoreClosure == {"base", "c1"}

Posing(o) == [o EXCEPT !.effect = "PreviewHooks"]

\* A test as policy wants it, and one that claims to be a preview.
MCOperations ==
  {NewOperation("test", "k1", "spec", TestActivation),
   Posing(NewOperation("posing", "k1", "spec", TestActivation))}

\* The candidate of the operations, another one, and a path outside the store.
MCCandidates ==
  {[candidate |-> k, systemSpec |-> "spec", operation |-> "build", closure |-> closure] :
     k \in {"k1", "k2"}, closure \in {"c1", "tmp"}}

\* Everything a probe may conclude of the node.
MCConditions ==
  {[node |-> "pilot", architecture |-> "X86_64", substrate |-> "NixOs",
    enrolled |-> TRUE, trusted |-> TRUE, storageOk |-> TRUE, freeSpace |-> space,
    externalPower |-> power, consoleConfirmed |-> TRUE,
    bootGenerationKnown |-> known, rollbackKnown |-> known] :
     space \in 0 .. 1, power \in BOOLEAN, known \in BOOLEAN}

\* The user did not look at the charger, or did.
MCConfirmations ==
  {[enrolled |-> TRUE, trusted |-> TRUE, storageOk |-> TRUE, console |-> TRUE,
    powerOverride |-> override] : override \in {Unknown, TRUE}}

MCProfile ==
  [node |-> "pilot", architecture |-> "X86_64", substrate |-> "NixOs",
   minFreeSpace |-> 1, allowPreview |-> TRUE, allowTest |-> TRUE,
   needsPower |-> TRUE, needsConsole |-> TRUE, needsRollback |-> TRUE]

MCSymmetry == Permutations(Callers)

\* After the last snapshot nobody looks at the host any more, and of the texts of
\* a receipt nobody asks but whether all are filled in.
MCView ==
  <<now, snapshots, call, consumed, prepared, handedOut, restarts, probing, taken,
    {[a EXCEPT !.filled = (@ = ReceiptTexts)] : a \in receipts},
    IF Cardinality(snapshots) < MaxSnapshots THEN <<host, hostChanges>> ELSE <<>>>>
=============================================================================
