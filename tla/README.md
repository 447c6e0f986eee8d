# A verification project for The Blob

TLA+ modules, TLC configurations and TLAPS proofs for The Blob: the path from a
system specification to a command that root runs on a live NixOS host, and the
development slice from an event to a test that was run. Sources are named
relative to the repository.

## 1. The system

The Blob is a set of Rust library crates. None of them has a main loop; state
is kept by the caller, in two directories owned by root, and by the host.

### 1.1 Components

| Component | State | Operations |
|---|---|---|
| `crates/blob-core` | none: data types and validations | `SystemOperationAuthorization::validate_for`, `PhysicalTestNodeProfile::validate_readiness`, `SystemCandidateOperation::validate_policy`, `SystemSpec::validate` |
| `crates/blob-node-probe` | none: reads `/sys`, `df`, the boot profile | `observe_current_host`, `to_readiness` |
| `backends/blob-nix-nixos` | none | `translate`, `plan_operation`: from a candidate and an action to a command |
| `crates/blob-system-executor` | none: runs `nix build` without privileges | `execute`, `causal_record` |
| `backends/blob-nix-nixos-activation` | none | `from_operation_result`, `plan` |
| `crates/blob-system-activation-gate` | in-memory ledger of used receipts | `prepare`, `consume_once` |
| `backends/blob-nix-nixos-authority` | the permit directory (shared); grants are values | `check_user_initiated` (polkit), `issue` |
| `backends/blob-nix-nixos-root-boundary` | the permit directory | `consume_matching`, `execute` |
| `backends/blob-nix-nixos-privileged-helper` | the execution ledger directory; `/run/current-system` | `validate_prepared`, `consume_once`, `execute`, `restore_baseline` |
| `crates/blob-resolver` | none | `resolve_single_capability`, `BindingVerifier::verify` |
| `crates/blob-alfred` | identities of the events seen | `ingest`, correlation rules |
| `crates/blob-history` | causal log and its index | `append`, `get` |
| `crates/blob-mvp` | one vertical slice: task state, history | `run_source_change_test` |
| `crates/blob-executor` | none: runs a process | `execute` |
| `crates/blob-technician` | none | `diagnose_failed_test`, `explain_system_change`, `explain_physical_node_preflight` |
| `runtimes/blob-wasm-wasmtime` | a Wasmtime store per run | run a capsule with explicit grants |
| `renderers/blob-surface-slint` | a window | drawing |

### 1.2 How the privileged path interacts

    probe -> snapshot --+
    user  -> receipt ---+-> gate.prepare -> PreparedPrivilegedActivation
    build -> candidate -+                     |               |
                                              v               v
                          polkit <- check_user_initiated   boundary.execute
                                          | grant             |  consume_matching
                                          v                   |  (compare, unlink, fsync)
                                        issue --> permit file-+
                                     (create, write, fsync)   v
                                                           helper.execute
                                              live = boot default? -> receipt in the
                                              ledger -> switch-to-configuration ->
                                              look at the effect -> maybe roll back

The gate has no privileges and forgets its ledger when it restarts. The root
side trusts nothing of it: it validates the request again, wants a permit file
with the exact text of the request, and keeps a ledger of its own. The issuer
and the boundary meet only in the permit directory and on the wall clock; two
invocations of the boundary meet there, in the ledger, and on the host.

### 1.3 What is hard, and what makes each component correct

* **Races.** Helpers are separate processes without a common lock; the file
  system's `create_new` and `unlink` are the only synchronisation. Correct: one
  authorization starts one command at most.
* **Crashes.** Any process may be killed between two system calls, and the host
  may lose power with names or contents not yet synced. Correct: what was
  consumed stays consumed, what was reported as issued is there.
* **Values that outlive their check.** A grant, the caller's reading of the
  clock, the baseline of the host, a readiness snapshot. Correct: whatever runs
  was approved under its exact text while the request was in time.
* **A command that fails half-way.** Correct: what `execute` reports about the
  live system is so.
* **Validations spread over crates.** Correct: what the gate prepares is what
  was reviewed, and the root side agrees with it.
* **Values with public fields.** A plan may be changed between the planner and
  the executor, a result and a candidate meet only by their identities. Correct:
  whatever is done to a plan, a candidate's closure was printed by a build of
  the system, and an explanation says what was run. The identities of a changed
  plan are passed on as they are: the result is the executed plan's.
* **Readings of a host that changes.** The probe reads it piece by piece, and
  any reading may fail. Correct: a live test rests on conditions that held at
  some moment of that probe, and what is unknown counts as unsafe. That they
  held all at one moment is promised nowhere.
* **Identities that recur.** Registries are lists, and events are delivered
  again. Correct: what runs is what was verified; the first event decides.
* **Errors of a pipeline.** The slice gives its history away only on success, and
  the executor reports an error after the start of the test like one before it.
  Correct: that error apart, the call that ran a test returns it, with records
  that lead back to the event.

`PROJECT.json` lists every hazard at its line with the properties about it.

### 1.4 How the rest interacts

    SystemSpec -> translate -> the text of a NixOS module
    operation  -> plan_operation -> plan -> executor.execute -> result
                                                                  |     |
                 candidate <- from_operation_result <-------------+     |
                     |                       causal_record -> log <-----+
                     v                                         |
           planner.plan (section 1.2)        explain_system_change

    event -> Alfred -> situation -> task, graph -> resolver -> plan, lease
                                                                 |
        outcome with its records <- log <- exit status <- process executor

All of these are values handed from one library to the next by one caller; what
is shared between calls is only what a caller keeps: a correlator, a log.

## 2. The modules

| Module | Models | State and actions |
|---|---|---|
| `OperationPolicy` | `action_policy`, `SystemCandidateOperation` | no state |
| `PreparedActivation` | `validate_prepared`, `TrustedActivationPermit` | no state; the checks as one operator per early return, the permit text as the record of its fields |
| `PermitDirectory` | `std::fs` on the permit directory, the clock | `entry` (cached names), `onDisk` (what a name may be after a power loss), `text`, `flushed`; operators for create-new, write, fsync, unlink, directory fsync and power loss |
| `PermitIssuer` | `blob-nix-nixos-authority` | one program counter per issuer; polkit check, then `issue` system call by system call, with cleanup, errors and kills |
| `RootBoundary` | `blob-nix-nixos-root-boundary`, `blob-nix-nixos-privileged-helper` | one program counter per helper; permit, host check, ledger, command, postcondition, rollback, errors, kills, orphaned commands |
| `ActivationSystem` | the three together, clock and power | composition, properties, refinement mapping |
| `SingleUseAuthority` | the promise of the root side | an approved authorization is spent, then starts one command at most |
| `ActivationInvariants` | | the inductive invariants of `ActivationSystem` |
| `ActivationGate` | `blob-system-activation-gate`, validations of `blob-core`, `plan` | snapshots and receipts that never go away, calls in two steps (checks, ledger), restarts |
| `PilotPreflight` | `blob-node-probe` in front of the gate, `explain_physical_node_preflight` | the host, what each probe has read so far and what the host has been since it began, and the gate's state; power, space and the rest are read in steps |
| `NixTranslation` | `SystemSpec::validate`, `translate` | no state; the module as the sequence of its options |
| `SystemMaterialization` | `plan_operation`, `blob-system-executor`, `from_operation_result`, `explain_system_change` | the plan at hand, the commands that were run, candidates, a log |
| `CausalHistory` | `InMemoryCausalLog` | a log as a value; `Appendable` and `Appended` |
| `GrowingHistory` | the promise of a history | records are only added, after their causes |
| `CapabilityResolver` | `blob-resolver` | no state; selection and verification, and a reference definition of the best pair |
| `EventCorrelation` | `blob-alfred` | a correlator as the set of identities it has seen; the two rules |
| `DevelopmentSlice` | `blob-mvp`, `blob-executor`, `diagnose_failed_test` | the locals of each call, step by step; a correlator that lives on |
| `*Proofs` | | theorems, see section 4 |
| `MCActivation`, `MCPilot`, `MCMaterialization`, `MCSlice` | | values of the constants for TLC |

### Correspondence with the code

* A **step** is a system call, or several that no other process can tell apart.
  The pc of a helper names its next call; `Returns` is the end of `execute`
  with one of the groups of results described at `Results`.
* **`Begin`** evaluates `validate_prepared` with the clock the caller read and
  keeps that time in `at`. The second validation in `helper.execute` gets the
  same time and request, so it cannot fail and is part of `SyncPermits`.
* **Files** are numbers, so a permit that is issued again under the name of an
  old one can be told from it. `Unlink` removes whatever has the name now, as
  `remove_file` does.
* **fsync.** A write, a new name or a removal may or may not survive a power
  loss until it is synced; a file that was not flushed may be torn. A kill of a
  process loses nothing. In the ledger the content of a receipt does not
  matter, only its existence, so its two fsyncs are one step: until both are
  done a power loss may take the receipt, after them it cannot.
* **switch-to-configuration** makes its own closure live or gives up before it
  does, and exits with success or failure in both cases: the code that decides
  what to do next sees exactly these four outcomes. A `dry-activate` that makes
  its closure live is the case `UnexpectedLiveSystemChange` is there for.
* **`Abandon`**: the helper is killed while its command runs, or
  `Command::output()` fails after the start (it cannot read from the command or
  wait for it) and that error is returned. Either way the command goes on and
  has its effect, and nothing is restored after it. `FinishOrphan` is its end;
  until then its helper takes no other call in the model.
* **`CallFails`** is any I/O error that returns at once (reading the directory,
  the metadata, the host, or a command that cannot be started), at every step
  where the code has one.
* **Permit text.** `canonical_text` is versioned and hex encodes every string;
  the record of the fields is equal exactly when the texts are. The evidence
  lines are not in it, and `validate_prepared` compares them with the fields.
* **The gate** gets whatever snapshot and receipt its caller passes, so the
  model keeps all that were ever made. A call that fails a check has no effect
  and is not a step. The mutex makes `consume_once` one step. Of the two texts of
  a receipt, who granted it and why, the model keeps whether they are filled in.
* **The probe.** A reading that fails is `Unknown`, and `to_readiness` puts
  `false`, zero or nothing in its place. `PowerReadings` are the outcomes of
  `probe_external_power` for the supplies that are there: each type file in
  `UnreadableTypes` may fail to be read, and then counts as the empty text; an
  online file that fails counts as 0. The readings say nothing of the host but
  what was read; what it was while the probe ran is kept apart (`during`), as
  `HostChanges` changes it, and the properties compare the two. The gate's
  `Probe` is the last step of a probe, so every state of `PilotPreflight` is one
  of the gate, by construction.
* **A system specification** keeps what `validate` and `translate` look at. The
  generated text is the sequence of its options with their values. The sort by
  name is `InNameOrder`: each selection stands at the place that the number of
  selections before it says, which is stable as `sort_by` is.
* **A command** is its program, its words, and the attribute that the last
  argument selects. `validate_non_privileged_plan` compares all three with the
  action of the plan. That the path in the selector is the target's is not
  looked at by the code, and not by the model.
* **`AlterPlan`** sets one public field of a plan (an identity, the action, the
  effect class, the authority, the program, an argument) to any of the values
  the planner gives it for some operation, or the words to other ones. A target
  that the planner refuses can be put in as well. The fields of a result are
  public, too, but only handed on: the model changes none.
* **The output of a command** is a sequence of lines, of which those that begin
  with the store prefix are paths. A run that could not be spawned has no
  result, nor has one whose output could not be collected.
* **A call of the slice** is one thread; its steps are those after which it may
  return. `Command::output()` is two: `Start`, and `Finish` with the exit status
  or `OutputLost`, which ends the call with the same error as a command that did
  not start (`ExecutionError`). `Advance` is `append` followed by `?`: a refusal ends the call. A
  `working_directory` and the output of the test are passed on unread.
* **Registries** are pairs of lists in which identities may recur, so a pair of
  an implementation and a node is a pair of positions.
  `candidate_rejection_reasons` is empty exactly when `Acceptable` holds;
  `compare_candidates` is the lexicographic order of `Rank`, and what it calls
  equal stays in the order of the loops (`Before`); the first of the sorted
  pairs is the one before all others (`First`); `find` is the first entry with
  the identity.
* **Wording** (titles, summaries, traces) is left out: of an explanation the
  models keep when it is given, and what it concludes.
* **History variables** (`approvals`, `reported`, `removed`, `spent`, `runs`,
  `prepared`, `handedOut`, `taken`, `ran`, `outcomes`, `delivered`) are read by
  properties, refinements and bounds only. The `runs` of `RootBoundary` and
  `handedOut` count to 2, which is one more than ever allowed.

### What polkit, the clock and the host may do

Polkit approves or refuses any request at any time after it was asked. The
clock jumps to any value, forwards or backwards, between any two steps. The
host reboots at any time into its boot default. Nothing in the sources changes
the boot-default profile, so it is a constant. While a probe reads the host, anyone
may pull the charger or fill the store.

## 3. The runs

| Run | Instance | Asks |
|---|---|---|
| `Concurrent` | 2 helpers, two requests with one authorization | `AtMostOneRun`, `RunsWereApproved`, `ImplementsAuthority`, `StartsUseUpPermit` |
| `Crash` | 2 helpers, a permit issued twice, 1 power loss | `TypeOK`, `IssuedPermitSurvives`, `AtMostOneRun`, `ReceiptBeforeRun`, `ConsumedStaysConsumed`, `LedgerInv` |
| `Clock` | a request and its later preparation, the clock moves | `RunsWereApproved`, `ApprovalInv` |
| `Progress` | 1 fair helper, a test and a preview | `InvocationsReturn`, `NoStackedActivation`, `ReportsTruth` |
| `Pilot` | 1 probe on a changing host, 2 threads of the gate, 2 snapshots, 1 restart | `OncePerProcess`, `BoundToReview`, `RootAcceptsPrepared`, `PowerIsKnown`, `TestedNodeWasFit` |
| `Pipeline` | 2 specifications, operations for 2 candidates, 2 changes to a plan, 2 builds, 2 records | `OneModulePerSelection`, `PlannerAndExecutorAgree`, `CandidatesWereBuilt`, `NotesAreTrue`, `LogWellFormed`, `ImplementsHistory` |
| `Slice` | 2 calls on any of 5 events and 6 registries, 2 deliveries | `RunsAreAccountedFor`, `RunsAreVerified`, `BestIsBound`, `FirstEventDecides`, `DiagnosedTaskRan`, `RunnableIsBound` |

`AtMostOneRun` is asked twice because two different mechanisms keep it: the
create-new of the ledger among racing helpers, and its fsync across a crash.
Likewise `RunsWereApproved` rests on the comparison of the permit in
`Concurrent`, and on the times of the grant in `Clock`. `InvocationsReturn` is
asked of one helper, whose permit an issuer may take away; that two helpers which
take the file or the receipt from each other return as well is not checked.
`BestIsBound` compares a
registry with the one whose lists are reversed, and with no other order of them.

`NoStackedActivation` and `ReportsTruth` hold for one helper at a time and not
for two; `Progress` and `Stacked` show the two sides. A command whose helper was
killed, or lost sight of it, still occupies that helper in the model, so an
invocation that begins while such a command runs is an instance with two
helpers. In the same way
`PowerIsKnown` holds where some supply tells its type (`Pilot`), and
`UnknownPower` shows the other side.

Five more runs show where the program does less than its documents say; each
is a finding in `PROJECT.json`:

| Run | The documents | The program |
|---|---|---|
| `Stacked` | ADR 0027: stacked temporary activations are rejected | two helpers read the baseline before either starts its command |
| `Reissued` | ADR 0028: a mismatched request does not destroy the real permit | the permit is compared, then removed by path |
| `Unrestored` | ADR 0027: a failed test activation is rolled back | an error reading the host after the command comes first |
| `UnknownPower` | node probe: unknown is not silently converted into safe | a supply whose type cannot be read is not seen, and without a battery the machine counts as externally powered |
| `Replayed` | event contract: replayed delivery must not silently create duplicate semantic events | each call of the slice makes a correlator of its own |

Three further observations are no findings. The time a helper validates with is
the one its caller read before the permit was consumed, so a command may start
after its request expired; no document says at which step expiry is looked at. A
test that was started is lost, with the history of its call, when the executor
cannot collect its output (`OutputLost`); no document promises it to anybody.
ADR 0026 says that a fresh probe invalidates an authorization for the previous
snapshot: the gate refuses such a receipt with the fresh snapshot (`BoundToReview`),
and accepts it with the older one, if that is what its caller passes.

### Bounds, and why they are enough

* **Two helpers**: the races are between a helper and whoever removes, creates
  or switches between two of its steps; one other helper, called as often as
  it likes, does each of these.
* **One issuer** that works on any request in any order. Two issuers at work on
  one authorization are left to a later run; the proofs hold for any number.
* **Two requests** that share everything but the closure (`test`, `other`), or
  everything but the times (`test`, `again`), or nothing (`test`, `preview`):
  the three ways in which one request could be taken for another.
* **`MaxFiles = 2`** permits in a run's life, so that a consumed permit can be
  issued once more; `MaxFiles = 1` where that is not the question.
* **`MaxReboots = 1`**: a second power loss finds nothing the first did not,
  as a reboot leaves everything on disk.
* **`MaxTime = 2`** with a validity of 1 for a preparation and a grant and of 2
  for readiness and expiry: every comparison of `validate_prepared` and `issue`
  comes out both ways. Where time is not the question the clock stands still.
* In `Pilot` the host is plugged or not and has space or not; it changes once,
  and not after the last snapshot, when nobody looks at it any more. Two
  snapshots can differ in time or in what they found, an operation can claim an
  effect that is not its own, a candidate can be another one or lie outside the
  store, and a receipt can lack its grantor or its reason. One prober is enough: probes share
  nothing, so another one only orders the snapshots differently.
* In `Pipeline` specifications are translated before the first plan: translation
  shares no state with the rest, and pairs of specifications are what
  `OneModulePerSelection` compares. A build can print one closure, a file in
  one, two paths, or a warning before the closure. Two changes to a plan are
  enough to make its action and its attribute agree again. Two records are a
  cause and its effect, an orphan, or twice the same identity.
* In `Slice` the registries are empty, have a choice, have two entries of one
  identity in either order, or a node that fails one condition; a runner can
  lack its capsule or fail to start. Two calls can be for one event, and two
  deliveries can bear one identity with different events.

`Concurrent`, `Clock` and `Stacked` use a VIEW that leaves the last result of a
helper and the set `reported` out of a state: no step of the model reads them
except to change them, and no property of these runs does.
The VIEW of `Pilot` leaves the host out after the last snapshot, when no step
reads it any more, and of the texts of a receipt keeps whether all are filled in,
which is all that is asked of them; no property of the run reads either.
The VIEW of `Pipeline` leaves `translated` out once there is a plan: only
`Translate` reads it, which is over by then, and `OneModulePerSelection`, which
was checked when it last grew. It leaves the plan at hand out once the last
command was run: then the plan is for nothing, and `PlannerAndExecutorAgree` was
checked of every plan before the first run. Helpers, threads of the gate or of the slice, and
identities of records are symmetric: nothing compares them except for equality.
`Progress`, which is about liveness, uses neither.

Deadlock is not checked: nobody has to call again, and the bounds let the
clock, the files and the power losses run out. That no call waits for ever is
`InvocationsReturn`.

### Fairness

`FairSpec` assumes weak fairness of each helper's own steps: a started process
gets CPU time, its system calls return, and `switch-to-configuration`
terminates (`runner.run` waits without a timeout, so this last point is an
assumption about the candidate, not something the code enforces). Nothing is
assumed of callers, polkit, kills, errors or power.

## 4. The proofs

All theorems hold for every value of the constants that satisfies the named
assumptions: ages and bounds are natural numbers, the times of a request are
natural numbers, the boot default is a store closure, the model values that
stand for "none" are none of the things they stand beside, the gate's
`Conditions` cover what a probe can conclude (`PilotAssumption`), a registry is
made of two lists (`RegistriesAreLists`), and the features of a specification
are a list (`SelectionsAreLists`). Three further hypotheses are stated in the
theorems that need them: `ReadableSupply`, `[]OneAtATime` and
`[]SeparateRemovals`. They are what the code would have to see to; the runs with
findings show what happens without them.

| Module | Theorem | Says |
|---|---|---|
| `ActivationSystemProofs` | `TypeCorrect` | `Spec => []TypeOK` |
| | `AlwaysLedgerInv`, `SingleUse`, `ReceiptsLast` | `LedgerInv`, and with it `AtMostOneRun` and `ReceiptBeforeRun` |
| | `AlwaysApprovalInv`, `StartsAreApproved` | `ApprovalInv`, and with it `RunsWereApproved` |
| | `SerialStartsAreUnstacked`, `SerialReportsAreTrue` | `[]OneAtATime` implies `NoStackedActivation` and `ReportsTruth` |
| `PermitProofs` | `PermitsLast`, `ConsumptionLasts` | `IssuedPermitSurvives`, `ConsumedStaysConsumed` |
| | `StartsSpendPermits` | `Spec => StartsUseUpPermit` |
| | `SeparateRemovalsMatch` | `[]SeparateRemovals` implies `PermitRemovedByItsRequest` |
| `AuthorityProofs` | `Refinement` | `Spec => ImplementsAuthority` |
| `PilotProofs` | `GateConsumesOnce`, `GateAgreesWithRoot`, `GateBindsReview` | `OncePerProcess`, `RootAcceptsPrepared`, `BoundToReview`, of the gate alone |
| | `PowerKnown`, `TestedWereFit` | `PowerIsKnown`, `TestedNodeWasFit`, both under `ReadableSupply` |
| `FiniteOrders` | | lemmas: a finite set has a first element in any total order, and the places in it are taken once each |
| `MaterializationProofs` | `ModulesAreCanonical` | `OneModulePerSelection` |
| | `CratesAgree`, `CandidatesAreBuilt`, `NotesAreRight` | `PlannerAndExecutorAgree`, `CandidatesWereBuilt`, `NotesAreTrue` |
| | `HistoryIsWellFormed`, `LogImplementsHistory` | `LogWellFormed`, `ImplementsHistory` |
| `ResolverProofs` | | lemmas: `Before` is a total order, `First` is a pair a user would want, an identity leads back to its entry |
| `SliceProofs` | `LeasesAreBest`, `RunnableGetsLease` | `BestIsBound`, `RunnableIsBound` |
| | `RunsReachTheirCallers`, `RunnersAreTrusted` | `RunsAreAccountedFor`, `RunsAreVerified` |
| | `FirstDeliveryCounts`, `DiagnosesAreOfRuns` | `FirstEventDecides`, `DiagnosedTaskRan` |

**Types.** `TypeOK` is not inductive: `FinishCandidate` makes the candidate of
a request live, which is a store closure only because `Begin` validated the
plan. `TypeInv` adds what each pc says about the locals of its process.

**Single use.** `LedgerInv` says that the helpers between winning `create_new`
and starting their command (`Armed`) hold different authorizations, none of
which has run, and that before `spawn` the receipt is on disk. `AtMostOneRun`
alone says nothing of the winner that is about to start. The permit plays no
part in it: the ledger suffices, which is why a permit that is issued twice
(see `Reissued`) does not start a second command.

**Approval.** `ApprovalInv` follows the approval from hand to hand: grants were
approvals; an issuer past its checks, a file with a complete text and a helper
past its comparison all stand for a request that polkit approved in time. The
clock may move in any way: being in time is about the moment of the check.

**One invocation at a time.** Nothing in the code keeps two invocations apart,
and `Stacked` shows what follows. `[]OneAtATime` is what a lock would provide that
is held from the look at the host to the answer, and as long as an orphaned
command runs. Under it `SerialInv` is inductive: from its check of the host to
its command, and from its check of a rollback to its answer, an invocation finds
the boot default live, because only a command makes anything else live. Permits
may be consumed meanwhile, by any number of helpers. The two theorems bound the
finding: stacked activations and untrue reports come of that overlap alone.

**Permit files.** `PermitInv` says that a file bears the name of one
authorization only, in memory and on every disk a power loss may leave, that a
consumed one bears none, and that what an issuer created is not yet reported and
keeps what the issuer did to it. Only so does the fsync of the directory, which
makes every name durable at once, say something about the issuer's own file;
and the cleanup of another issuer, which removes by name, takes a reported
permit away only by removing it.

**Permits that are used up.** A helper may remove another file than the one it
compared (`Reissued`). `ConsumptionInv` follows the compared one: until the
removal it is at its path or was removed by somebody else, then it was removed,
and with the helper's own sync it is gone for good; no issuer is about to write
into it. Hence `StartsUseUpPermit`, whatever was removed in its place.
`[]SeparateRemovals` is what a lock around `consume_matching` and `issue` would
provide, for each authorization; under it `ComparedInv` is inductive, and the
finding of `Reissued` cannot occur. One helper and one issuer are enough to
break it: the cleanup after a failed `issue` removes a permit that a helper has
compared already.

**Refinement.** Spent is what is on disk in the ledger, started is what has
run, approved is what polkit approved, live is the current closure. A start
needs the receipt on disk and no earlier start (`LedgerInv`) and an approval
(`ApprovalInv`); an effect needs a start (`StartedInv`); a restoration goes to
the boot default (`TypeInv`).

**Gate and probe.** `GateInv` says that what waits for the ledger is acceptable
to the root side already and was reviewed, and that the ledger holds exactly what
the running process handed out. `PilotInv` says that what a probe has read was so
at some moment since it began (a change of the host adds moments and takes none
away), and that every snapshot was made of such readings. A test that was
prepared had a review, because every behaviour of the pilot is one of the gate,
and the reviewed snapshot was honest. `ReadableSupply` is a hypothesis of two
theorems and no assumption: the machine must have a battery or source whose type
can be read. `UnknownPower` is what happens without it.

**Translation.** The proof of `OneModulePerSelection` is about one list: in a
valid specification no feature recurs, so `ComesBefore` is a total order of its
positions, each place is taken once (`PlacesAreTaken`), and the sorted list is a
rearrangement of the selections with rising names. Two lists of one set of
selections are therefore sorted alike, which follows without an induction over
lists: at each place stands the selection with so many smaller names.
`ModulesTranslated`, a part of `PipelineInv`, carries this to the reached states.

**Pipeline.** `PipelineInv` says that the plan at hand is the planner's own
unless it was changed, that what was run had passed the executor's checks as it
was, and that candidates and records come from such runs. Nothing is said of a
changed plan but its shape: the executor's checks decide alone.

**Slice.** `SliceInv` says what log a call has at each step, as a function of its
event and plan. `HistoryOfCall` shows that the last record is never refused in
that log, which is why the history never costs a run, although the code would
let it. What was started is in the hands of its call until the command ends; the
only way out that is not an outcome is the executor's error.
A plan that is run was verified by identity, whatever the lists hold. That the
plan is `PlanOf` of the registry at hand, and that it resolves, is part of
`SliceInv` too: `LeasesAreBest` needs the first, which makes the question one
about two lists, and `RunnableGetsLease` that the verifier agrees when identities
are unique. For both, `Before` is a total order of the valid pairs, so that the
choice exists; ranks that are equal name the same identities, so that the
reversed lists give the same lease.

**Correlator.** The situations of an identity are what the rules say of its
first delivery.

Each invariant is proved with one step for every action of the code that can
disturb it; lemmas like `OthersStep` and `OneCallMoves` cover what the steps have
in common.

**Model-checked only:** `InvocationsReturn`. It is a liveness property under
fairness, which is out of the provers' reach. What the five runs with findings
show is shown by their counterexamples; for `Stacked`, `Reissued` and
`UnknownPower` a theorem says under which hypothesis it cannot happen.

## 5. What is not modelled, and why

* The Wasmtime runtime and the Slint renderer: thin layers over libraries whose
  behaviour would have to be invented. The types for worlds, graphics and
  identifiers have no operations that change state.
* The operation that a resolved plan names a node for: `LocalProcessExecutor`
  runs the capsule on the local machine, whatever node was selected, and the
  model of the slice keeps only the implementation of a run.
* `validate_root` and `validate_file` beyond their outcome: ownership, modes
  and symbolic links are refusals or errors of the call.
* The form of bus names, `pkcheck`'s command line, the hex encoding, messages,
  the trace of a translation, and the probe's warning that the running system
  is not the boot default.
* A candidate path that is not canonical, a missing executable, a host path
  outside the store: errors that return before or after the command, like any
  other read of the host that fails.
* An operator who changes the boot default: nothing in the sources does.
* The NixOS VM tests, and the in-memory test doubles of the permit store and the
  ledger.

## 6. The plan

Done: the privileged path and its abstract promise, the gate with the probe in
front of it, the pipeline from a specification to a candidate with its history,
the development slice with resolver and correlator, and a theorem for every
safety and action property and every refinement that a passing run checks. What
remains, in this order:

1. `PilotPreflight` and `ActivationSystem` in one composition, so that the root
   ledger is seen to make up for the gate's forgotten one; today
   `RootAcceptsPrepared` and `SingleUse` are the two halves.
2. A boot default that changes during an invocation, and what the rollback then
   restores.
3. `InvocationsReturn` of two fair helpers that present one permit.
4. The grant checks of the capsule runtime, as a module of its own.
