----------------------- MODULE SystemMaterialization -----------------------
(***************************************************************************)
(* The unprivileged way from a SystemSpec to a candidate closure and its   *)
(* record: the Nix backend translates the specification and plans the      *)
(* commands of an operation (blob-nix-nixos), the executor checks a plan   *)
(* and runs it (blob-system-executor), the immutable planner takes the     *)
(* closure from the result (blob-nix-nixos-activation), the caller appends *)
(* the result's causal record to its history (blob-history), and the       *)
(* technician explains it (blob-technician).                               *)
(*                                                                         *)
(* These are libraries that hand values to one caller.  The fields of a    *)
(* plan are public: whatever is done to it, the executor decides alone.    *)
(***************************************************************************)
EXTENDS NixTranslation, OperationPolicy, CausalHistory

CONSTANTS
  SystemSpecs,      \* the specifications that are translated
  Identities,       \* what operations are made with: [operation, candidate, systemSpec]
  RecordIds,
  Targets,          \* NixOsCandidateTarget values: a flake and a configuration
  ValidTargets,     \* those with a path and a valid configuration name
  Outputs,          \* what a command may print: sequences of lines
  StorePaths,       \* the lines that start with /nix/store/
  StoreClosure,     \* the store paths of the form /nix/store/<entry>
  NoPlan,           \* "no plan at hand"
  MaxTranslations,  \* bound: how many specifications are translated
  MaxChanges,       \* bound: how many changes are made to a plan
  MaxRuns,          \* bound: how many commands are run
  MaxRecords        \* bound: how many records are appended

\* SystemSpec: its selections are a list.
ASSUME SelectionsAreLists ==
  \A spec \in SystemSpecs : spec.features \in Seq(ToSet(spec.features))

VARIABLES
  translated,   \* history: pairs of a specification and its module
  plan,         \* the NixCommandPlan the caller holds
  changes,      \* history: how many changes were made to it
  runs,         \* history: each command that was run, and the result for it
  candidates,   \* the MaterializedNixOsCandidate values taken from results
  log           \* the caller's InMemoryCausalLog

vars == <<translated, plan, changes, runs, candidates, log>>

-----------------------------------------------------------------------------
(* NixOsBackend::plan_operation.                                            *)

BuildWords == <<"build", "--no-link", "--print-out-paths">>

\* Mutant: materializations build the virtual machine, too.
CommandForVm(action) ==
  CASE action \in {Materialize, BuildIsolatedVm} ->
         [program |-> "nix", words |-> BuildWords, attribute |-> "vm"]
    [] OTHER ->
         [program |-> "nixos-rebuild", words |-> <<"test", "--flake">>, attribute |-> "none"]

\* The command for an action: a program, its words, and the attribute of the
\* target that the last argument selects.
CommandFor(action) ==
  CASE action = Materialize ->
         [program |-> "nix", words |-> BuildWords, attribute |-> "toplevel"]
    [] action = BuildIsolatedVm ->
         [program |-> "nix", words |-> BuildWords, attribute |-> "vm"]
    [] action = PreviewActivation ->
         [program |-> "nixos-rebuild", words |-> <<"dry-activate", "--flake">>, attribute |-> "none"]
    [] action = TestActivation ->
         [program |-> "nixos-rebuild", words |-> <<"test", "--flake">>, attribute |-> "none"]

PlanFor(o, target) ==
  [operation |-> o.id, candidate |-> o.candidate, systemSpec |-> o.systemSpec,
   action |-> o.action, effect |-> o.effect, authority |-> o.authority,
   command |-> CommandFor(o.action), target |-> target]

-----------------------------------------------------------------------------
(* validate_non_privileged_plan: one conjunct per early return.             *)

AttributeOf(action) == IF action = Materialize THEN "toplevel" ELSE "vm"

\* Mutant: the shape of the command is not looked at.
ExecutableByClass(p) ==
  /\ p.authority = "User"
  /\ p.effect    = "MaterializationOnly"
  /\ p.action \in {Materialize, BuildIsolatedVm}

\* The words are compared with BuildWords, so none of the forbidden arguments
\* is among them, and the selector ends with its attribute, so it is none.
Executable(p) ==
  /\ p.authority = "User"
  /\ p.effect    = "MaterializationOnly"
  /\ p.action \in {Materialize, BuildIsolatedVm}
  /\ p.command.program   = "nix"
  /\ p.command.words     = BuildWords
  /\ p.command.attribute = AttributeOf(p.action)

\* parse_store_paths
StorePathsIn(stdout) == SelectSeq(stdout, LAMBDA line : line \in StorePaths)

\* The SystemOperationResult of a plan whose command has ended.
ResultOf(p, succeeded, stdout) ==
  [operation |-> p.operation, candidate |-> p.candidate, systemSpec |-> p.systemSpec,
   action |-> p.action, effect |-> p.effect,
   status |-> IF succeeded THEN "Succeeded" ELSE "Failed",
   storePaths |-> StorePathsIn(stdout)]

-----------------------------------------------------------------------------
(* MaterializedNixOsCandidate::from_operation_result.                       *)

\* Mutant: the status of the result is not looked at.
YieldsCandidateOfFailure(result) ==
  /\ result.action = Materialize /\ result.effect = "MaterializationOnly"
  /\ Len(result.storePaths) = 1
  /\ result.storePaths[1] \in StoreClosure

YieldsCandidate(result) ==
  /\ result.action = Materialize /\ result.effect = "MaterializationOnly"
  /\ result.status = "Succeeded"
  /\ Len(result.storePaths) = 1
  /\ result.storePaths[1] \in StoreClosure

CandidateOf(result) ==
  [candidate |-> result.candidate, systemSpec |-> result.systemSpec,
   operation |-> result.operation, closure |-> result.storePaths[1]]

-----------------------------------------------------------------------------
(* SystemOperationResult::causal_record and the technician's reading of it. *)

\* Evidence carries the identities, the classes, the status and the paths.
RecordOf(result, id, parents) ==
  [id |-> id, kind |-> "SystemChange", parents |-> parents, evidence |-> result,
   expected |-> IF RequiredAuthority(result.action) = "User"
                THEN "materialized, not activated" ELSE "outside the boundary",
   materialized |-> result.storePaths,
   authorization |-> "user/non-privileged materialization", rollback |-> "none"]

\* explain_system_change: which of the two conditional safety notes it makes.
MaterializationOnlyNote(record) ==
  record.kind = "SystemChange" /\ record.evidence.effect = "MaterializationOnly"

-----------------------------------------------------------------------------
Init ==
  /\ translated = {}
  /\ plan       = NoPlan
  /\ changes    = 0
  /\ runs       = {}
  /\ candidates = {}
  /\ log        = EmptyLog

\* Translation shares no state with the rest; it comes first, as a bound.
Translate(spec) ==
  /\ Len(log.records) = 0 /\ plan = NoPlan /\ Cardinality(translated) < MaxTranslations
  /\ Translatable(spec)
  /\ translated' = translated \cup {<<spec, ModuleOf(spec)>>}
  /\ UNCHANGED <<plan, changes, runs, candidates, log>>

\* plan_operation; an invalid operation or target gives no plan.
PlanOperation(o, target) ==
  /\ FollowsPolicy(o)
  /\ target \in ValidTargets
  /\ plan'    = PlanFor(o, target)
  /\ changes' = 0
  /\ UNCHANGED <<translated, runs, candidates, log>>

\* The words of a command the planner would make, and a build of anything.
ArgumentWords == {CommandFor(a).words : a \in Actions} \cup {<<"build", "--impure", "--expr">>}

\* The holder of a plan sets one of its public fields to another value of it; an
\* argument is one of the words, or the target or the attribute of the last one.
AlterPlan ==
  /\ plan # NoPlan /\ changes < MaxChanges
  /\ changes' = changes + 1
  /\ \/ \E of \in Identities :
          \/ plan' = [plan EXCEPT !.operation = of.operation]
          \/ plan' = [plan EXCEPT !.candidate = of.candidate]
          \/ plan' = [plan EXCEPT !.systemSpec = of.systemSpec]
     \/ \E target \in Targets : plan' = [plan EXCEPT !.target = target]
     \/ \E a \in Actions :
          \/ plan' = [plan EXCEPT !.action = a]
          \/ plan' = [plan EXCEPT !.effect = RequiredEffect(a)]
          \/ plan' = [plan EXCEPT !.authority = RequiredAuthority(a)]
          \/ plan' = [plan EXCEPT !.command = [@ EXCEPT !.program = CommandFor(a).program]]
          \/ plan' = [plan EXCEPT !.command = [@ EXCEPT !.attribute = CommandFor(a).attribute]]
     \/ \E words \in ArgumentWords : plan' = [plan EXCEPT !.command = [@ EXCEPT !.words = words]]
  /\ UNCHANGED <<translated, runs, candidates, log>>

\* execute: there is no result, and nothing changes here, where the plan is
\* refused, the command cannot be spawned, or output() fails after the start and
\* the build is lost.  A command that was waited for gives one, however it ended.
Execute(succeeded, stdout) ==
  /\ plan # NoPlan /\ Cardinality(runs) < MaxRuns
  /\ Executable(plan)
  /\ runs' = runs \cup {[plan |-> plan, succeeded |-> succeeded, stdout |-> stdout,
                         result |-> ResultOf(plan, succeeded, stdout)]}
  /\ UNCHANGED <<translated, plan, changes, candidates, log>>

TakeCandidate(run) ==
  /\ YieldsCandidate(run.result)
  /\ candidates' = candidates \cup {CandidateOf(run.result)}
  /\ UNCHANGED <<translated, plan, changes, runs, log>>

\* append refuses an identity it knows and a parent it does not.
RecordResult(run, id, parents) ==
  LET record == RecordOf(run.result, id, parents) IN
  /\ Len(log.records) < MaxRecords
  /\ Appendable(log, record)
  /\ log' = Appended(log, record)
  /\ UNCHANGED <<translated, plan, changes, runs, candidates>>

Operations ==
  {NewOperation(of.operation, of.candidate, of.systemSpec, a) :
     of \in Identities, a \in Actions}

\* An operation as its constructor made it, or with another effect class.
PlanAnyOperation ==
  \E o \in Operations, target \in Targets, effect \in {RequiredEffect(a) : a \in Actions} :
    PlanOperation([o EXCEPT !.effect = effect], target)

Next ==
  \/ \E spec \in SystemSpecs : Translate(spec)
  \/ PlanAnyOperation
  \/ AlterPlan
  \/ \E succeeded \in BOOLEAN, stdout \in Outputs : Execute(succeeded, stdout)
  \/ \E run \in runs : TakeCandidate(run)
  \/ \E run \in runs, id \in RecordIds, parents \in SUBSET RecordIds :
       RecordResult(run, id, parents)

Spec == Init /\ [][Next]_vars

-----------------------------------------------------------------------------
(* Properties.                                                              *)

\* The generated module depends on which features are selected and not on the
\* order they were selected in, and gives no option two values (validate,
\* the sort and translate_feature together).
OneModulePerSelection ==
  /\ \A t \in translated : IsInjective([i \in DOMAIN t[2] |-> t[2][i][1]])
  /\ \A t, u \in translated :
       /\ ToSet(t[1].features) = ToSet(u[1].features)
       /\ t[1].hostname = u[1].hostname /\ t[1].architecture = u[1].architecture
       /\ t[1].kernel = u[1].kernel
       => t[2] = u[2]

\* The executor takes the planner's plans for user actions and no others: the
\* two crates agree on the command line without sharing its definition.
PlannerAndExecutorAgree ==
  (plan # NoPlan /\ changes = 0) =>
    (Executable(plan) <=> RequiredAuthority(plan.action) = "User")

\* A candidate's closure is the one path printed by a successful build of the
\* system itself, under a plan that named that candidate when it was executed,
\* whatever it named before (plan_operation, execute, from_operation_result).
CandidatesWereBuilt ==
  \A m \in candidates : \E run \in runs :
    /\ run.succeeded
    /\ run.plan.command = CommandFor(Materialize)
    /\ LET IsPath(line) == line \in StorePaths
           paths == SelectSeq(run.stdout, IsPath)
       IN Len(paths) = 1 /\ paths[1] = m.closure
    /\ m.closure \in StoreClosure
    /\ run.plan.candidate = m.candidate /\ run.plan.systemSpec = m.systemSpec
    /\ run.plan.operation = m.operation

\* When the technician says that an operation only materialized a candidate,
\* a nix build of the attribute for the record's action gave the record's result,
\* and ended the way the record says (execute, causal_record, explain_system_change).
NotesAreTrue ==
  \A i \in 1 .. Len(log.records) :
    LET record == log.records[i] IN
    MaterializationOnlyNote(record) =>
      \E run \in runs :
        /\ run.result = record.evidence
        /\ run.plan.command =
             [program |-> "nix",
              words |-> <<"build", "--no-link", "--print-out-paths">>,
              attribute |-> IF record.evidence.action = Materialize THEN "toplevel" ELSE "vm"]
        /\ run.succeeded = (record.evidence.status = "Succeeded")

\* The caller's log finds every record at its place and has causes first.
LogWellFormed == WellFormed(log)

\* The log implements a growing history (append).
History == INSTANCE GrowingHistory
             WITH recorded <- {log.records[i] : i \in 1 .. Len(log.records)}
ImplementsHistory == History!GrowingSpec

-----------------------------------------------------------------------------
(* The inductive invariant behind them.                                     *)

IsCommand(c) == c = [program |-> c.program, words |-> c.words, attribute |-> c.attribute]

IsPlan(p) ==
  /\ p = [operation |-> p.operation, candidate |-> p.candidate, systemSpec |-> p.systemSpec,
          action |-> p.action, effect |-> p.effect, authority |-> p.authority,
          command |-> p.command, target |-> p.target]
  /\ IsCommand(p.command)

\* The plan at hand is the planner's own, unless it was changed.
PlanAtHand ==
  /\ changes \in Nat
  /\ plan # NoPlan => IsPlan(plan)
  /\ plan # NoPlan /\ changes = 0 =>
       \E action \in Actions : /\ plan.action = action /\ plan.command = CommandFor(action)
                               /\ plan.effect = RequiredEffect(action)
                               /\ plan.authority = RequiredAuthority(action)

\* What was run passed the executor's checks as it was.
RunsChecked ==
  \A run \in runs : /\ Executable(run.plan) /\ IsPlan(run.plan)
                    /\ run.result = ResultOf(run.plan, run.succeeded, run.stdout)
                    /\ run.succeeded \in BOOLEAN

\* A candidate was taken from the result of a command that was run.
CandidatesTaken ==
  \A m \in candidates : \E run \in runs : YieldsCandidate(run.result) /\ m = CandidateOf(run.result)

\* So is every record of the log.
RecordsOfRuns ==
  \A i \in 1 .. Len(log.records) : \E run \in runs : log.records[i].evidence = run.result

\* A module was made of a specification that is valid.
ModulesTranslated ==
  \A t \in translated : \E spec \in SystemSpecs :
    Translatable(spec) /\ t = <<spec, ModuleOf(spec)>>

PipelineInv ==
  /\ PlanAtHand /\ RunsChecked /\ CandidatesTaken /\ RecordsOfRuns /\ LogWellFormed
  /\ ModulesTranslated
=============================================================================
