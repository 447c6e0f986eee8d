-------------------------- MODULE DevelopmentSlice --------------------------
(***************************************************************************)
(* blob-mvp: run_source_change_test takes an event to an executed test and *)
(* the causal records that explain it, through Alfred, the resolver, the   *)
(* local process executor and a causal log, all made for the one call.     *)
(* Next to it a correlator that lives on (blob-alfred) takes events, among *)
(* them failures of tests, and the technician (blob-technician) diagnoses  *)
(* a failed test from a situation and what a call returned.                *)
(*                                                                         *)
(* Calls on several threads share nothing; an event may reach any number   *)
(* of them.  Every error of a step ends the call, and all it has is gone:  *)
(* also an error of the executor after it started the command.             *)
(***************************************************************************)
EXTENDS CapabilityResolver, EventCorrelation, CausalHistory

CONSTANTS
  Callers,         \* threads that run the slice
  Events,          \* the events that are delivered
  Registries,      \* the registries a call may be given
  Capsules,        \* implementation |-> "runs", "empty" or "unspawnable"
  MaxCalls,        \* bound: how many calls are made
  MaxDeliveries    \* bound: how many events the correlator is given

\* A registry holds two lists.  Identities are numbers like the objectives.
ASSUME RegistriesAreLists == \A registry \in Registries : IsRegistry(registry)

VARIABLES
  call,        \* the locals of the call each caller is in
  calls,       \* how many calls were made; a call is known by its number
  ran,         \* history: the test commands that were started, and how they ended
  outcomes,    \* history: what calls returned
  seen,        \* the long-lived correlator
  situations,  \* history: the situations it derived
  delivered    \* history: the events it was given, in order

vars == <<call, calls, ran, outcomes, seen, situations, delivered>>

-----------------------------------------------------------------------------
(* The values a call makes, named after the event they come from.           *)

TaskId(event)  == <<"task", event.id>>
GraphId(event) == <<"graph", TaskId(event)>>

GraphOf(event) ==
  [id |-> GraphId(event), constrained |-> FALSE,
   roles |-> <<[id |-> "role", kind |-> "Capability", capability |-> "test.run"]>>]

Record(kind, subject, parents) ==
  [id |-> <<"cause", kind, subject>>, kind |-> kind, parents |-> parents]

EventRecord(event)     == Record("EventObserved", event.id, {})
SituationRecord(event) == Record("SituationDerived", event.id, {EventRecord(event).id})
TaskRecord(event)      == Record("TaskTransition", TaskId(event), {SituationRecord(event).id})
BindingRecord(event, plan) == Record("BindingResolved", plan.id, {TaskRecord(event).id})

\* Mutant: the execution is traced to a record that is never made.
ExecutionRecordOfLease(event, plan) ==
  Record("ExecutionCompleted", TaskId(event), {<<"cause", "LeaseGranted", plan.id>>})

ExecutionRecord(event, plan) ==
  Record("ExecutionCompleted", TaskId(event), {BindingRecord(event, plan).id})

-----------------------------------------------------------------------------
(* ReadOnlySystemTechnician::diagnose_failed_test.                          *)

\* Mutant: the plan may be of another task.
DiagnosableWithAnyPlan(situation, task, plan) ==
  situation.kind = "development.test-failed" /\ task.state = "Failed"

Diagnosable(situation, task, plan) ==
  /\ situation.kind = "development.test-failed"
  /\ task.state = "Failed"
  /\ plan.graph = task.graph

-----------------------------------------------------------------------------
NoCall == [step |-> "none"]

Init ==
  /\ call       = [c \in Callers |-> NoCall]
  /\ calls      = 0
  /\ ran        = {}
  /\ outcomes   = {}
  /\ seen       = NewAlfred
  /\ situations = {}
  /\ delivered  = <<>>

AtStep(c, step) == call[c].step = step

Dropped(c) == call' = [call EXCEPT ![c] = NoCall]

\* The call goes on with one more record in its history, unless append refuses
\* it: then the call returns MvpError::History.
Advance(c, step, record, fields) ==
  IF Appendable(call[c].log, record)
  THEN call' = [call EXCEPT ![c] =
         [fields EXCEPT !.step = step, !.log = Appended(call[c].log, record)]]
  ELSE Dropped(c)

Observe(c, event, registry) ==
  /\ call[c] = NoCall /\ calls < MaxCalls
  /\ calls' = calls + 1
  /\ call'  = [call EXCEPT ![c] =
       [number |-> calls + 1, event |-> event, registry |-> registry, step |-> "observed",
        log |-> Appended(EmptyLog, EventRecord(event)), task |-> "None", plan |-> <<>>]]
  /\ UNCHANGED <<ran, outcomes, seen, situations, delivered>>

\* A correlator made for this call ingests the event.
Derive(c) ==
  /\ AtStep(c, "observed")
  /\ Situations(NewAlfred, call[c].event, SourceChange(call[c].event)) # {}
  /\ Advance(c, "derived", SituationRecord(call[c].event), call[c])
  /\ UNCHANGED <<calls, ran, outcomes, seen, situations, delivered>>

NoSituation(c) ==
  /\ AtStep(c, "observed")
  /\ Situations(NewAlfred, call[c].event, SourceChange(call[c].event)) = {}
  /\ Dropped(c)
  /\ UNCHANGED <<calls, ran, outcomes, seen, situations, delivered>>

CreateTask(c) ==
  /\ AtStep(c, "derived")
  /\ Advance(c, "created", TaskRecord(call[c].event), [call[c] EXCEPT !.task = "Ready"])
  /\ UNCHANGED <<calls, ran, outcomes, seen, situations, delivered>>

Bind(c) ==
  LET graph == GraphOf(call[c].event)
      plan  == PlanOf(call[c].registry, graph)
  IN
  /\ AtStep(c, "created")
  /\ Resolves(call[c].registry, graph)
  /\ Advance(c, "bound", BindingRecord(call[c].event, plan), [call[c] EXCEPT !.plan = plan])
  /\ UNCHANGED <<calls, ran, outcomes, seen, situations, delivered>>

CannotBind(c) ==
  /\ AtStep(c, "created")
  /\ ~Resolves(call[c].registry, GraphOf(call[c].event))
  /\ Dropped(c)
  /\ UNCHANGED <<calls, ran, outcomes, seen, situations, delivered>>

\* The task is Running when the executor is called with the capsule.
Launch(c) ==
  /\ AtStep(c, "bound")
  /\ call[c].plan.implementation \in DOMAIN Capsules
  /\ call' = [call EXCEPT ![c].step = "running", ![c].task = "Running"]
  /\ UNCHANGED <<calls, ran, outcomes, seen, situations, delivered>>

MissingCapsule(c) ==
  /\ AtStep(c, "bound")
  /\ call[c].plan.implementation \notin DOMAIN Capsules
  /\ Dropped(c)
  /\ UNCHANGED <<calls, ran, outcomes, seen, situations, delivered>>

\* LocalProcessExecutor::execute: EmptyProgram, or an error before there is a
\* process, which may happen to any capsule.  The task stays Running.
ExecutionError(c) ==
  /\ AtStep(c, "running")
  /\ Dropped(c)
  /\ UNCHANGED <<calls, ran, outcomes, seen, situations, delivered>>

Run(c, exit) ==
  [call |-> call[c].number, event |-> call[c].event.id, registry |-> call[c].registry,
   implementation |-> call[c].plan.implementation, exit |-> exit]

\* Command::output() has started the command and waits for it.
Start(c) ==
  /\ AtStep(c, "running")
  /\ Capsules[call[c].plan.implementation] = "runs"
  /\ ran'  = ran \cup {Run(c, "none")}
  /\ call' = [call EXCEPT ![c].step = "executing"]
  /\ UNCHANGED <<calls, outcomes, seen, situations, delivered>>

Ends(c, exit) == ran' = (ran \ {Run(c, "none")}) \cup {Run(c, exit)}

\* Command::output() cannot read from the command or wait for it.  The executor
\* reports that as Spawn, too, and the call ends like one that ran nothing.
OutputLost(c) ==
  /\ AtStep(c, "executing")
  /\ Ends(c, "lost")
  /\ Dropped(c)
  /\ UNCHANGED <<calls, outcomes, seen, situations, delivered>>

Outcome(c, state, log) ==
  [call |-> call[c].number, event |-> call[c].event.id,
   task |-> [id |-> TaskId(call[c].event), state |-> state, graph |-> GraphId(call[c].event)],
   plan |-> call[c].plan, records |-> log.records]

\* The exit status of the command decides on the task, and the call returns.
\* Should append refuse the last record, the result of the run would be lost.
Finish(c, state) ==
  LET record == ExecutionRecord(call[c].event, call[c].plan) IN
  /\ AtStep(c, "executing")
  /\ Ends(c, state)
  /\ outcomes' = outcomes \cup
       IF Appendable(call[c].log, record)
       THEN {Outcome(c, state, Appended(call[c].log, record))} ELSE {}
  /\ Dropped(c)
  /\ UNCHANGED <<calls, seen, situations, delivered>>

\* The long-lived correlator, with both rules, ingests an event.
Ingest(event) ==
  /\ Len(delivered) < MaxDeliveries
  /\ situations' = situations \cup
       Situations(seen, event, SourceChange(event) \cup TestFailed(event))
  /\ seen'      = SeenAfter(seen, event)
  /\ delivered' = Append(delivered, event)
  /\ UNCHANGED <<call, calls, ran, outcomes>>

Next ==
  \/ \E c \in Callers, event \in Events, registry \in Registries : Observe(c, event, registry)
  \/ \E c \in Callers :
       \/ Derive(c) \/ NoSituation(c) \/ CreateTask(c) \/ Bind(c) \/ CannotBind(c)
       \/ Launch(c) \/ MissingCapsule(c) \/ ExecutionError(c) \/ Start(c) \/ OutputLost(c)
       \/ \E state \in {"Completed", "Failed"} : Finish(c, state)
  \/ \E event \in Events : Ingest(event)

Spec == Init /\ [][Next]_vars

-----------------------------------------------------------------------------
(* Properties.                                                              *)

\* The five records of an outcome, each caused by the one before it.
Explains(o) ==
  /\ [i \in DOMAIN o.records |-> o.records[i].kind] =
       <<"EventObserved", "SituationDerived", "TaskTransition", "BindingResolved",
         "ExecutionCompleted">>
  /\ o.records[1].parents = {} /\ o.records[1].id[3] = o.event
  /\ \A i \in 2 .. 5 : o.records[i].parents = {o.records[i - 1].id}

\* Every command that was started is accounted for.  Its call waits for it, or
\* its caller has its result, under a task in the state of its exit, with a plan
\* the technician would take for it and records that lead back to the event; or
\* the executor could not collect its output, the one way in which a run is
\* lost.  run_source_change_test gives its history away on success only, so any
\* other error after the start would lose a run as well.
RunsAreAccountedFor ==
  \A r \in ran :
    \/ \E c \in Callers : AtStep(c, "executing") /\ r = Run(c, "none")
    \/ r.exit = "lost"
    \/ \E o \in outcomes :
         /\ o.call = r.call /\ o.event = r.event
         /\ o.plan.implementation = r.implementation
         /\ o.task.state = r.exit
         /\ o.plan.graph = o.task.graph
         /\ Explains(o)

\* What was run is what its identity names in the registry: a trusted test
\* runner that a trusted node of the registry can take.  The choice is made
\* among entries and checked again by identity (resolve, verify).
RunsAreVerified ==
  \A r \in ran :
    LET entry == FirstWithId(r.registry.implementations, r.implementation) IN
    /\ entry.implements = "test.run"
    /\ \E node \in ToSet(r.registry.nodes) : Acceptable(entry, node)

\* The lease is for the same pair when the lists of the registry are reversed, and
\* where identities are unique it names a pair a user would want
\* (compare_candidates sees positions, a lease only has identities).
BestIsBound ==
  \A c \in Callers : AtStep(c, "bound") =>
    LET registry == call[c].registry
        plan     == call[c].plan
        leased   == [implementation |-> FirstWithId(registry.implementations, plan.implementation),
                     node           |-> FirstWithId(registry.nodes, plan.node)]
    IN /\ PlanOf(Backwards(registry), GraphOf(call[c].event)) = plan
       /\ UniqueIds(registry) => leased \in WantedPairs(registry, "test.run")

\* A call that some runner and node of a registry with unique identities can
\* serve gets its lease: neither the verifier, which looks entries up again,
\* nor append refuses what the resolver chose.
RunnableIsBound ==
  [][\A c \in Callers :
       (/\ AtStep(c, "created") /\ call'[c] # call[c]
        /\ UniqueIds(call[c].registry) /\ WantedPairs(call[c].registry, "test.run") # {})
       => AtStep(c, "bound")']_vars

\* The correlator knows of each identity what the rules say of the first event
\* that had it, however often and in whatever order events arrive.
FirstEventDecides ==
  \A i \in DOMAIN delivered :
    (\A j \in 1 .. i - 1 : delivered[j].id # delivered[i].id) =>
      {s \in situations : s.evidence = delivered[i].id} =
        SourceChange(delivered[i]) \cup TestFailed(delivered[i])

\* A diagnosis is of a task whose test did fail, and explains it by a binding
\* that ran a test for the same event, of whatever call it was.
DiagnosedTaskRan ==
  \A s \in situations, o, q \in outcomes :
    Diagnosable(s, o.task, q.plan) =>
      \E r, t \in ran : /\ r.call = o.call /\ r.exit = "Failed"
                        /\ t.call = q.call /\ t.implementation = q.plan.implementation
                        /\ t.event = r.event

\* An event that is delivered again has no second effect: its test runs once.
EventRunsOnce == \A r, q \in ran : r.event = q.event => r.call = q.call
=============================================================================
