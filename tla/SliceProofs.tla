----------------------------- MODULE SliceProofs -----------------------------
(***************************************************************************)
(* Proofs about DevelopmentSlice, for any callers, events, registries and  *)
(* capsules, and any number of calls and deliveries.                       *)
(***************************************************************************)
EXTENDS DevelopmentSlice, ResolverProofs

-----------------------------------------------------------------------------
(* The registry.                                                            *)

\* The slice's graph is supported, and asks for a test runner.
LEMMA SliceGraph ==
  ASSUME NEW event
  PROVE  /\ Supported(GraphOf(event))
         /\ CapabilityRole(GraphOf(event)).capability = "test.run"
         /\ \A role \in ToSet(GraphOf(event).roles) : role.capability = "test.run"
<1> DEFINE graph == GraphOf(event)
<1>1. /\ ~graph.constrained /\ DOMAIN graph.roles = {1}
      /\ graph.roles[1].kind = "Capability" /\ graph.roles[1].capability = "test.run"
  BY DEF GraphOf
<1> HIDE DEF graph
<1>2. CapabilityRoles(graph) = {1}
  BY <1>1 DEF CapabilityRoles
<1>3. (CHOOSE i \in {1} : TRUE) = 1
  OBVIOUS
<1>4. CapabilityRole(graph) = graph.roles[1]
  BY <1>2, <1>3 DEF CapabilityRole
<1> QED  BY <1>1, <1>2, <1>4 DEF Supported, ToSet, graph

\* What the verifier accepts for the slice's graph is a trusted test runner and
\* a node of the registry that can take it.
LEMMA VerifiedIsRunner ==
  ASSUME NEW registry \in Registries, NEW event, NEW plan,
         Verifies(registry, GraphOf(event), plan)
  PROVE  LET entry == FirstWithId(registry.implementations, plan.implementation) IN
         /\ entry.implements = "test.run"
         /\ \E node \in ToSet(registry.nodes) : Acceptable(entry, node)
<1>1. plan.capability = "test.run"
  BY SliceGraph DEF Verifies
<1>2. registry.nodes \in Seq(ToSet(registry.nodes))
  BY RegistriesAreLists DEF IsRegistry
<1>3. WithId(registry.nodes, plan.node) \subseteq DOMAIN registry.nodes
  BY DEF WithId
<1>4. FirstWithId(registry.nodes, plan.node) \in ToSet(registry.nodes)
  BY <1>2, <1>3, NamedEntry DEF Verifies, ToSet
<1> QED  BY <1>1, <1>4 DEF Verifies

-----------------------------------------------------------------------------
(* The history of a call.                                                   *)

\* The log a call has at each step, as a function of its event and plan.
Log1(event) == Appended(EmptyLog, EventRecord(event))
Log2(event) == Appended(Log1(event), SituationRecord(event))
Log3(event) == Appended(Log2(event), TaskRecord(event))
Log4(event, plan) == Appended(Log3(event), BindingRecord(event, plan))
Log5(event, plan) == Appended(Log4(event, plan), ExecutionRecord(event, plan))

\* In a call's log every record finds its parent, and the last one is never refused.
LEMMA HistoryOfCall ==
  ASSUME NEW event, NEW plan
  PROVE  /\ Appendable(Log4(event, plan), ExecutionRecord(event, plan))
         /\ DOMAIN Log5(event, plan).records = 1 .. 5
         /\ Log5(event, plan).records[1] = EventRecord(event)
         /\ Log5(event, plan).records[2] = SituationRecord(event)
         /\ Log5(event, plan).records[3] = TaskRecord(event)
         /\ Log5(event, plan).records[4] = BindingRecord(event, plan)
         /\ Log5(event, plan).records[5] = ExecutionRecord(event, plan)
<1>1. DOMAIN Log1(event).index = {EventRecord(event).id}
  BY DEF Log1, Appended, EmptyLog
<1>2. DOMAIN Log2(event).index = DOMAIN Log1(event).index \cup {SituationRecord(event).id}
  BY DEF Log2, Appended
<1>3. DOMAIN Log3(event).index = DOMAIN Log2(event).index \cup {TaskRecord(event).id}
  BY DEF Log3, Appended
<1>4. DOMAIN Log4(event, plan).index =
        DOMAIN Log3(event).index \cup {BindingRecord(event, plan).id}
  BY DEF Log4, Appended
<1>5. /\ EventRecord(event).id[2] = "EventObserved"
      /\ SituationRecord(event).id[2] = "SituationDerived"
      /\ TaskRecord(event).id[2] = "TaskTransition"
      /\ BindingRecord(event, plan).id[2] = "BindingResolved"
      /\ ExecutionRecord(event, plan).id[2] = "ExecutionCompleted"
      /\ ExecutionRecord(event, plan).parents = {BindingRecord(event, plan).id}
  BY DEF EventRecord, SituationRecord, TaskRecord, BindingRecord, ExecutionRecord, Record
<1>6. Appendable(Log4(event, plan), ExecutionRecord(event, plan))
  BY <1>1, <1>2, <1>3, <1>4, <1>5 DEF Appendable, Knows
<1> DEFINE U == {EventRecord(event), SituationRecord(event), TaskRecord(event),
                 BindingRecord(event, plan), ExecutionRecord(event, plan)}
<1>a. /\ EventRecord(event) \in U /\ SituationRecord(event) \in U /\ TaskRecord(event) \in U
      /\ BindingRecord(event, plan) \in U /\ ExecutionRecord(event, plan) \in U
  OBVIOUS
<1> HIDE DEF U
<1>7. /\ Log1(event).records \in Seq(U)
      /\ Len(Log1(event).records) = 1 /\ Log1(event).records[1] = EventRecord(event)
  BY <1>a DEF Log1, Appended, EmptyLog
<1>8. /\ Log2(event).records \in Seq(U) /\ Len(Log2(event).records) = 2
      /\ Log2(event).records[1] = EventRecord(event)
      /\ Log2(event).records[2] = SituationRecord(event)
  <2>1. Log2(event).records = Append(Log1(event).records, SituationRecord(event))
    BY DEF Log2, Appended
  <2> QED  BY <1>a, <1>7, <2>1
<1>9. /\ Log3(event).records \in Seq(U) /\ Len(Log3(event).records) = 3
      /\ Log3(event).records[1] = EventRecord(event)
      /\ Log3(event).records[2] = SituationRecord(event)
      /\ Log3(event).records[3] = TaskRecord(event)
  <2>1. Log3(event).records = Append(Log2(event).records, TaskRecord(event))
    BY DEF Log3, Appended
  <2> QED  BY <1>a, <1>8, <2>1
<1>10. /\ Log4(event, plan).records \in Seq(U) /\ Len(Log4(event, plan).records) = 4
       /\ Log4(event, plan).records[1] = EventRecord(event)
       /\ Log4(event, plan).records[2] = SituationRecord(event)
       /\ Log4(event, plan).records[3] = TaskRecord(event)
       /\ Log4(event, plan).records[4] = BindingRecord(event, plan)
  <2>1. Log4(event, plan).records = Append(Log3(event).records, BindingRecord(event, plan))
    BY DEF Log4, Appended
  <2> QED  BY <1>a, <1>9, <2>1
<1>11. /\ Log5(event, plan).records \in Seq(U) /\ Len(Log5(event, plan).records) = 5
       /\ Log5(event, plan).records[1] = EventRecord(event)
       /\ Log5(event, plan).records[2] = SituationRecord(event)
       /\ Log5(event, plan).records[3] = TaskRecord(event)
       /\ Log5(event, plan).records[4] = BindingRecord(event, plan)
       /\ Log5(event, plan).records[5] = ExecutionRecord(event, plan)
  <2>1. Log5(event, plan).records = Append(Log4(event, plan).records, ExecutionRecord(event, plan))
    BY DEF Log5, Appended
  <2>2. Log5(event, plan).records \in Seq(U) /\ Len(Log5(event, plan).records) = 5
    <3>1. Log5(event, plan).records \in Seq(U)
      BY <1>a, <1>10, <2>1
    <3>2. Len(Log5(event, plan).records) = Len(Log4(event, plan).records) + 1
      BY <1>a, <1>10, <2>1
    <3> QED  BY <1>10, <3>1, <3>2
  <2>3. Log5(event, plan).records[5] = ExecutionRecord(event, plan)
    BY <1>a, <1>10, <2>1
  <2>4. \A i \in 1 .. 4 : Log5(event, plan).records[i] = Log4(event, plan).records[i]
    BY <1>a, <1>10, <2>1
  <2>5. 1 \in 1 .. 4 /\ 2 \in 1 .. 4 /\ 3 \in 1 .. 4 /\ 4 \in 1 .. 4
    OBVIOUS
  <2> QED  BY <1>10, <2>2, <2>3, <2>4, <2>5
<1>12. DOMAIN Log5(event, plan).records = 1 .. 5
  BY <1>11
<1> QED  BY <1>6, <1>11, <1>12

\* The five records of a complete call lead back to its event.
LEMMA HistoryExplains ==
  ASSUME NEW o, NEW event, NEW plan, o.records = Log5(event, plan).records,
         o.event = event.id
  PROVE  Explains(o)
<1>1. /\ EventRecord(event).kind = "EventObserved"
      /\ SituationRecord(event).kind = "SituationDerived"
      /\ TaskRecord(event).kind = "TaskTransition"
      /\ BindingRecord(event, plan).kind = "BindingResolved"
      /\ ExecutionRecord(event, plan).kind = "ExecutionCompleted"
  BY DEF EventRecord, SituationRecord, TaskRecord, BindingRecord, ExecutionRecord, Record
<1>2. /\ EventRecord(event).parents = {} /\ EventRecord(event).id[3] = event.id
      /\ SituationRecord(event).parents = {EventRecord(event).id}
      /\ TaskRecord(event).parents = {SituationRecord(event).id}
      /\ BindingRecord(event, plan).parents = {TaskRecord(event).id}
      /\ ExecutionRecord(event, plan).parents = {BindingRecord(event, plan).id}
  BY DEF EventRecord, SituationRecord, TaskRecord, BindingRecord, ExecutionRecord, Record
<1>4. /\ DOMAIN o.records = 1 .. 5
      /\ o.records[1] = EventRecord(event) /\ o.records[2] = SituationRecord(event)
      /\ o.records[3] = TaskRecord(event) /\ o.records[4] = BindingRecord(event, plan)
      /\ o.records[5] = ExecutionRecord(event, plan)
  BY HistoryOfCall
<1>5. \A i \in 1 .. 5 : i = 1 \/ i = 2 \/ i = 3 \/ i = 4 \/ i = 5
  OBVIOUS
<1>6. \A i \in 2 .. 5 : o.records[i].parents = {o.records[i - 1].id}
  <2>1. \A i \in 2 .. 5 : i = 2 \/ i = 3 \/ i = 4 \/ i = 5
    OBVIOUS
  <2> QED  BY <1>2, <1>4, <2>1
<1>7. [i \in DOMAIN o.records |-> o.records[i].kind] =
        <<"EventObserved", "SituationDerived", "TaskTransition", "BindingResolved",
          "ExecutionCompleted">>
  BY <1>1, <1>4, <1>5
<1> QED  BY <1>2, <1>4, <1>6, <1>7 DEF Explains

-----------------------------------------------------------------------------
(* The invariant.                                                           *)

\* The log of a call is what its step says.
LogAt(k) ==
  /\ k.step = "observed" => k.log = Log1(k.event)
  /\ k.step = "derived"  => k.log = Log2(k.event)
  /\ k.step = "created"  => k.log = Log3(k.event)
  /\ k.step \in {"bound", "running", "executing"} => k.log = Log4(k.event, k.plan)

\* From Bind on the plan is the one the resolver gave.
PlanAt(k) ==
  /\ k.registry \in Registries
  /\ k.step \in {"bound", "running", "executing"} =>
       /\ Resolves(k.registry, GraphOf(k.event))
       /\ k.plan = PlanOf(k.registry, GraphOf(k.event))

HasShape(k) == DOMAIN k = {"number", "event", "registry", "step", "log", "task", "plan"}

IsCall(k) == HasShape(k) /\ LogAt(k) /\ PlanAt(k)

CallsInv ==
  /\ DOMAIN call = Callers
  /\ \A c \in Callers : call[c] # NoCall => IsCall(call[c])

\* What a call returned names a run of it that ended as its task says.
HasRun(o) ==
  \E r \in ran :
    /\ r.call = o.call /\ r.implementation = o.plan.implementation
    /\ o.task.graph = <<"graph", <<"task", r.event>>>> /\ o.plan.graph = o.task.graph
    /\ r.exit = o.task.state /\ r.exit \in {"Completed", "Failed"}

\* What was run was verified, and its outcome names it by task and plan.
RanInv ==
  /\ RunsAreAccountedFor /\ RunsAreVerified
  /\ \A o \in outcomes : HasRun(o)

\* The correlator has seen what was delivered, and knows of nothing else.
SeenInv ==
  /\ delivered \in Seq(Events)
  /\ seen = {delivered[i].id : i \in DOMAIN delivered}
  /\ \A s \in situations : s.evidence \in seen
  /\ FirstEventDecides

SliceInv == CallsInv /\ RanInv /\ SeenInv

\* No call was made, and nothing delivered.
LEMMA InitHasSliceInv == Init => SliceInv
<1> SUFFICES ASSUME Init PROVE SliceInv
  OBVIOUS
<1>1. CallsInv
  BY DEF Init, CallsInv
<1>2. RanInv
  BY DEF Init, RanInv, RunsAreAccountedFor, RunsAreVerified
<1>3. SeenInv
  <2>1. delivered \in Seq(Events) /\ DOMAIN delivered = {}
    BY DEF Init
  <2> QED  BY <2>1 DEF Init, SeenInv, FirstEventDecides, NewAlfred
<1> QED  BY <1>1, <1>2, <1>3 DEF SliceInv

\* A call that goes on, ends, or begins leaves the other calls alone.
LEMMA OneCallMoves ==
  ASSUME CallsInv, NEW c \in Callers, NEW k,
         \/ call' = [call EXCEPT ![c] = NoCall]
         \/ call' = [call EXCEPT ![c] = k] /\ IsCall(k)
  PROVE  CallsInv'
<1>1. DOMAIN call' = Callers
  BY DEF CallsInv
<1>2. ASSUME NEW d \in Callers, call'[d] # NoCall PROVE IsCall(call'[d])
  <2>1. CASE d # c
    BY <1>2, <2>1 DEF CallsInv
  <2>2. CASE d = c
    BY <1>2, <2>2 DEF CallsInv
  <2> QED  BY <2>1, <2>2
<1>3. \A d \in Callers : (call[d] # NoCall => IsCall(call[d]))'
  BY <1>2 DEF IsCall, HasShape, LogAt, PlanAt
<1> QED  BY <1>1, <1>3 DEF CallsInv

\* Advance gives the call its next log and step, or ends it.
LEMMA AdvanceKeepsCallsInv ==
  ASSUME CallsInv, NEW c \in Callers, NEW step, NEW record, NEW fields,
         HasShape(fields), Advance(c, step, record, fields),
         \A k : /\ HasShape(k) /\ k.step = step /\ k.log = Appended(call[c].log, record)
                /\ k.event = fields.event /\ k.registry = fields.registry
                /\ k.plan = fields.plan
                => LogAt(k) /\ PlanAt(k)
  PROVE  CallsInv'
<1> DEFINE k == [fields EXCEPT !.step = step, !.log = Appended(call[c].log, record)]
<1>1. call' = [call EXCEPT ![c] = NoCall] \/ call' = [call EXCEPT ![c] = k]
  BY DEF Advance, Dropped
<1>2. /\ HasShape(k) /\ k.step = step /\ k.log = Appended(call[c].log, record)
      /\ k.event = fields.event /\ k.registry = fields.registry /\ k.plan = fields.plan
  BY DEF HasShape
<1> HIDE DEF k
<1>3. IsCall(k)
  BY <1>2 DEF IsCall
<1> QED  BY <1>1, <1>3, OneCallMoves

\* The resolver's plan is for the graph it was given, and verified.
LEMMA ResolvedPlan ==
  ASSUME NEW registry, NEW event, Resolves(registry, GraphOf(event))
  PROVE  /\ Verifies(registry, GraphOf(event), PlanOf(registry, GraphOf(event)))
         /\ PlanOf(registry, GraphOf(event)).graph = GraphId(event)
BY DEF Resolves, PlanOf, GraphOf

\* A caller at a step of the slice is in a call.
LEMMA AtStepIsCall ==
  ASSUME CallsInv, NEW c \in Callers, NEW step, step # "none", AtStep(c, step)
  PROVE  call[c].step = step /\ IsCall(call[c])
<1>1. NoCall.step = "none"
  BY DEF NoCall
<1> QED  BY <1>1 DEF AtStep, CallsInv

\* No step of a call breaks what is said of the calls.
LEMMA StepKeepsCallsInv ==
  ASSUME CallsInv, NEW c \in Callers,
         \/ Derive(c) \/ NoSituation(c) \/ CreateTask(c) \/ Bind(c) \/ CannotBind(c)
         \/ Launch(c) \/ MissingCapsule(c) \/ ExecutionError(c) \/ Start(c) \/ OutputLost(c)
         \/ \E state \in {"Completed", "Failed"} : Finish(c, state)
  PROVE  CallsInv'
<1> DEFINE event == call[c].event
<1>1. ASSUME NEW step, step # "none", AtStep(c, step)
      PROVE  call[c].step = step /\ IsCall(call[c])
  BY <1>1, AtStepIsCall
<1>2. CASE Derive(c)
  <2>1. /\ AtStep(c, "observed") /\ Advance(c, "derived", SituationRecord(event), call[c])
    BY <1>2 DEF Derive
  <2>2. HasShape(call[c]) /\ call[c].log = Log1(event) /\ call[c].registry \in Registries
    BY <1>1, <2>1 DEF IsCall, LogAt, PlanAt
  <2> QED  BY <2>1, <2>2, AdvanceKeepsCallsInv DEF LogAt, PlanAt, Log2
<1>3. CASE CreateTask(c)
  <2> DEFINE fields == [call[c] EXCEPT !.task = "Ready"]
  <2>1. AtStep(c, "derived") /\ Advance(c, "created", TaskRecord(event), fields)
    BY <1>3 DEF CreateTask
  <2>2. HasShape(call[c]) /\ call[c].log = Log2(event) /\ call[c].registry \in Registries
    BY <1>1, <2>1 DEF IsCall, LogAt, PlanAt
  <2>3. HasShape(fields) /\ fields.event = event /\ fields.registry = call[c].registry
    BY <2>2 DEF HasShape
  <2> HIDE DEF fields
  <2> QED  BY <2>1, <2>2, <2>3, AdvanceKeepsCallsInv DEF LogAt, PlanAt, Log3
<1>4. CASE Bind(c)
  <2> DEFINE plan   == PlanOf(call[c].registry, GraphOf(event))
             fields == [call[c] EXCEPT !.plan = plan]
  <2>1. /\ AtStep(c, "created") /\ Resolves(call[c].registry, GraphOf(event))
        /\ Advance(c, "bound", BindingRecord(event, plan), fields)
    BY <1>4 DEF Bind
  <2>2. HasShape(call[c]) /\ call[c].log = Log3(event) /\ call[c].registry \in Registries
    BY <1>1, <2>1 DEF IsCall, LogAt, PlanAt
  <2>3. plan = PlanOf(call[c].registry, GraphOf(event))
    OBVIOUS
  <2> HIDE DEF plan
  <2>4. /\ HasShape(fields) /\ fields.event = event /\ fields.registry = call[c].registry
        /\ fields.plan = plan
    BY <2>2 DEF HasShape
  <2> HIDE DEF fields
  <2> QED  BY <2>1, <2>2, <2>3, <2>4, AdvanceKeepsCallsInv DEF LogAt, PlanAt, Log4
<1>5. CASE Launch(c)
  <2> DEFINE k == [call[c] EXCEPT !.step = "running", !.task = "Running"]
  <2>1. AtStep(c, "bound") /\ call' = [call EXCEPT ![c] = k]
    BY <1>5 DEF Launch, CallsInv
  <2>2. IsCall(call[c]) /\ call[c].step = "bound"
    BY <1>1, <2>1
  <2>3. /\ HasShape(k) /\ k.step = "running" /\ k.log = call[c].log /\ k.event = event
        /\ k.registry = call[c].registry /\ k.plan = call[c].plan
    BY <2>2 DEF IsCall, HasShape
  <2> HIDE DEF k
  <2>4. IsCall(k)
    BY <2>2, <2>3 DEF IsCall, LogAt, PlanAt
  <2> QED  BY <2>1, <2>4, OneCallMoves
<1>6. CASE Start(c)
  <2> DEFINE k == [call[c] EXCEPT !.step = "executing"]
  <2>1. AtStep(c, "running") /\ call' = [call EXCEPT ![c] = k]
    BY <1>6 DEF Start, CallsInv
  <2>2. IsCall(call[c]) /\ call[c].step = "running"
    BY <1>1, <2>1
  <2>3. /\ HasShape(k) /\ k.step = "executing" /\ k.log = call[c].log /\ k.event = event
        /\ k.registry = call[c].registry /\ k.plan = call[c].plan
    BY <2>2 DEF IsCall, HasShape
  <2> HIDE DEF k
  <2>4. IsCall(k)
    BY <2>2, <2>3 DEF IsCall, LogAt, PlanAt
  <2> QED  BY <2>1, <2>4, OneCallMoves
<1>7. CASE \/ NoSituation(c) \/ CannotBind(c) \/ MissingCapsule(c) \/ ExecutionError(c)
           \/ OutputLost(c) \/ \E state \in {"Completed", "Failed"} : Finish(c, state)
  <2>1. call' = [call EXCEPT ![c] = NoCall]
    BY <1>7 DEF NoSituation, CannotBind, MissingCapsule, ExecutionError, OutputLost, Finish,
       Dropped
  <2> QED  BY <2>1, OneCallMoves
<1> QED  BY <1>2, <1>3, <1>4, <1>5, <1>6, <1>7

\* A step of a call whose command is not under way leaves the runs accounted for.
LEMMA IdleStepKeepsRanInv ==
  ASSUME RanInv, NEW c \in Callers, ~AtStep(c, "executing"), NEW k,
         call' = [call EXCEPT ![c] = k], UNCHANGED <<ran, outcomes>>
  PROVE  RanInv'
<1>1. RunsAreAccountedFor'
  <2> SUFFICES ASSUME NEW r \in ran'
               PROVE  \/ \E d \in Callers : (AtStep(d, "executing") /\ r = Run(d, "none"))'
                      \/ r.exit = "lost"
                      \/ \E o \in outcomes' :
                           /\ o.call = r.call /\ o.event = r.event
                           /\ o.plan.implementation = r.implementation
                           /\ o.task.state = r.exit /\ o.plan.graph = o.task.graph
                           /\ Explains(o)
    BY DEF RunsAreAccountedFor, Explains
  <2>1. ASSUME NEW d \in Callers, AtStep(d, "executing"), r = Run(d, "none")
        PROVE  (AtStep(d, "executing") /\ r = Run(d, "none"))'
    <3>1. call'[d] = call[d]
      BY <2>1
    <3> QED  BY <2>1, <3>1 DEF AtStep, Run
  <2> QED  BY <2>1 DEF RanInv, RunsAreAccountedFor
<1> QED  BY <1>1 DEF RanInv, RunsAreVerified, HasRun

\* A call that is executing has a verified plan for its event, and four records.
LEMMA ExecutingIsVerified ==
  ASSUME CallsInv, NEW c \in Callers, NEW step \in {"running", "executing"}, AtStep(c, step)
  PROVE  LET event == call[c].event
             plan  == call[c].plan
         IN /\ call[c].log = Log4(event, plan) /\ call[c].registry \in Registries
            /\ Verifies(call[c].registry, GraphOf(event), plan)
            /\ plan.graph = GraphId(event)
<1>1. call[c].step = step /\ IsCall(call[c])
  BY AtStepIsCall
<1> QED  BY <1>1, ResolvedPlan DEF IsCall, LogAt, PlanAt

\* A command that is started is that of a verified plan, and its call waits for it.
LEMMA StartKeepsRanInv ==
  ASSUME CallsInv, RanInv, NEW c \in Callers, Start(c)
  PROVE  RanInv'
<1>0. PICK r : r = Run(c, "none")
  OBVIOUS
<1>1. /\ ran' = ran \cup {r} /\ outcomes' = outcomes
      /\ call' = [call EXCEPT ![c].step = "executing"] /\ AtStep(c, "running")
  BY <1>0 DEF Start
<1>2. /\ r.registry = call[c].registry /\ r.implementation = call[c].plan.implementation
  BY <1>0 DEF Run
<1>3. (AtStep(c, "executing") /\ r = Run(c, "none"))'
  <2>1. call'[c] = [call[c] EXCEPT !.step = "executing"]
    BY <1>1 DEF CallsInv
  <2>2. HasShape(call[c])
    BY <1>1, AtStepIsCall DEF IsCall
  <2>3. /\ call'[c].step = "executing" /\ call'[c].number = call[c].number
        /\ call'[c].event = call[c].event /\ call'[c].registry = call[c].registry
        /\ call'[c].plan = call[c].plan
    BY <2>1, <2>2 DEF HasShape
  <2> QED  BY <1>0, <2>3 DEF AtStep, Run
<1>4. ASSUME NEW d \in Callers, AtStep(d, "executing")
      PROVE  AtStep(d, "executing")' /\ Run(d, "none")' = Run(d, "none")
  <2>1. d # c
    BY <1>1, <1>4 DEF AtStep
  <2>2. call'[d] = call[d]
    BY <1>1, <2>1
  <2> QED  BY <1>4, <2>2 DEF AtStep, Run
<1>5. RunsAreAccountedFor'
  <2> SUFFICES ASSUME NEW q \in ran'
               PROVE  \/ \E d \in Callers : (AtStep(d, "executing") /\ q = Run(d, "none"))'
                      \/ q.exit = "lost"
                      \/ \E o \in outcomes' :
                           /\ o.call = q.call /\ o.event = q.event
                           /\ o.plan.implementation = q.implementation
                           /\ o.task.state = q.exit /\ o.plan.graph = o.task.graph
                           /\ Explains(o)
    BY DEF RunsAreAccountedFor, Explains
  <2>1. CASE q = r
    BY <1>3, <2>1
  <2>2. CASE q \in ran
    BY <1>1, <1>4, <2>2 DEF RanInv, RunsAreAccountedFor
  <2> QED  BY <1>1, <2>1, <2>2
<1>6. RunsAreVerified'
  BY <1>1, <1>2, ExecutingIsVerified, VerifiedIsRunner DEF RanInv, RunsAreVerified
<1>7. \A o \in outcomes' : HasRun(o)'
  BY <1>1 DEF RanInv, HasRun
<1> QED  BY <1>5, <1>6, <1>7 DEF RanInv

\* The call of a command that ends lets go of it.  Every other run stays what it
\* was, and the one that ended is as verified as it was when it was started.
LEMMA EndKeepsRuns ==
  ASSUME CallsInv, RanInv, NEW c \in Callers, AtStep(c, "executing"), NEW exit,
         Ends(c, exit), Dropped(c), outcomes \subseteq outcomes'
  PROVE  /\ RunsAreVerified'
         /\ \A o \in outcomes : HasRun(o)'
         /\ \A r \in ran' : r # Run(c, exit) =>
              \/ \E d \in Callers : (AtStep(d, "executing") /\ r = Run(d, "none"))'
              \/ r.exit = "lost"
              \/ \E o \in outcomes' :
                   /\ o.call = r.call /\ o.event = r.event
                   /\ o.plan.implementation = r.implementation
                   /\ o.task.state = r.exit /\ o.plan.graph = o.task.graph
                   /\ Explains(o)
<1> DEFINE old == Run(c, "none")
           new == Run(c, exit)
<1>1. /\ ran' = (ran \ {old}) \cup {new} /\ call' = [call EXCEPT ![c] = NoCall]
  BY DEF Ends, Dropped
<1>2. /\ old.exit = "none" /\ new.registry = call[c].registry
      /\ new.implementation = call[c].plan.implementation
  BY DEF Run
<1>3. ASSUME NEW d \in Callers, AtStep(d, "executing"), Run(d, "none") # old
      PROVE  AtStep(d, "executing")' /\ Run(d, "none")' = Run(d, "none")
  <2>1. d # c
    BY <1>3
  <2>2. call'[d] = call[d]
    BY <1>1, <2>1
  <2> QED  BY <1>3, <2>2 DEF AtStep, Run
<1> HIDE DEF old, new
<1>4. RunsAreVerified'
  BY <1>1, <1>2, ExecutingIsVerified, VerifiedIsRunner DEF RanInv, RunsAreVerified
<1>5. ASSUME NEW o \in outcomes PROVE HasRun(o)'
  <2>1. PICK r \in ran :
          /\ r.call = o.call /\ r.implementation = o.plan.implementation
          /\ o.task.graph = <<"graph", <<"task", r.event>>>> /\ o.plan.graph = o.task.graph
          /\ r.exit = o.task.state /\ r.exit \in {"Completed", "Failed"}
    BY DEF RanInv, HasRun
  <2>2. r \in ran'
    BY <1>1, <1>2, <2>1
  <2> QED  BY <2>1, <2>2 DEF HasRun
<1>6. ASSUME NEW r \in ran', r # new
      PROVE  \/ \E d \in Callers : (AtStep(d, "executing") /\ r = Run(d, "none"))'
             \/ r.exit = "lost"
             \/ \E o \in outcomes' :
                  /\ o.call = r.call /\ o.event = r.event
                  /\ o.plan.implementation = r.implementation
                  /\ o.task.state = r.exit /\ o.plan.graph = o.task.graph
                  /\ Explains(o)
  <2>1. r \in ran /\ r # old
    BY <1>1, <1>6
  <2> QED  BY <1>3, <2>1 DEF RanInv, RunsAreAccountedFor
<1> QED  BY <1>4, <1>5, <1>6 DEF new

\* A run whose output the executor lost is accounted for as lost.
LEMMA OutputLostKeepsRanInv ==
  ASSUME CallsInv, RanInv, NEW c \in Callers, OutputLost(c)
  PROVE  RanInv'
<1>1. AtStep(c, "executing") /\ Ends(c, "lost") /\ Dropped(c) /\ outcomes' = outcomes
  BY DEF OutputLost
<1>2. Run(c, "lost").exit = "lost"
  BY DEF Run
<1>3. RunsAreAccountedFor'
  <2>1. \A r \in ran' :
          \/ \E d \in Callers : (AtStep(d, "executing") /\ r = Run(d, "none"))'
          \/ r.exit = "lost"
          \/ \E o \in outcomes' :
               /\ o.call = r.call /\ o.event = r.event
               /\ o.plan.implementation = r.implementation
               /\ o.task.state = r.exit /\ o.plan.graph = o.task.graph
               /\ Explains(o)
    BY <1>1, <1>2, EndKeepsRuns
  <2> QED  BY <2>1 DEF RunsAreAccountedFor, Explains
<1>4. RunsAreVerified' /\ \A o \in outcomes' : HasRun(o)'
  BY <1>1, EndKeepsRuns
<1> QED  BY <1>3, <1>4 DEF RanInv

\* A run that ended is returned, since append cannot refuse its record.
LEMMA FinishKeepsRanInv ==
  ASSUME CallsInv, RanInv, NEW c \in Callers, NEW state \in {"Completed", "Failed"},
         Finish(c, state)
  PROVE  RanInv'
<1> DEFINE event  == call[c].event
           plan   == call[c].plan
           record == ExecutionRecord(event, plan)
<1>1. AtStep(c, "executing") /\ Ends(c, state) /\ Dropped(c)
  BY DEF Finish
<1>2. /\ call[c].log = Log4(event, plan) /\ plan.graph = GraphId(event)
  BY <1>1, ExecutingIsVerified
<1>3. Appendable(call[c].log, record)
  BY <1>2, HistoryOfCall
<1>o. PICK o : o = Outcome(c, state, Appended(call[c].log, record))
  OBVIOUS
<1>r. PICK r : r = Run(c, state)
  OBVIOUS
<1>4. outcomes' = outcomes \cup {o} /\ r \in ran'
  BY <1>1, <1>3, <1>o, <1>r DEF Finish, Ends
<1>5. /\ o.call = r.call /\ o.event = r.event /\ o.plan = plan
      /\ r.exit = state /\ o.task.state = state
      /\ o.task.graph = <<"graph", <<"task", r.event>>>>
      /\ r.implementation = plan.implementation
      /\ o.event = event.id /\ o.records = Log5(event, plan).records
  BY <1>2, <1>o, <1>r DEF Outcome, Run, GraphId, TaskId, Log5
<1>6. Explains(o)
  BY <1>5, HistoryExplains
<1>7. plan.graph = o.task.graph
  BY <1>2, <1>5, <1>r DEF Run, GraphId, TaskId
<1>8. RunsAreAccountedFor'
  <2>1. \E p \in outcomes' :
          /\ p.call = r.call /\ p.event = r.event
          /\ p.plan.implementation = r.implementation
          /\ p.task.state = r.exit /\ p.plan.graph = p.task.graph
          /\ Explains(p)
    BY <1>4, <1>5, <1>6, <1>7
  <2>2. \A q \in ran' : q # r =>
          \/ \E d \in Callers : (AtStep(d, "executing") /\ q = Run(d, "none"))'
          \/ q.exit = "lost"
          \/ \E p \in outcomes' :
               /\ p.call = q.call /\ p.event = q.event
               /\ p.plan.implementation = q.implementation
               /\ p.task.state = q.exit /\ p.plan.graph = p.task.graph
               /\ Explains(p)
    BY <1>1, <1>4, <1>r, EndKeepsRuns
  <2> QED  BY <2>1, <2>2 DEF RunsAreAccountedFor, Explains
<1>9. HasRun(o)'
  BY <1>4, <1>5, <1>7 DEF HasRun
<1>10. RunsAreVerified' /\ \A p \in outcomes' : HasRun(p)'
  BY <1>1, <1>4, <1>9, EndKeepsRuns
<1> QED  BY <1>8, <1>10 DEF RanInv

\* What a correlator makes of an event has the event's identity as evidence.
LEMMA RulesCiteTheEvent ==
  ASSUME NEW event, NEW s \in SourceChange(event) \cup TestFailed(event)
  PROVE  s.evidence = event.id
BY DEF SourceChange, TestFailed, SituationFor

\* A duplicate changes nothing, and a new identity gets what the rules say of its event.
LEMMA IngestKeepsSeenInv ==
  ASSUME SeenInv, NEW event \in Events, Ingest(event)
  PROVE  SeenInv'
<1> DEFINE rules == SourceChange(event) \cup TestFailed(event)
<1>1. /\ delivered' = Append(delivered, event) /\ seen' = seen \cup {event.id}
      /\ event.id \in seen => situations' = situations
      /\ event.id \notin seen => situations' = situations \cup rules
  BY DEF Ingest, Situations, Duplicate, SeenAfter
<1>2. \A s \in rules : s.evidence = event.id
  BY RulesCiteTheEvent
<1> HIDE DEF rules
<1> DEFINE n == Len(delivered)
<1>3. /\ n \in Nat /\ DOMAIN delivered = 1 .. n
      /\ delivered' \in Seq(Events) /\ DOMAIN delivered' = 1 .. n + 1
      /\ \A i \in 1 .. n : delivered'[i] = delivered[i]
      /\ delivered'[n + 1] = event
  BY <1>1 DEF SeenInv
<1> HIDE DEF n
<1>4. \A i \in 1 .. n + 1 : i \in 1 .. n \/ i = n + 1
  BY <1>3
<1>5. 1 .. n \subseteq 1 .. n + 1 /\ n + 1 \in 1 .. n + 1
  BY <1>3
<1>6. seen' = {delivered'[i].id : i \in DOMAIN delivered'}
  <2>1. ASSUME NEW id \in seen' PROVE \E i \in 1 .. n + 1 : id = delivered'[i].id
    BY <1>1, <1>3, <1>5 DEF SeenInv
  <2>2. ASSUME NEW i \in 1 .. n + 1 PROVE delivered'[i].id \in seen'
    BY <1>1, <1>3, <1>4 DEF SeenInv
  <2> QED  BY <1>3, <2>1, <2>2
<1>7. \A s \in situations' : s.evidence \in seen'
  BY <1>1, <1>2 DEF SeenInv
<1>8. ASSUME NEW i \in 1 .. n + 1, \A j \in 1 .. i - 1 : delivered'[j].id # delivered'[i].id
      PROVE  {s \in situations' : s.evidence = delivered'[i].id} =
               SourceChange(delivered'[i]) \cup TestFailed(delivered'[i])
  <2>1. CASE i \in 1 .. n
    <3>1. \A j \in 1 .. i - 1 : j \in 1 .. n
      BY <1>3, <2>1
    <3>2. {s \in situations : s.evidence = delivered[i].id} =
            SourceChange(delivered[i]) \cup TestFailed(delivered[i])
      BY <1>3, <1>8, <2>1, <3>1 DEF SeenInv, FirstEventDecides
    <3>3. delivered[i].id \in seen
      BY <1>3, <2>1 DEF SeenInv
    <3>4. {s \in situations' : s.evidence = delivered[i].id} =
            {s \in situations : s.evidence = delivered[i].id}
      BY <1>1, <1>2, <3>3
    <3> QED  BY <1>3, <2>1, <3>2, <3>4
  <2>2. CASE i = n + 1
    <3>1. \A j \in 1 .. n : delivered[j].id # event.id
      BY <1>3, <1>8, <2>2
    <3>2. event.id \notin seen
      BY <1>3, <3>1 DEF SeenInv
    <3>3. {s \in situations' : s.evidence = event.id} = rules
      BY <1>1, <1>2, <3>2 DEF SeenInv
    <3> QED  BY <1>3, <2>2, <3>3 DEF rules
  <2> QED  BY <1>4, <2>1, <2>2
<1> QED  BY <1>3, <1>6, <1>7, <1>8 DEF SeenInv, FirstEventDecides

\* Every step of a call and of the correlator keeps the invariant.
LEMMA NextKeepsSliceInv == SliceInv /\ [Next]_vars => SliceInv'
<1> SUFFICES ASSUME SliceInv, [Next]_vars PROVE SliceInv'
  OBVIOUS
<1> USE DEF SliceInv
<1>1. ASSUME UNCHANGED <<call, ran, outcomes>> PROVE RanInv'
  BY <1>1 DEF RanInv, RunsAreAccountedFor, RunsAreVerified, HasRun, Explains, AtStep, Run
<1>2. ASSUME UNCHANGED <<seen, situations, delivered>> PROVE SeenInv'
  BY <1>2 DEF SeenInv, FirstEventDecides
<1>3. ASSUME UNCHANGED call PROVE CallsInv'
  BY <1>3 DEF CallsInv, IsCall, HasShape, LogAt, PlanAt
<1>4. ASSUME NEW c \in Callers, NEW event \in Events, NEW registry \in Registries,
             Observe(c, event, registry)
      PROVE  SliceInv'
  <2> DEFINE k == [number |-> calls + 1, event |-> event, registry |-> registry,
                   step |-> "observed", log |-> Appended(EmptyLog, EventRecord(event)),
                   task |-> "None", plan |-> <<>>]
  <2>1. /\ call' = [call EXCEPT ![c] = k]
        /\ UNCHANGED <<ran, outcomes, seen, situations, delivered>>
    BY <1>4 DEF Observe
  <2>2. IsCall(k)
    BY DEF IsCall, HasShape, LogAt, PlanAt, Log1
  <2> HIDE DEF k
  <2>3. ~AtStep(c, "executing")
    BY <1>4 DEF Observe, AtStep, NoCall
  <2> QED  BY <1>2, <2>1, <2>2, <2>3, OneCallMoves, IdleStepKeepsRanInv
<1>5. ASSUME NEW c \in Callers,
             \/ Derive(c) \/ NoSituation(c) \/ CreateTask(c) \/ Bind(c) \/ CannotBind(c)
             \/ Launch(c) \/ MissingCapsule(c) \/ ExecutionError(c)
      PROVE  SliceInv'
  <2>1. UNCHANGED <<ran, outcomes, seen, situations, delivered>>
    BY <1>5 DEF Derive, NoSituation, CreateTask, Bind, CannotBind, Launch, MissingCapsule,
       ExecutionError
  <2>2. CallsInv'
    BY <1>5, StepKeepsCallsInv
  <2>3. ~AtStep(c, "executing")
    BY <1>5 DEF AtStep, Derive, NoSituation, CreateTask, Bind, CannotBind, Launch,
       MissingCapsule, ExecutionError
  <2>4. \E k : call' = [call EXCEPT ![c] = k]
    BY <1>5 DEF Derive, NoSituation, CreateTask, Bind, CannotBind, Launch, MissingCapsule,
       ExecutionError, Advance, Dropped
  <2> QED  BY <1>2, <2>1, <2>2, <2>3, <2>4, IdleStepKeepsRanInv
<1>6. ASSUME NEW c \in Callers,
             Start(c) \/ OutputLost(c) \/ \E state \in {"Completed", "Failed"} : Finish(c, state)
      PROVE  SliceInv'
  <2>1. UNCHANGED <<seen, situations, delivered>>
    BY <1>6 DEF Start, OutputLost, Finish
  <2>2. CallsInv'
    BY <1>6, StepKeepsCallsInv
  <2>3. RanInv'
    BY <1>6, StartKeepsRanInv, OutputLostKeepsRanInv, FinishKeepsRanInv
  <2> QED  BY <1>2, <2>1, <2>2, <2>3
<1>7. ASSUME NEW event \in Events, Ingest(event) PROVE SliceInv'
  <2>1. UNCHANGED <<call, ran, outcomes>>
    BY <1>7 DEF Ingest
  <2> QED  BY <1>1, <1>3, <1>7, <2>1, IngestKeepsSeenInv
<1>8. CASE UNCHANGED vars
  BY <1>1, <1>2, <1>3, <1>8 DEF vars
<1> QED  BY <1>4, <1>5, <1>6, <1>7, <1>8 DEF Next

\* The invariant of the slice holds throughout.
LEMMA AlwaysSliceInv == Spec => []SliceInv
BY InitHasSliceInv, NextKeepsSliceInv, PTL DEF Spec

-----------------------------------------------------------------------------
(* What follows from it.                                                    *)

\* Once a command was started, only the executor can lose it: append cannot refuse
\* its record, so what the executor returns reaches the caller with the history
\* that explains it.  For any capsules, registries and number of calls.
THEOREM RunsReachTheirCallers == Spec => []RunsAreAccountedFor
<1>1. SliceInv => RunsAreAccountedFor
  BY DEF SliceInv, RanInv
<1> QED  BY <1>1, AlwaysSliceInv, PTL

\* Only what the verifier finds by its identity is run, in any registry.
THEOREM RunnersAreTrusted == Spec => []RunsAreVerified
<1>1. SliceInv => RunsAreVerified
  BY DEF SliceInv, RanInv
<1> QED  BY <1>1, AlwaysSliceInv, PTL

\* The first event of an identity decides, for any deliveries.
THEOREM FirstDeliveryCounts == Spec => []FirstEventDecides
<1>1. SliceInv => FirstEventDecides
  BY DEF SliceInv, SeenInv
<1> QED  BY <1>1, AlwaysSliceInv, PTL

\* A diagnosis is of a run that failed, with a binding that ran for its event.
THEOREM DiagnosesAreOfRuns == Spec => []DiagnosedTaskRan
<1>1. SliceInv => DiagnosedTaskRan
  <2> SUFFICES ASSUME SliceInv, NEW s \in situations, NEW o \in outcomes, NEW q \in outcomes,
                      Diagnosable(s, o.task, q.plan)
               PROVE  \E r, t \in ran : /\ r.call = o.call /\ r.exit = "Failed"
                                        /\ t.call = q.call
                                        /\ t.implementation = q.plan.implementation
                                        /\ t.event = r.event
    BY DEF DiagnosedTaskRan
  <2>1. PICK r \in ran : /\ r.call = o.call /\ r.exit = "Failed"
                         /\ o.task.graph = <<"graph", <<"task", r.event>>>>
    BY DEF SliceInv, RanInv, HasRun, Diagnosable
  <2>2. PICK t \in ran : /\ t.call = q.call /\ t.implementation = q.plan.implementation
                         /\ q.plan.graph = <<"graph", <<"task", t.event>>>>
    BY DEF SliceInv, RanInv, HasRun
  <2>3. t.event = r.event
    BY <2>1, <2>2 DEF Diagnosable
  <2> QED  BY <2>1, <2>2, <2>3
<1> QED  BY <1>1, AlwaysSliceInv, PTL

\* The lease is for the same identities however the lists are ordered, and names
\* a pair a user would want where identities are unique, in any registry.
THEOREM LeasesAreBest == Spec => []BestIsBound
<1>1. SliceInv => BestIsBound
  <2> SUFFICES ASSUME SliceInv, NEW c \in Callers, AtStep(c, "bound")
               PROVE  LET registry == call[c].registry
                          plan     == call[c].plan
                          leased   ==
                            [implementation |->
                               FirstWithId(registry.implementations, plan.implementation),
                             node |-> FirstWithId(registry.nodes, plan.node)]
                      IN /\ PlanOf(Backwards(registry), GraphOf(call[c].event)) = plan
                         /\ UniqueIds(registry) => leased \in WantedPairs(registry, "test.run")
    BY DEF BestIsBound
  <2> DEFINE registry == call[c].registry
             graph    == GraphOf(call[c].event)
             plan     == call[c].plan
             p        == First(registry, "test.run")
             leased   == [implementation |->
                            FirstWithId(registry.implementations, plan.implementation),
                          node |-> FirstWithId(registry.nodes, plan.node)]
  <2>1. registry \in Registries /\ Resolves(registry, graph) /\ plan = PlanOf(registry, graph)
    BY AtStepIsCall DEF SliceInv, IsCall, PlanAt
  <2>2. IsRegistry(registry)
    BY <2>1, RegistriesAreLists
  <2>3. CapabilityRole(graph).capability = "test.run"
    BY SliceGraph
  <2> HIDE DEF registry, graph, plan
  <2>4. ValidPairs(registry, CapabilityRole(graph).capability) # {}
    BY <2>1 DEF Resolves
  <2>5. PlanOf(Backwards(registry), graph) = plan
    BY <2>1, <2>2, <2>4, PlanIgnoresOrder
  <2>6. ASSUME UniqueIds(registry) PROVE leased \in WantedPairs(registry, "test.run")
    <3>1. /\ plan.implementation = registry.implementations[p[1]].id
          /\ plan.node = registry.nodes[p[2]].id
      BY <2>1, <2>3 DEF PlanOf
    <3>2. leased = EntriesAt(registry, p)
      BY <2>2, <2>3, <2>4, <2>6, <3>1, LeaseNamesChoice DEF EntriesAt
    <3> QED  BY <2>2, <2>3, <2>4, <3>2, FirstIsWanted
  <2> QED  BY <2>5, <2>6 DEF registry, graph, plan
<1> QED  BY <1>1, AlwaysSliceInv, PTL

\* The record of a binding finds its parent in the history of its call.
LEMMA BindingIsAppendable ==
  ASSUME NEW event, NEW plan
  PROVE  Appendable(Log3(event), BindingRecord(event, plan))
<1>1. DOMAIN Log1(event).index = {EventRecord(event).id}
  BY DEF Log1, Appended, EmptyLog
<1>2. DOMAIN Log2(event).index = DOMAIN Log1(event).index \cup {SituationRecord(event).id}
  BY DEF Log2, Appended
<1>3. DOMAIN Log3(event).index = DOMAIN Log2(event).index \cup {TaskRecord(event).id}
  BY DEF Log3, Appended
<1>4. /\ EventRecord(event).id[2] = "EventObserved"
      /\ SituationRecord(event).id[2] = "SituationDerived"
      /\ TaskRecord(event).id[2] = "TaskTransition"
      /\ BindingRecord(event, plan).id[2] = "BindingResolved"
      /\ BindingRecord(event, plan).parents = {TaskRecord(event).id}
  BY DEF EventRecord, SituationRecord, TaskRecord, BindingRecord, Record
<1> QED  BY <1>1, <1>2, <1>3, <1>4 DEF Appendable, Knows

\* Where identities are unique, a call that some pair of the registry can serve
\* does not end without a lease, for any registry and any number of calls.
THEOREM RunnableGetsLease == Spec => RunnableIsBound
<1> DEFINE Served(c) ==
      (/\ AtStep(c, "created") /\ call'[c] # call[c]
       /\ UniqueIds(call[c].registry) /\ WantedPairs(call[c].registry, "test.run") # {})
      => AtStep(c, "bound")'
<1>1. SliceInv /\ [Next]_vars => [\A c \in Callers : Served(c)]_vars
  <2> SUFFICES ASSUME SliceInv, Next, NEW c \in Callers, AtStep(c, "created"),
                      call'[c] # call[c], UniqueIds(call[c].registry),
                      WantedPairs(call[c].registry, "test.run") # {}
               PROVE  AtStep(c, "bound")'
    OBVIOUS
  <2> DEFINE registry == call[c].registry
             event    == call[c].event
             graph    == GraphOf(event)
             plan     == PlanOf(registry, graph)
  <2>1. /\ call[c].step = "created" /\ registry \in Registries /\ call[c].log = Log3(event)
        /\ HasShape(call[c]) /\ DOMAIN call = Callers
    BY AtStepIsCall DEF SliceInv, CallsInv, IsCall, PlanAt, LogAt
  <2>2. Resolves(registry, graph)
    <3>1. WantedPairs(registry, "test.run") \subseteq UsablePairs(registry, "test.run")
      BY DEF WantedPairs, Fewest
    <3>2. UsablePairs(registry, CapabilityRole(graph).capability) # {}
      BY <3>1, SliceGraph
    <3> QED  BY <2>1, <3>2, SliceGraph, RegistriesAreLists, UsableIsResolved
  <2>3. Bind(c)
    <3>1. ASSUME NEW d, NEW k, call' = [call EXCEPT ![d] = k] PROVE d = c
      BY <2>1, <3>1
    <3>2. call[c] # NoCall
      BY <2>1 DEF NoCall
    <3>3. ASSUME NEW d \in Callers, NEW e \in Events, NEW r \in Registries, Observe(d, e, r)
          PROVE  FALSE
      BY <3>1, <3>2, <3>3 DEF Observe
    <3>4. ASSUME NEW e \in Events, Ingest(e) PROVE FALSE
      BY <3>4 DEF Ingest
    <3>5. ASSUME NEW d \in Callers,
                 \/ Derive(d) \/ NoSituation(d) \/ CreateTask(d) \/ Launch(d)
                 \/ MissingCapsule(d) \/ ExecutionError(d) \/ Start(d) \/ OutputLost(d)
                 \/ \E state \in {"Completed", "Failed"} : Finish(d, state)
          PROVE  FALSE
      <4>1. d = c
        BY <2>1, <3>5 DEF Derive, NoSituation, CreateTask, Launch, MissingCapsule,
           ExecutionError, Start, OutputLost, Finish, Advance, Dropped
      <4> QED  BY <2>1, <3>5, <4>1 DEF AtStep, Derive, NoSituation, CreateTask, Launch,
               MissingCapsule, ExecutionError, Start, OutputLost, Finish
    <3>6. ASSUME NEW d \in Callers, Bind(d) PROVE d = c
      BY <2>1, <3>6 DEF Bind, Advance, Dropped
    <3>7. ASSUME NEW d \in Callers, CannotBind(d) PROVE FALSE
      <4>1. d = c
        BY <2>1, <3>7 DEF CannotBind, Dropped
      <4> QED  BY <2>2, <3>7, <4>1 DEF CannotBind
    <3> QED  BY <3>3, <3>4, <3>5, <3>6, <3>7 DEF Next
  <2> DEFINE fields == [call[c] EXCEPT !.plan = plan]
             k == [fields EXCEPT !.step = "bound",
                                 !.log = Appended(call[c].log, BindingRecord(event, plan))]
  <2>4. Appendable(call[c].log, BindingRecord(event, plan))
    BY <2>1, BindingIsAppendable
  <2>5. call' = [call EXCEPT ![c] = k]
    BY <2>3, <2>4 DEF Bind, Advance
  <2>6. k.step = "bound"
    BY <2>1 DEF HasShape
  <2> HIDE DEF k
  <2> QED  BY <2>1, <2>5, <2>6 DEF AtStep
<1>2. Spec => [][\A c \in Callers : Served(c)]_vars
  BY <1>1, AlwaysSliceInv, PTL DEF Spec
<1> QED  BY <1>2 DEF RunnableIsBound
=============================================================================
