----------------------------- MODULE PilotProofs -----------------------------
(***************************************************************************)
(* Proofs about ActivationGate, for any callers, operations, candidates,   *)
(* node conditions, profile and bounds; and about PilotPreflight, for any  *)
(* hosts and probers within the assumptions of the two modules: what the   *)
(* probe reads in pieces was so during the probe.                          *)
(***************************************************************************)
EXTENDS PilotPreflight, TLAPS

-----------------------------------------------------------------------------
(* The gate.                                                                *)

\* What passes every check of the gate is canonical for the root side.
LEMMA CheckedIsCanonical ==
  ASSUME NEW o, NEW m, Plannable(o, m)
  PROVE  CanonicalPlan(PlanFor(o, m))
BY DEF Plannable, FollowsPolicy, CanonicalPlan, PlanFor, RequiredEffect, RequiredAuthority,
       ExpectedEffect, SupportedActions, PreviewActivation, TestActivation

\* The times of a request that passes the gate's checks are those the root side wants.
LEMMA CheckedIsAcceptable ==
  ASSUME GateTimes, NEW o, NEW m, NEW s \in snapshots, NEW a \in receipts,
         Authorizes(a, o, s, now), Plannable(o, m)
  PROVE  Acceptable(RequestFor(o, m, s, a, now))
<1> DEFINE p == RequestFor(o, m, s, a, now)
<1>1. /\ p.node = s.node /\ p.authorization = a.id /\ p.plan = PlanFor(o, m)
      /\ p.readinessAt = s.observedAt /\ p.preparedAt = now /\ p.expiresAt = a.expiresAt
  BY DEF RequestFor
<1>2. CanonicalPlan(p.plan)
  BY <1>1, CheckedIsCanonical
<1>3. EvidenceMatches(p)
  BY DEF RequestFor, EvidenceMatches
<1>4. p.readinessAt <= now /\ now < p.expiresAt
  BY <1>1 DEF GateTimes, Authorizes
<1>5. now \in Nat
  BY DEF GateTimes
<1> HIDE DEF p
<1>6. TimestampsInOrder(p, now) /\ NotExpired(p, now)
  BY <1>1, <1>4, <1>5 DEF TimestampsInOrder, NotExpired
<1>7. FreshPreparation(p, now)
  BY <1>1, <1>5, AgeAssumption DEF FreshPreparation
<1>8. Acceptable(p)
  BY <1>1, <1>2, <1>3, <1>6, <1>7 DEF Acceptable, ValidatePrepared
<1> QED  BY <1>8 DEF p

\* The receipt and the snapshot of a call that passes the checks are its review.
LEMMA CheckedIsReviewed ==
  ASSUME GateTimes, NEW o, NEW m, NEW s \in snapshots, NEW a \in receipts,
         Ready(o.action, s), Authorizes(a, o, s, now)
  PROVE  Reviewed(RequestFor(o, m, s, a, now))
<1> DEFINE p == RequestFor(o, m, s, a, now)
<1>1. /\ p.node = s.node /\ p.authorization = a.id /\ p.readinessAt = s.observedAt
      /\ p.preparedAt = now /\ p.expiresAt = a.expiresAt
      /\ p.plan.operation = o.id /\ p.plan.action = o.action
      /\ p.plan.candidate = o.candidate /\ p.plan.systemSpec = o.systemSpec
  BY DEF RequestFor, PlanFor
<1> HIDE DEF p
<1>2. Reviewed(p)
  BY <1>1 DEF Authorizes, Reviewed
<1> QED  BY <1>2 DEF p

\* Snapshots and receipts stay, and so does a review.
LEMMA ReviewsLast ==
  ASSUME snapshots \subseteq snapshots', receipts \subseteq receipts', NEW p, Reviewed(p)
  PROVE  Reviewed(p)'
BY DEF Reviewed

\* A new gate has handed out nothing.
LEMMA InitHasGateInv == GateInit => GateInv
BY DEF GateInit, GateInv, GateTimes, RootAcceptsPrepared, BoundToReview

\* Every step of the gate, its callers and the clock keeps the invariant.
LEMMA NextKeepsGateInv == GateInv /\ [GateNext]_gateVars => GateInv'
<1> SUFFICES ASSUME GateInv, [GateNext]_gateVars PROVE GateInv'
  OBVIOUS
<1> USE GateAssumption DEF GateInv, RootAcceptsPrepared, BoundToReview
<1> DEFINE ReviewsKept == snapshots \subseteq snapshots' /\ receipts \subseteq receipts'
<1>0. ASSUME ReviewsKept, UNCHANGED <<call, prepared>>
      PROVE  /\ \A c \in Callers : call'[c] # NoCall => Reviewed(call[c])'
             /\ BoundToReview'
  <2>1. \A p : Reviewed(p) => Reviewed(p)'
    BY <1>0, ReviewsLast
  <2>2. ASSUME NEW c \in Callers, call'[c] # NoCall PROVE Reviewed(call[c])'
    <3>1. Reviewed(call[c])
      BY <1>0, <2>2
    <3> QED  BY <1>0, <3>1 DEF Reviewed
  <2> QED  BY <1>0, <2>1, <2>2
<1>1. ASSUME NEW condition \in Conditions, Probe(condition) PROVE GateInv'
  <2>1. ReviewsKept /\ UNCHANGED <<now, receipts, call, consumed, prepared, handedOut>>
    BY <1>1 DEF Probe
  <2>2. GateTimes'
    BY <1>1 DEF Probe, Snapshot, GateTimes
  <2> QED  BY <1>0, <2>1, <2>2
<1>2. ASSUME NEW id \in ReceiptIds, NEW o \in Operations, NEW s \in snapshots,
             NEW filled \in SUBSET ReceiptTexts, Grant(id, o, s, filled)
      PROVE  GateInv'
  <2>1. ReviewsKept /\ UNCHANGED <<now, snapshots, call, consumed, prepared, handedOut>>
    BY <1>2 DEF Grant
  <2>2. GateTimes'
    BY <1>2 DEF Grant, GateTimes
  <2> QED  BY <1>0, <2>1, <2>2
<1>3. ASSUME NEW c \in Callers, NEW o \in Operations, NEW m \in Candidates,
             NEW s \in snapshots, NEW a \in receipts, PassChecks(c, o, m, s, a)
      PROVE  GateInv'
  <2> DEFINE p == RequestFor(o, m, s, a, now)
  <2>1. Acceptable(p) /\ Reviewed(p)
    BY <1>3, CheckedIsAcceptable, CheckedIsReviewed DEF PassChecks
  <2>2. /\ call' = [call EXCEPT ![c] = p]
        /\ UNCHANGED <<now, snapshots, receipts, consumed, prepared, handedOut>>
    BY <1>3 DEF PassChecks
  <2> HIDE DEF p
  <2>3. \A d \in Callers : call'[d] # NoCall => Acceptable(call'[d]) /\ Reviewed(call[d])'
    BY <2>1, <2>2 DEF Reviewed
  <2>4. GateTimes' /\ BoundToReview'
    BY <2>2 DEF GateTimes, Reviewed
  <2> QED  BY <2>2, <2>3, <2>4
<1>4. ASSUME NEW c \in Callers, ConsumeOnce(c) PROVE GateInv'
  <2> DEFINE id == call[c].authorization
  <2>1. /\ call[c] # NoCall /\ id \notin consumed
        /\ consumed' = consumed \cup {id} /\ prepared' = prepared \cup {call[c]}
        /\ handedOut' = [handedOut EXCEPT ![id] = IF @ < 2 THEN @ + 1 ELSE 2]
        /\ call' = [call EXCEPT ![c] = NoCall]
        /\ UNCHANGED <<now, snapshots, receipts>>
    BY <1>4 DEF ConsumeOnce
  <2>2. handedOut' = [i \in ReceiptIds |-> IF i \in consumed' THEN 1 ELSE 0]
    BY <2>1
  <2>3. \A d \in Callers : call'[d] # NoCall => Acceptable(call'[d]) /\ Reviewed(call[d])'
    BY <2>1 DEF Reviewed
  <2>4. GateTimes' /\ BoundToReview'
    BY <2>1 DEF GateTimes, Reviewed
  <2> QED  BY <2>1, <2>2, <2>3, <2>4
<1>5. ASSUME NEW c \in Callers, ReceiptConsumed(c) PROVE GateInv'
  <2>1. /\ call' = [call EXCEPT ![c] = NoCall]
        /\ UNCHANGED <<now, snapshots, receipts, consumed, prepared, handedOut>>
    BY <1>5 DEF ReceiptConsumed
  <2> QED  BY <2>1 DEF GateTimes, Reviewed
<1>6. CASE Tick
  <2>1. GateTimes' /\ ReviewsKept /\ UNCHANGED <<call, consumed, prepared, handedOut>>
    BY <1>6 DEF Tick, GateTimes
  <2> QED  BY <1>0, <2>1
<1>7. CASE RestartGate
  <2>1. /\ call' = [c \in Callers |-> NoCall] /\ consumed' = {}
        /\ handedOut' = [id \in ReceiptIds |-> 0]
        /\ UNCHANGED <<now, snapshots, receipts, prepared>>
    BY <1>7 DEF RestartGate
  <2> QED  BY <2>1 DEF GateTimes, Reviewed
<1>8. CASE UNCHANGED gateVars
  BY <1>0, <1>8 DEF gateVars, GateTimes
<1> QED  BY <1>1, <1>2, <1>3, <1>4, <1>5, <1>6, <1>7, <1>8
         DEF GateNext, AfterProbes

\* The gate's invariant holds throughout (prepare, consume_once).
LEMMA AlwaysGateInv == GateSpec => []GateInv
BY InitHasGateInv, NextKeepsGateInv, PTL DEF GateSpec

\* What the gate hands out for the local node is refused by the root side, at
\* that time, for no reason but an old readiness snapshot.
THEOREM GateAgreesWithRoot == GateSpec => []RootAcceptsPrepared
<1>1. GateInv => RootAcceptsPrepared
  BY DEF GateInv
<1> QED  BY <1>1, AlwaysGateInv, PTL

\* One process of the gate hands out each receipt once at most.
THEOREM GateConsumesOnce == GateSpec => []OncePerProcess
<1>1. GateInv => OncePerProcess
  BY DEF GateInv, OncePerProcess
<1> QED  BY <1>1, AlwaysGateInv, PTL

\* Whatever the gate hands out was granted by name and for a reason, for that
\* operation, on a snapshot of its node that was ready for it, in the right order
\* of times.
THEOREM GateBindsReview == GateSpec => []BoundToReview
<1>1. GateInv => BoundToReview
  BY DEF GateInv
<1> QED  BY <1>1, AlwaysGateInv, PTL

-----------------------------------------------------------------------------
(* Honest readings.                                                         *)

\* Where some supply tells its type, external power is only found on a plugged machine.
LEMMA PowerIsHonest ==
  ASSUME host.plugged \in BOOLEAN, NEW power \in PowerReadings
  PROVE  /\ power \in {Unknown} \cup BOOLEAN
         /\ ReadableSupply /\ power = TRUE => host.plugged = TRUE
<1>1. ASSUME ReadableSupply, power = TRUE PROVE host.plugged = TRUE
  <2>1. PICK unread \in SUBSET UnreadableTypes, online \in {FALSE, host.plugged} :
          power = OnExternalPower(Supplies \ unread, online)
    BY <1>1, PilotAssumption DEF PowerReadings
  <2> QED  BY <1>1, <2>1, PilotAssumption DEF ReadableSupply, OnExternalPower
<1> QED  BY <1>1 DEF PowerReadings

\* Defaults of unknown facts make a snapshot claim less, never more (to_readiness).
LEMMA SnapshotIsHonest ==
  ASSUME NEW c \in Probers, HonestReading(probing[c]), NEW generation,
         NEW confirmed \in Confirmations
  PROVE  HonestSnapshot(Taken(c, generation, confirmed))
<1> DEFINE t == Taken(c, generation, confirmed)
           r == probing[c]
<1>1. /\ t.snapshot.freeSpace = Or(r.space, 0)
      /\ t.snapshot.externalPower = Or(Or(r.power, confirmed.powerOverride), FALSE)
      /\ t.snapshot.consoleConfirmed = confirmed.console
      /\ t.during = r.during /\ t.confirmed = confirmed
  BY DEF Taken, Snapshot, Readiness
<1> HIDE DEF t
<1>2. t.snapshot.freeSpace \in Nat /\ \E m \in t.during : m.space >= t.snapshot.freeSpace
  <2>1. ASSUME NEW m \in r.during PROVE m.space \in 0 .. MaxSpace
    BY DEF HonestReading, Hosts
  <2>2. CASE r.space = Unknown
    BY <1>1, <2>1, <2>2, PilotAssumption DEF HonestReading, Or
  <2>3. CASE r.space # Unknown
    <3>1. PICK m \in r.during : m.space = r.space
      BY <2>3 DEF HonestReading
    <3>2. t.snapshot.freeSpace = m.space
      BY <1>1, <2>3, <3>1 DEF Or
    <3> QED  BY <1>1, <2>1, <3>1, <3>2, PilotAssumption
  <2> QED  BY <2>2, <2>3
<1>3. confirmed.powerOverride \in {Unknown} \cup BOOLEAN
  BY PilotAssumption
<1>4. t.snapshot.externalPower \in BOOLEAN
  BY <1>1, <1>3 DEF HonestReading, Or
<1>5. ASSUME ReadableSupply, t.snapshot.externalPower = TRUE
      PROVE  (\E m \in t.during : m.plugged = TRUE) \/ t.confirmed.powerOverride = TRUE
  <2>1. r.power = TRUE \/ confirmed.powerOverride = TRUE
    BY <1>1, <1>5 DEF Or
  <2> QED  BY <1>1, <1>5, <2>1 DEF HonestReading
<1>6. HonestSnapshot(t)
  BY <1>1, <1>2, <1>4, <1>5 DEF HonestSnapshot, HonestReading
<1> QED  BY <1>6 DEF t

-----------------------------------------------------------------------------
(* The invariant.                                                           *)

\* Nothing was read, and no snapshot taken.
LEMMA InitHasPilotInv == PilotInit => PilotInv
BY PilotAssumption DEF PilotInit, GateInit, PilotInv, Hosts

\* A probe's readings stay honest when the host changes during the probe.
LEMMA ChangeKeepsReadingsHonest ==
  ASSUME PilotInv, HostChanges, NEW c \in Probers, probing[c] # NoProbe,
         NEW r, r = [probing[c] EXCEPT !.during = @ \cup {host'}], host' \in Hosts
  PROVE  HonestReading(r)'
<1>1. /\ r.power = probing[c].power /\ r.space = probing[c].space
      /\ r.during = probing[c].during \cup {host'}
  BY DEF PilotInv, HonestReading
<1>2. HonestReading(probing[c])
  BY DEF PilotInv
<1> QED  BY <1>1, <1>2 DEF HonestReading

\* What was read stays something that was so, whatever the host does.
LEMMA NextKeepsPilotInv == PilotInv /\ [PilotNext]_pilotVars => PilotInv'
<1> SUFFICES ASSUME PilotInv, [PilotNext]_pilotVars PROVE PilotInv'
  OBVIOUS
<1> USE DEF PilotInv
<1>0. ASSUME UNCHANGED taken PROVE (\A t \in taken : HonestSnapshot(t))'
  BY <1>0 DEF HonestSnapshot
<1>1. CASE HostChanges
  <2>1. UNCHANGED <<snapshots, taken>>
    BY <1>1 DEF HostChanges, gateVars
  <2>2. host' \in Hosts
    BY <1>1 DEF HostChanges, Hosts
  <2>3. probing' = [c \in Probers |->
          IF probing[c] = NoProbe THEN NoProbe ELSE [probing[c] EXCEPT !.during = @ \cup {host'}]]
    BY <1>1 DEF HostChanges
  <2>4. ASSUME NEW c \in Probers, probing'[c] # NoProbe PROVE HonestReading(probing[c])'
    <3>1. PICK r : r = probing'[c]
      OBVIOUS
    <3>2. probing[c] # NoProbe /\ r = [probing[c] EXCEPT !.during = @ \cup {host'}]
      BY <2>3, <2>4, <3>1
    <3>3. HonestReading(r)'
      BY <1>1, <2>2, <3>2, ChangeKeepsReadingsHonest
    <3> QED  BY <3>1, <3>3 DEF HonestReading
  <2> QED  BY <1>0, <2>1, <2>2, <2>3, <2>4
<1>2. ASSUME NEW c \in Probers, ReadPower(c) PROVE PilotInv'
  <2>1. PICK power \in PowerReadings : probing' = [probing EXCEPT ![c] =
          [power |-> power, space |-> Unknown, step |-> "space", during |-> {host}]]
    BY <1>2 DEF ReadPower
  <2>2. UNCHANGED <<snapshots, host, taken>>
    BY <1>2 DEF ReadPower, gateVars
  <2>3. HonestReading(probing[c])'
    BY <2>1, <2>2, PowerIsHonest DEF HonestReading, Hosts
  <2>4. \A d \in Probers : d # c => probing'[d] = probing[d]
    BY <2>1
  <2> QED  BY <1>0, <2>1, <2>2, <2>3, <2>4 DEF HonestReading
<1>3. ASSUME NEW c \in Probers, ReadSpace(c) PROVE PilotInv'
  <2>1. PICK space \in {Unknown, host.space} :
          probing' = [probing EXCEPT ![c].space = space, ![c].step = "time"]
    BY <1>3 DEF ReadSpace
  <2>2. UNCHANGED <<snapshots, host, taken>> /\ probing[c] # NoProbe
    BY <1>3 DEF ReadSpace, gateVars
  <2>3. /\ probing'[c].power = probing[c].power /\ probing'[c].during = probing[c].during
        /\ probing'[c].space = space
    BY <2>1, <2>2 DEF HonestReading
  <2>4. HonestReading(probing[c])'
    BY <2>2, <2>3, PilotAssumption DEF HonestReading
  <2>5. \A d \in Probers : d # c => probing'[d] = probing[d]
    BY <2>1
  <2> QED  BY <1>0, <2>1, <2>2, <2>4, <2>5 DEF HonestReading
<1>4. ASSUME NEW c \in Probers, NEW generation \in {Unknown, "system-1-link"},
             NEW confirmed \in Confirmations, TakeSnapshot(c, generation, confirmed)
      PROVE  PilotInv'
  <2>1. PICK s : s = Snapshot(Readiness(probing[c], generation, confirmed))
    OBVIOUS
  <2>2. PICK t : t = Taken(c, generation, confirmed)
    OBVIOUS
  <2>3. /\ probing[c] # NoProbe /\ snapshots' = snapshots \cup {s}
        /\ taken' = taken \cup {t} /\ probing' = [probing EXCEPT ![c] = NoProbe]
        /\ host' = host
    BY <1>4, <2>1, <2>2 DEF TakeSnapshot, Probe
  <2>4. HonestSnapshot(t) /\ t.snapshot = s
    BY <2>1, <2>2, <2>3, SnapshotIsHonest DEF Taken
  <2>5. (\A u \in taken : HonestSnapshot(u))'
    BY <2>3, <2>4 DEF HonestSnapshot
  <2>6. (\A d \in Probers : probing[d] # NoProbe => HonestReading(probing[d]))'
    BY <2>3 DEF HonestReading
  <2> QED  BY <2>3, <2>4, <2>5, <2>6
<1>5. CASE AfterProbes /\ UNCHANGED <<host, hostChanges, probing, taken>>
  <2>1. UNCHANGED snapshots
    BY <1>5 DEF AfterProbes, Grant, PassChecks, ConsumeOnce, ReceiptConsumed, Tick, RestartGate
  <2> QED  BY <1>0, <1>5, <2>1 DEF HonestReading
<1>6. CASE UNCHANGED pilotVars
  BY <1>0, <1>6 DEF pilotVars, gateVars, HonestReading
<1> QED  BY <1>1, <1>2, <1>3, <1>4, <1>5, <1>6 DEF PilotNext

\* Honest readings make honest snapshots throughout.
LEMMA AlwaysPilotInv == PilotSpec => []PilotInv
BY InitHasPilotInv, NextKeepsPilotInv, PTL DEF PilotSpec

\* Where some supply tells what it is, a snapshot says "external power" only of a
\* machine that was plugged in at some moment of the probe, or by the user's word,
\* whatever the host does meanwhile.
THEOREM PowerKnown == ReadableSupply => (PilotSpec => []PowerIsKnown)
<1> SUFFICES ASSUME ReadableSupply PROVE PilotSpec => []PowerIsKnown
  OBVIOUS
<1>1. PilotInv => PowerIsKnown
  <2> SUFFICES ASSUME PilotInv, NEW t \in taken, t.snapshot.externalPower PROVE Powered(t)
    BY DEF PowerIsKnown
  <2>1. HonestSnapshot(t)
    BY DEF PilotInv
  <2>2. (\E m \in t.during : m.plugged = TRUE) \/ t.confirmed.powerOverride = TRUE
    BY <2>1 DEF HonestSnapshot
  <2> QED  BY <2>2 DEF Powered
<1> QED  BY <1>1, AlwaysPilotInv, PTL

-----------------------------------------------------------------------------
(* The gate behind the probe.                                               *)

\* What is proved of the gate for any conditions a probe may find holds of it
\* here: at the end of a probe the gate is given one of them.
LEMMA StepIsGateStep == PilotInv /\ [PilotNext]_pilotVars => [GateNext]_gateVars
<1> SUFFICES ASSUME PilotInv, [PilotNext]_pilotVars PROVE [GateNext]_gateVars
  OBVIOUS
<1>1. ASSUME NEW c \in Probers, NEW generation \in {Unknown, "system-1-link"},
             NEW confirmed \in Confirmations, TakeSnapshot(c, generation, confirmed)
      PROVE  GateNext
  <2> DEFINE condition == Readiness(probing[c], generation, confirmed)
  <2>1. probing[c] # NoProbe /\ Probe(condition)
    BY <1>1 DEF TakeSnapshot
  <2>2. /\ probing[c].power \in {Unknown} \cup BOOLEAN
        /\ probing[c].space \in {Unknown} \cup 0 .. MaxSpace
    BY <2>1 DEF PilotInv, HonestReading, Hosts
  <2>3. Readiness([power |-> probing[c].power, space |-> probing[c].space],
                  generation, confirmed) \in Conditions
    BY <2>2, PilotAssumption
  <2>4. condition \in Conditions
    BY <2>3 DEF Readiness
  <2> QED  BY <2>1, <2>4 DEF GateNext
<1>2. HostChanges \/ (\E c \in Probers : ReadPower(c) \/ ReadSpace(c)) => UNCHANGED gateVars
  BY DEF HostChanges, ReadPower, ReadSpace
<1>3. AfterProbes => GateNext
  BY DEF GateNext
<1>4. UNCHANGED pilotVars => UNCHANGED gateVars
  BY DEF pilotVars
<1> QED  BY <1>1, <1>2, <1>3, <1>4 DEF PilotNext

\* So the gate's invariants hold behind the probe.
LEMMA PilotHasGate == PilotSpec => GateSpec
<1>1. PilotInit => GateInit
  BY DEF PilotInit
<1> QED  BY <1>1, AlwaysPilotInv, StepIsGateStep, PTL DEF PilotSpec, GateSpec

\* A live test is prepared only for a machine that was fit for it during the
\* probe its snapshot comes from, as far as the profile demands it.
THEOREM TestedWereFit == ReadableSupply => (PilotSpec => []TestedNodeWasFit)
<1> SUFFICES ASSUME ReadableSupply PROVE PilotSpec => []TestedNodeWasFit
  OBVIOUS
<1>1. ASSUME PilotInv, BoundToReview PROVE TestedNodeWasFit
  <2> SUFFICES ASSUME NEW p \in prepared, p.plan.action = TestActivation
               PROVE  \E t \in taken :
                        /\ t.snapshot.observedAt = p.readinessAt
                        /\ Preflight(TestActivation, t.snapshot).eligible
                        /\ Profile.needsPower => Powered(t)
                        /\ \E m \in t.during : m.space >= Profile.minFreeSpace
                        /\ Profile.needsConsole => t.confirmed.console
    BY DEF TestedNodeWasFit
  <2>1. PICK s \in snapshots : s.observedAt = p.readinessAt /\ Ready(TestActivation, s)
    BY <1>1 DEF BoundToReview, Reviewed
  <2>2. PICK t \in taken : t.snapshot = s /\ HonestSnapshot(t)
    BY <1>1 DEF PilotInv
  <2>3. NodeViolations(s) = {} /\ LiveTestViolations(s) = {}
    BY <2>1 DEF Ready, Violations, TestActivation, PreviewActivation
  <2>4. s.freeSpace >= Profile.minFreeSpace
    BY <2>3 DEF NodeViolations, Unless
  <2>5. /\ Profile.needsPower => s.externalPower
        /\ Profile.needsConsole => s.consoleConfirmed
    BY <2>3 DEF LiveTestViolations, Unless
  <2>6. \E m \in t.during : m.space >= Profile.minFreeSpace
    <3>1. PICK m \in t.during : m.space >= s.freeSpace
      BY <2>2 DEF HonestSnapshot
    <3>2. m.space \in Nat /\ s.freeSpace \in Nat
      BY <2>2, PilotAssumption DEF HonestSnapshot, Hosts
    <3> QED  BY <2>4, <3>1, <3>2, PilotAssumption
  <2>7. Profile.needsPower => Powered(t)
    <3>1. ASSUME Profile.needsPower
          PROVE  (\E m \in t.during : m.plugged = TRUE) \/ t.confirmed.powerOverride = TRUE
      BY <2>2, <2>5, <3>1 DEF HonestSnapshot
    <3> QED  BY <3>1 DEF Powered
  <2>8. Profile.needsConsole => t.confirmed.console
    BY <2>2, <2>5 DEF HonestSnapshot
  <2>9. Preflight(TestActivation, t.snapshot).eligible
    BY <2>1, <2>2 DEF Preflight, Ready
  <2> QED  BY <2>1, <2>2, <2>6, <2>7, <2>8, <2>9
<1>2. GateSpec => []BoundToReview
  BY GateBindsReview
<1>3. PilotSpec => GateSpec
  BY PilotHasGate
<1> QED  BY <1>1, <1>2, <1>3, AlwaysPilotInv, PTL
=============================================================================
