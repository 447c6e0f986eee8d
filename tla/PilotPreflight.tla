--------------------------- MODULE PilotPreflight ---------------------------
(***************************************************************************)
(* blob-node-probe in front of the gate: a caller reads the host piece by  *)
(* piece while the host changes, adds what the user confirmed, and has a   *)
(* readiness snapshot of the kind ActivationGate takes in one step.        *)
(*                                                                         *)
(* A reading that fails is unknown.  The architecture and the os-release   *)
(* file either let the probe go on or end it without effect.               *)
(***************************************************************************)
EXTENDS ActivationGate

CONSTANTS
  Probers,          \* threads that probe the node
  Supplies,         \* the entries of /sys/class/power_supply: "Battery", "Mains"
  UnreadableTypes,  \* those whose type file may fail to be read
  Confirmations,    \* NodeSafetyConfirmations the user may give
  ProfileNode,      \* the node the probe is told it runs on
  Architecture,     \* the one the probe is built for
  Unknown,          \* a fact the probe could not establish
  NoProbe,          \* "no probe under way"
  MaxSpace,         \* bound of the free space
  MaxHostChanges    \* bound: how often the host changes

VARIABLES
  host,         \* the machine: is it plugged in, and its free space
  hostChanges,
  probing,      \* what each probe under way has read; history: what the host was meanwhile
  taken         \* history: each snapshot, with what the host was during its probe

pilotVars == <<gateVars, host, hostChanges, probing, taken>>

-----------------------------------------------------------------------------
(* probe_external_power, from the types that could be read and what the     *)
(* online file of the mains supply said.                                    *)

\* Mutant: an external source counts whether or not it is online.
AssumesOnline(types, online) ==
  IF "Mains" \in types THEN TRUE
  ELSE IF "Battery" \in types THEN Unknown ELSE TRUE

OnExternalPower(types, online) ==
  IF "Mains" \in types THEN online
  ELSE IF "Battery" \in types THEN Unknown ELSE TRUE

\* The directory may be unreadable, and an online file that fails reads as 0.
PowerReadings ==
  {power \in {Unknown} \cup BOOLEAN :
     \/ power = Unknown
     \/ \E unread \in SUBSET UnreadableTypes, online \in {FALSE, host.plugged} :
          power = OnExternalPower(Supplies \ unread, online)}

-----------------------------------------------------------------------------
(* NixOsProbeSnapshot::to_readiness, up to the time.                        *)

Or(observed, otherwise) == IF observed = Unknown THEN otherwise ELSE observed

Readiness(reading, generation, confirmed) ==
  [node |-> ProfileNode, architecture |-> Architecture, substrate |-> "NixOs",
   enrolled |-> confirmed.enrolled, trusted |-> confirmed.trusted,
   storageOk |-> confirmed.storageOk,
   freeSpace |-> Or(reading.space, 0),
   externalPower |-> Or(Or(reading.power, confirmed.powerOverride), FALSE),
   consoleConfirmed |-> confirmed.console,
   bootGenerationKnown |-> generation # Unknown,
   rollbackKnown |-> generation # Unknown]

\* What ActivationGate lets a probe find covers whatever this one can conclude.
ASSUME PilotAssumption ==
  /\ Unknown \notin BOOLEAN
  /\ MaxSpace \in Nat
  /\ Profile.minFreeSpace \in Nat
  /\ \A confirmed \in Confirmations :
       /\ confirmed.powerOverride \in {Unknown} \cup BOOLEAN
       /\ \A power \in {Unknown} \cup BOOLEAN, space \in {Unknown} \cup 0 .. MaxSpace,
            generation \in {Unknown, "system-1-link"} :
            Readiness([power |-> power, space |-> space], generation, confirmed) \in Conditions

-----------------------------------------------------------------------------
PilotInit ==
  /\ GateInit
  /\ host        = [plugged |-> TRUE, space |-> MaxSpace]
  /\ hostChanges = 0
  /\ probing     = [c \in Probers |-> NoProbe]
  /\ taken       = {}

\* Somebody pulls or plugs the charger, or fills or frees the store.  As a bound
\* this ends with the last snapshot: nobody looks at the host after it.
HostChanges ==
  /\ hostChanges < MaxHostChanges /\ Cardinality(snapshots) < MaxSnapshots
  /\ hostChanges' = hostChanges + 1
  /\ \/ host' = [host EXCEPT !.plugged = ~@]
     \/ \E n \in 0 .. MaxSpace : host' = [host EXCEPT !.space = n]
  /\ probing' = [c \in Probers |->
       IF probing[c] = NoProbe THEN NoProbe ELSE [probing[c] EXCEPT !.during = @ \cup {host'}]]
  /\ UNCHANGED <<gateVars, taken>>

\* observe_current_host starts with the power supplies.
ReadPower(c) ==
  /\ probing[c] = NoProbe
  /\ Cardinality(snapshots) < MaxSnapshots
  /\ \E power \in PowerReadings :
       probing' = [probing EXCEPT ![c] =
         [power |-> power, space |-> Unknown, step |-> "space", during |-> {host}]]
  /\ UNCHANGED <<gateVars, host, hostChanges, taken>>

\* df may fail, or print what cannot be parsed.
ReadSpace(c) ==
  /\ probing[c] # NoProbe /\ probing[c].step = "space"
  /\ \E space \in {Unknown, host.space} :
       probing' = [probing EXCEPT ![c].space = space, ![c].step = "time"]
  /\ UNCHANGED <<gateVars, host, hostChanges, taken>>

Taken(c, generation, confirmed) ==
  [snapshot  |-> Snapshot(Readiness(probing[c], generation, confirmed)),
   during    |-> probing[c].during,
   confirmed |-> confirmed]

\* Mutant: the readings are kept for the next probe.
TakeSnapshotKeepingReadings(c, generation, confirmed) ==
  /\ probing[c] # NoProbe /\ probing[c].step = "time"
  /\ Probe(Readiness(probing[c], generation, confirmed))
  /\ taken' = taken \cup {Taken(c, generation, confirmed)}
  /\ probing' = [probing EXCEPT ![c].during = {host}]
  /\ UNCHANGED <<host, hostChanges>>

\* The profile link, the time, and the confirmations make the snapshot.
TakeSnapshot(c, generation, confirmed) ==
  /\ probing[c] # NoProbe /\ probing[c].step = "time"
  /\ Probe(Readiness(probing[c], generation, confirmed))
  /\ taken' = taken \cup {Taken(c, generation, confirmed)}
  /\ probing' = [probing EXCEPT ![c] = NoProbe]
  /\ UNCHANGED <<host, hostChanges>>

PilotNext ==
  \/ HostChanges
  \/ \E c \in Probers :
       \/ ReadPower(c) \/ ReadSpace(c)
       \/ \E generation \in {Unknown, "system-1-link"}, confirmed \in Confirmations :
            TakeSnapshot(c, generation, confirmed)
  \/ AfterProbes /\ UNCHANGED <<host, hostChanges, probing, taken>>

PilotSpec == PilotInit /\ [][PilotNext]_pilotVars

-----------------------------------------------------------------------------
(* explain_physical_node_preflight: what the technician shows of it.        *)

Preflight(action, s) == [eligible |-> Violations(action, s) = {}, reasons |-> Violations(action, s)]

-----------------------------------------------------------------------------
(* Properties.                                                              *)

\* The machine was plugged in at some moment of the probe, or the user says it was.
Powered(t) == (\E m \in t.during : m.plugged) \/ t.confirmed.powerOverride = TRUE

\* A snapshot claims external power only if the machine had it at some moment of
\* the probe, or by the user's word: what could not be read is taken as unsafe
\* (probe_external_power, to_readiness).
PowerIsKnown == \A t \in taken : t.snapshot.externalPower => Powered(t)

\* A live test is prepared only for a machine that was on external power at some
\* moment of the probe, or by the user's word, that had the space at some moment,
\* and whose console the user confirmed, as the profile demands; and the
\* technician had shown it as eligible.  What the host was is recorded apart from
\* what the probe reads of it (observe_current_host, to_readiness,
\* validate_readiness and validate_for together).
TestedNodeWasFit ==
  \A p \in prepared : p.plan.action = TestActivation =>
    \E t \in taken :
      /\ t.snapshot.observedAt = p.readinessAt
      /\ Preflight(TestActivation, t.snapshot).eligible
      /\ Profile.needsPower => Powered(t)
      /\ \E m \in t.during : m.space >= Profile.minFreeSpace
      /\ Profile.needsConsole => t.confirmed.console

-----------------------------------------------------------------------------
(* The inductive invariant behind the two.                                  *)

\* Some supply tells what it is, so that the probe does not take a machine whose
\* supplies it cannot read for one without a battery.
ReadableSupply == (Supplies \ UnreadableTypes) \cap {"Mains", "Battery"} # {}

Hosts == [plugged : BOOLEAN, space : 0 .. MaxSpace]

\* The host is what it was at the last change, and what was read was once so.
HonestReading(r) ==
  /\ r.during \subseteq Hosts /\ host \in r.during
  /\ r.power \in {Unknown} \cup BOOLEAN
  /\ r.space = Unknown \/ \E m \in r.during : m.space = r.space
  /\ ReadableSupply /\ r.power = TRUE => \E m \in r.during : m.plugged = TRUE

HonestSnapshot(t) ==
  /\ t.during \subseteq Hosts
  /\ t.snapshot.freeSpace \in Nat
  /\ \E m \in t.during : m.space >= t.snapshot.freeSpace
  /\ t.snapshot.consoleConfirmed = t.confirmed.console
  /\ t.snapshot.externalPower \in BOOLEAN
  /\ ReadableSupply /\ t.snapshot.externalPower = TRUE =>
       (\E m \in t.during : m.plugged = TRUE) \/ t.confirmed.powerOverride = TRUE

\* Readings are honest, and every snapshot the gate may be given is made of one.
PilotInv ==
  /\ host \in Hosts
  /\ DOMAIN probing = Probers
  /\ \A c \in Probers : probing[c] # NoProbe => HonestReading(probing[c])
  /\ \A t \in taken : HonestSnapshot(t)
  /\ \A s \in snapshots : \E t \in taken : t.snapshot = s
=============================================================================
