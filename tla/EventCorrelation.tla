-------------------------- MODULE EventCorrelation --------------------------
(***************************************************************************)
(* blob-alfred: a correlator that takes each event identity once, and the  *)
(* two rules that turn an event into a situation.  A correlator is a value *)
(* of the identities it has seen.                                          *)
(***************************************************************************)
EXTENDS Integers, FiniteSets

CONSTANT ActiveWorkspace

SituationFor(rule, kind, event) ==
  [id |-> <<"situation", rule, event.id>>, kind |-> kind,
   evidence |-> event.id, subjects |-> event.subjects]

\* SourceChangeRequiresTestRule
SourceChange(event) ==
  IF event.kind = "source.modified" /\ <<"workspace", ActiveWorkspace>> \in event.subjects
  THEN {SituationFor("source-change", "development.source-change-requires-test", event)}
  ELSE {}

\* TestFailedRule
TestFailed(event) ==
  IF /\ event.kind = "capability.failed"
     /\ \E s \in event.subjects : s[1] = "task"
     /\ event.capability = "test.run"
  THEN {SituationFor("test-failed", "development.test-failed", event)}
  ELSE {}

-----------------------------------------------------------------------------
NewAlfred == {}

\* Mutant: every delivery runs the rules.
DuplicateNever(seen, event) == FALSE

Duplicate(seen, event) == event.id \in seen

\* ingest marks the identity as seen before any rule runs.
SeenAfter(seen, event) == seen \cup {event.id}

\* The situations of one ingest, where rules is what the configured ones give.
Situations(seen, event, rules) == IF Duplicate(seen, event) THEN {} ELSE rules
=============================================================================
