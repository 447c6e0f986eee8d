------------------------------ MODULE MCSlice ------------------------------
(* Small registries, events and capsules for DevelopmentSlice.              *)
EXTENDS DevelopmentSlice

Event(id, kind, subjects, capability) ==
  [id |-> id, kind |-> kind, subjects |-> subjects, capability |-> capability]

\* Two changes of the active workspace, one of another, a failed test, and one
\* of another capability that bears the same identity.
MCEvents ==
  {Event("e1", "source.modified", {<<"workspace", "dev">>}, "none"),
   Event("e2", "source.modified", {<<"workspace", "dev">>}, "none"),
   Event("e3", "source.modified", {<<"workspace", "other">>}, "none"),
   Event("f1", "capability.failed", {<<"task", <<"task", "e1">>>>}, "test.run"),
   Event("f1", "capability.failed", {<<"task", <<"task", "e1">>>>}, "lint.run")}

Implementation(id, quality, cost) ==
  [id |-> id, implements |-> "test.run", runtime |-> "native", trusted |-> TRUE,
   platforms |-> {"linux"}, memory |-> 1, accelerators |-> {},
   quality |-> quality, cost |-> cost, latency |-> 1, energy |-> 1]

Node(id) ==
  [id |-> id, platform |-> "linux", trusted |-> TRUE, online |-> TRUE, memory |-> 1,
   accelerators |-> {}, runtimes |-> {"native"}]

\* Runners that differ in one thing each, and nodes that lack one thing each.
Runner    == Implementation(1, 1, 1)
Better    == Implementation(2, 2, 2)
Cheaper   == Implementation(3, 1, 0)
Untrusted == [Implementation(2, 2, 0) EXCEPT !.trusted = FALSE]
Portable  == [Implementation(4, 1, 1) EXCEPT !.platforms = {"*"}, !.memory = 1]
Linter    == [Implementation(5, 9, 0) EXCEPT !.implements = "lint.run"]
Local     == Node(1)
Peer      == Node(2)
Offline   == [Node(1) EXCEPT !.online = FALSE]
Small     == [Node(3) EXCEPT !.memory = 0]

Registry(implementations, nodes) ==
  [implementations |-> implementations, nodes |-> nodes]

\* No runner, one, two to choose from, two entries of one identity, no node.
MCRegistries ==
  {Registry(<<>>, <<Local>>),
   Registry(<<Runner, Better>>, <<Peer, Local>>),
   Registry(<<Runner, Cheaper>>, <<Local>>),
   Registry(<<Untrusted, Better>>, <<Local>>),
   Registry(<<Better, Untrusted>>, <<Offline, Peer>>),
   Registry(<<Portable, Linter>>, <<Small, Local>>)}

\* The third runner has no capsule, the fourth cannot be spawned.
MCCapsules == [id \in {1, 2, 4} |-> IF id = 4 THEN "unspawnable" ELSE "runs"]

MCSymmetry == Permutations(Callers)
=============================================================================
