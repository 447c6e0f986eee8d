-------------------------- MODULE GrowingHistory ---------------------------
(***************************************************************************)
(* What a causal history promises, whoever keeps it and however: a record  *)
(* is added once and stays as it is, and its causes were recorded before.  *)
(***************************************************************************)
VARIABLE recorded

Recorded(id) == \E r \in recorded : r.id = id

GrowingInit == recorded = {}

Grow(r) ==
  /\ ~Recorded(r.id)
  /\ \A parent \in r.parents : Recorded(parent)
  /\ recorded' = recorded \cup {r}

GrowingNext == \E r \in recorded' : Grow(r)

GrowingSpec == GrowingInit /\ [][GrowingNext]_recorded
=============================================================================
