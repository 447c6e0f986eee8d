--------------------------- MODULE CausalHistory ---------------------------
(***************************************************************************)
(* InMemoryCausalLog of blob-history: records in the order they came, and  *)
(* an index from their identities to their positions.  A record names its  *)
(* causes, which must be there before it.  A log is a value: several       *)
(* components keep one.                                                    *)
(***************************************************************************)
EXTENDS Integers, Sequences

EmptyLog == [records |-> <<>>, index |-> <<>>]

\* index.contains_key
Knows(log, id) == id \in DOMAIN log.index

\* Mutant: an identity that is known is taken again.
AppendableTwice(log, record) == \A parent \in record.parents : Knows(log, parent)

\* Mutant: the parents are not looked up.
AppendableOrphan(log, record) == ~Knows(log, record.id)

Appendable(log, record) ==
  /\ ~Knows(log, record.id)
  /\ \A parent \in record.parents : Knows(log, parent)

\* What append leaves behind when it succeeds.  When it fails it changes nothing.
Appended(log, record) ==
  [records |-> Append(log.records, record),
   index   |-> [id \in DOMAIN log.index \cup {record.id} |->
                  IF id = record.id THEN Len(log.records) + 1 ELSE log.index[id]]]

-----------------------------------------------------------------------------
\* The index finds every record at its place, so no two share an identity.
IndexAgrees(log) ==
  /\ DOMAIN log.index = {log.records[i].id : i \in 1 .. Len(log.records)}
  /\ \A i \in 1 .. Len(log.records) : log.index[log.records[i].id] = i

\* A cause stands before its effects, so nothing causes itself.
CausesFirst(log) ==
  \A i \in 1 .. Len(log.records) : \A parent \in log.records[i].parents :
    \E j \in 1 .. i - 1 : log.records[j].id = parent

WellFormed(log) == IndexAgrees(log) /\ CausesFirst(log)
=============================================================================
