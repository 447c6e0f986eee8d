--------------------------- MODULE ResolverProofs ---------------------------
(***************************************************************************)
(* Proofs about CapabilityResolver, for every registry: the pair that is   *)
(* chosen exists, is one a user would want, does not depend on the order   *)
(* of the lists, and is accepted by the verifier where identities are      *)
(* unique.                                                                 *)
(***************************************************************************)
EXTENDS CapabilityResolver, FiniteOrders

-----------------------------------------------------------------------------
(* The order of the candidates.                                             *)

\* Precedes is a strict order on the keys of one length.
LEMMA PrecedesIsOrder ==
  ASSUME NEW n \in Nat, NEW k \in [1 .. n -> Int], NEW l \in [1 .. n -> Int],
         NEW o \in [1 .. n -> Int]
  PROVE  /\ ~Precedes(k, k)
         /\ Precedes(k, l) /\ Precedes(l, o) => Precedes(k, o)
         /\ k = l \/ Precedes(k, l) \/ Precedes(l, k)
<1>1. ~Precedes(k, k)
  BY DEF Precedes
<1>2. ASSUME Precedes(k, l), Precedes(l, o) PROVE Precedes(k, o)
  <2>1. PICK a \in 1 .. n : k[a] < l[a] /\ \A b \in 1 .. a - 1 : k[b] = l[b]
    BY <1>2 DEF Precedes
  <2>2. PICK c \in 1 .. n : l[c] < o[c] /\ \A b \in 1 .. c - 1 : l[b] = o[b]
    BY <1>2 DEF Precedes
  <2>3. CASE a <= c
    <3>1. k[a] < o[a]
      BY <2>1, <2>2, <2>3
    <3>2. \A b \in 1 .. a - 1 : k[b] = o[b]
      BY <2>1, <2>2, <2>3
    <3> QED  BY <3>1, <3>2 DEF Precedes
  <2>4. CASE c < a
    <3>1. k[c] < o[c]
      BY <2>1, <2>2, <2>4
    <3>2. \A b \in 1 .. c - 1 : k[b] = o[b]
      BY <2>1, <2>2, <2>4
    <3> QED  BY <3>1, <3>2 DEF Precedes
  <2> QED  BY <2>3, <2>4
<1>3. ASSUME k # l PROVE Precedes(k, l) \/ Precedes(l, k)
  <2> DEFINE T == {i \in 1 .. n : k[i] # l[i]}
  <2>1. T # {} /\ T \subseteq Nat
    <3>1. k = [i \in 1 .. n |-> k[i]] /\ l = [i \in 1 .. n |-> l[i]]
      OBVIOUS
    <3>2. ASSUME T = {} PROVE FALSE
      <4>1. \A i \in 1 .. n : k[i] = l[i]
        BY <3>2
      <4>2. [i \in 1 .. n |-> k[i]] = [i \in 1 .. n |-> l[i]]
        BY <4>1, Zenon
      <4> QED  BY <1>3, <3>1, <4>2
    <3> QED  BY <3>2
  <2>2. PICK i \in T : \A j \in T : i <= j
    BY <2>1, LeastNumber
  <2>3. \A j \in 1 .. i - 1 : k[j] = l[j]
    BY <2>2
  <2>4. k[i] < l[i] \/ l[i] < k[i]
    OBVIOUS
  <2> QED  BY <2>3, <2>4 DEF Precedes
<1> QED  BY <1>1, <1>2, <1>3

\* Where keys agree up to an objective, the one that comes first is not above
\* the other in it.
LEMMA ObjectivesInTurn ==
  ASSUME NEW n \in Nat, NEW k \in [1 .. n -> Int], NEW l \in [1 .. n -> Int],
         k = l \/ Precedes(k, l), NEW i \in 1 .. n, \A j \in 1 .. i - 1 : k[j] = l[j]
  PROVE  k[i] <= l[i]
<1>1. CASE k = l
  BY <1>1
<1>2. CASE Precedes(k, l)
  <2>1. PICK a \in 1 .. n : k[a] < l[a] /\ \A b \in 1 .. a - 1 : k[b] = l[b]
    BY <1>2 DEF Precedes
  <2>2. a >= i
    BY <2>1
  <2> QED  BY <2>1, <2>2
<1> QED  BY <1>1, <1>2

-----------------------------------------------------------------------------
(* The first pair.                                                          *)

\* Keys and positions are sequences of numbers.
LEMMA PairTypes ==
  ASSUME NEW registry, IsRegistry(registry), NEW capability,
         NEW p \in ValidPairs(registry, capability)
  PROVE  /\ p[1] \in DOMAIN registry.implementations /\ p[2] \in DOMAIN registry.nodes
         /\ p \in [1 .. 2 -> Int]
         /\ RankAt(registry, p) \in [1 .. 6 -> Int]
<1>1. /\ p \in (DOMAIN registry.implementations) \X (DOMAIN registry.nodes)
      /\ p[1] \in DOMAIN registry.implementations /\ p[2] \in DOMAIN registry.nodes
      /\ p = <<p[1], p[2]>>
  BY DEF ValidPairs
<1>2. /\ registry.implementations \in Seq(ToSet(registry.implementations))
      /\ registry.nodes \in Seq(ToSet(registry.nodes))
  BY DEF IsRegistry
<1>3. p[1] \in Int /\ p[2] \in Int
  BY <1>1, <1>2
<1>4. p \in [1 .. 2 -> Int]
  BY <1>1, <1>3
<1> DEFINE implementation == registry.implementations[p[1]]
           node           == registry.nodes[p[2]]
<1>5. implementation \in ToSet(registry.implementations)
  BY <1>1 DEF ToSet
<1>6. /\ implementation.quality \in Int /\ implementation.cost \in Int
      /\ implementation.latency \in Int /\ implementation.energy \in Int
      /\ implementation.id \in Int /\ node.id \in Int
  BY <1>1, <1>5 DEF IsRegistry
<1> HIDE DEF implementation, node
<1>7. Rank(implementation, node) \in [1 .. 6 -> Int]
  BY <1>6 DEF Rank
<1> QED  BY <1>1, <1>4, <1>7 DEF RankAt, implementation, node

\* The order of the sort is strict, also between entries of the same identities.
LEMMA BeforeIsOrder ==
  ASSUME NEW registry, IsRegistry(registry), NEW capability
  PROVE  LET valid == ValidPairs(registry, capability)
         IN  StrictOrder(valid, {pq \in valid \X valid : Before(registry, pq[1], pq[2])})
<1> DEFINE valid == ValidPairs(registry, capability)
           R     == {pq \in valid \X valid : Before(registry, pq[1], pq[2])}
<1>1. \A p, q \in valid : <<p, q>> \in R <=> Before(registry, p, q)
  OBVIOUS
<1>2. \A p \in valid : p \in [1 .. 2 -> Int] /\ RankAt(registry, p) \in [1 .. 6 -> Int]
  BY PairTypes
<1> HIDE DEF R, valid
<1>3. ASSUME NEW p \in valid PROVE ~Before(registry, p, p)
  BY <1>2, PrecedesIsOrder DEF Before
<1>4. ASSUME NEW p \in valid, NEW q \in valid, NEW r \in valid,
             Before(registry, p, q), Before(registry, q, r)
      PROVE  Before(registry, p, r)
  <2>1. /\ Precedes(p, q) /\ Precedes(q, r) => Precedes(p, r)
        /\ Precedes(RankAt(registry, p), RankAt(registry, q))
           /\ Precedes(RankAt(registry, q), RankAt(registry, r))
           => Precedes(RankAt(registry, p), RankAt(registry, r))
    BY <1>2, PrecedesIsOrder
  <2> QED  BY <1>4, <2>1 DEF Before
<1>5. ASSUME NEW p \in valid, NEW q \in valid
      PROVE  p = q \/ Before(registry, p, q) \/ Before(registry, q, p)
  <2>1. /\ p = q \/ Precedes(p, q) \/ Precedes(q, p)
        /\ \/ RankAt(registry, p) = RankAt(registry, q)
           \/ Precedes(RankAt(registry, p), RankAt(registry, q))
           \/ Precedes(RankAt(registry, q), RankAt(registry, p))
    BY <1>2, PrecedesIsOrder
  <2> QED  BY <2>1 DEF Before
<1>6. StrictOrder(valid, R)
  BY <1>1, <1>3, <1>4, <1>5 DEF StrictOrder
<1> QED  BY <1>6 DEF R, valid

\* Where some pair is valid the choice is a valid pair, and before all others.
LEMMA FirstIsFirst ==
  ASSUME NEW registry, IsRegistry(registry), NEW capability,
         ValidPairs(registry, capability) # {}
  PROVE  /\ First(registry, capability) \in ValidPairs(registry, capability)
         /\ \A q \in ValidPairs(registry, capability) \ {First(registry, capability)} :
              Before(registry, First(registry, capability), q)
<1> DEFINE valid == ValidPairs(registry, capability)
           R     == {pq \in valid \X valid : Before(registry, pq[1], pq[2])}
<1>1. IsFiniteSet(valid)
  <2>1. /\ registry.implementations \in Seq(ToSet(registry.implementations))
        /\ registry.nodes \in Seq(ToSet(registry.nodes))
    BY DEF IsRegistry
  <2>2. /\ DOMAIN registry.implementations = 1 .. Len(registry.implementations)
        /\ DOMAIN registry.nodes = 1 .. Len(registry.nodes)
        /\ Len(registry.implementations) \in Int /\ Len(registry.nodes) \in Int
    BY <2>1
  <2>3. IsFiniteSet(DOMAIN registry.implementations) /\ IsFiniteSet(DOMAIN registry.nodes)
    BY <2>2, FS_Interval
  <2>4. IsFiniteSet((DOMAIN registry.implementations) \X (DOMAIN registry.nodes))
    BY <2>3, FS_Product
  <2> QED  BY <2>4, FS_Subset DEF ValidPairs
<1>2. StrictOrder(valid, R)
  BY BeforeIsOrder
<1>3. PICK p \in valid : \A q \in valid \ {p} : <<p, q>> \in R
  BY <1>1, <1>2, FirstOfFinite
<1>4. \A q \in valid \ {p} : Before(registry, p, q)
  BY <1>3
<1> QED  BY <1>4 DEF First

\* The keys of the choice are not after those of any valid pair.
LEMMA FirstHasLeastRank ==
  ASSUME NEW registry, IsRegistry(registry), NEW capability,
         NEW q \in ValidPairs(registry, capability)
  PROVE  LET p == First(registry, capability)
         IN  \/ RankAt(registry, p) = RankAt(registry, q)
             \/ Precedes(RankAt(registry, p), RankAt(registry, q))
BY FirstIsFirst DEF Before

-----------------------------------------------------------------------------
(* The choice is one a user would want.                                     *)

EntriesAt(registry, p) ==
  [implementation |-> registry.implementations[p[1]], node |-> registry.nodes[p[2]]]

\* The pairs of positions are the pairs of entries a user could take.
LEMMA ValidIsUsable ==
  ASSUME NEW registry, NEW capability
  PROVE  UsablePairs(registry, capability) =
           {EntriesAt(registry, p) : p \in ValidPairs(registry, capability)}
<1>1. ASSUME NEW p \in ValidPairs(registry, capability)
      PROVE  EntriesAt(registry, p) \in UsablePairs(registry, capability)
  <2>1. /\ p[1] \in DOMAIN registry.implementations /\ p[2] \in DOMAIN registry.nodes
        /\ registry.implementations[p[1]].implements = capability
        /\ Acceptable(registry.implementations[p[1]], registry.nodes[p[2]])
    BY DEF ValidPairs
  <2> QED  BY <2>1 DEF UsablePairs, EntriesAt, ToSet
<1>2. ASSUME NEW u \in UsablePairs(registry, capability)
      PROVE  \E p \in ValidPairs(registry, capability) : u = EntriesAt(registry, p)
  <2>1. /\ u \in [implementation : ToSet(registry.implementations), node : ToSet(registry.nodes)]
        /\ u.implementation.implements = capability
        /\ Acceptable(u.implementation, u.node)
    BY DEF UsablePairs
  <2>2. PICK i \in DOMAIN registry.implementations : u.implementation = registry.implementations[i]
    BY <2>1 DEF ToSet
  <2>3. PICK j \in DOMAIN registry.nodes : u.node = registry.nodes[j]
    BY <2>1 DEF ToSet
  <2>4. /\ <<i, j>> \in (DOMAIN registry.implementations) \X (DOMAIN registry.nodes)
        /\ <<i, j>>[1] = i /\ <<i, j>>[2] = j
    OBVIOUS
  <2>5. <<i, j>> \in ValidPairs(registry, capability)
    BY <2>1, <2>2, <2>3, <2>4 DEF ValidPairs
  <2>6. u = [implementation |-> u.implementation, node |-> u.node]
    BY <2>1
  <2>7. u = EntriesAt(registry, <<i, j>>)
    BY <2>2, <2>3, <2>4, <2>6 DEF EntriesAt
  <2> QED  BY <2>5, <2>7
<1> QED  BY <1>1, <1>2

\* The chosen entries are the best by each objective in turn.
LEMMA FirstIsWanted ==
  ASSUME NEW registry, IsRegistry(registry), NEW capability,
         ValidPairs(registry, capability) # {}
  PROVE  EntriesAt(registry, First(registry, capability)) \in WantedPairs(registry, capability)
<1> DEFINE valid    == ValidPairs(registry, capability)
           usable   == UsablePairs(registry, capability)
           best     == Fewest(usable,   LAMBDA p : -p.implementation.quality)
           cheapest == Fewest(best,     LAMBDA p : p.implementation.cost)
           fastest  == Fewest(cheapest, LAMBDA p : p.implementation.latency)
           frugal   == Fewest(fastest,  LAMBDA p : p.implementation.energy)
           first == First(registry, capability)
           e == EntriesAt(registry, first)
<1>1. first \in valid
  BY FirstIsFirst
<1>2. e \in usable
  BY <1>1, ValidIsUsable
<1>3. ASSUME NEW u \in usable
      PROVE  LET k == Rank(e.implementation, e.node)
                 l == Rank(u.implementation, u.node)
             IN  /\ k \in [1 .. 6 -> Int] /\ l \in [1 .. 6 -> Int]
                 /\ k = l \/ Precedes(k, l)
  <2>1. PICK q \in valid : u = EntriesAt(registry, q)
    BY ValidIsUsable
  <2>2. /\ RankAt(registry, q) = Rank(u.implementation, u.node)
        /\ RankAt(registry, first) = Rank(e.implementation, e.node)
    BY <2>1 DEF RankAt, EntriesAt
  <2> QED  BY <1>1, <2>1, <2>2, FirstHasLeastRank, PairTypes
<1> HIDE DEF e, usable, first, valid
<1>4. ASSUME NEW u \in usable
      PROVE  LET k == e.implementation
                 l == u.implementation
             IN  /\ -k.quality <= -l.quality
                 /\ -k.quality = -l.quality => k.cost <= l.cost
                 /\ -k.quality = -l.quality /\ k.cost = l.cost => k.latency <= l.latency
                 /\ -k.quality = -l.quality /\ k.cost = l.cost /\ k.latency = l.latency
                    => k.energy <= l.energy
  <2> DEFINE k == Rank(e.implementation, e.node)
             l == Rank(u.implementation, u.node)
  <2>1. k \in [1 .. 6 -> Int] /\ l \in [1 .. 6 -> Int] /\ (k = l \/ Precedes(k, l))
    BY <1>3
  <2>2. /\ k[1] = -e.implementation.quality /\ k[2] = e.implementation.cost
        /\ k[3] = e.implementation.latency /\ k[4] = e.implementation.energy
        /\ l[1] = -u.implementation.quality /\ l[2] = u.implementation.cost
        /\ l[3] = u.implementation.latency /\ l[4] = u.implementation.energy
    BY DEF Rank
  <2> HIDE DEF k, l
  <2>3. \A i \in 1 .. 6 : (\A j \in 1 .. i - 1 : k[j] = l[j]) => k[i] <= l[i]
    BY <2>1, ObjectivesInTurn
  <2>4. k[1] <= l[1]
    BY <2>3
  <2>5. k[1] = l[1] => k[2] <= l[2]
    BY <2>3
  <2>6. k[1] = l[1] /\ k[2] = l[2] => k[3] <= l[3]
    BY <2>3
  <2>7. k[1] = l[1] /\ k[2] = l[2] /\ k[3] = l[3] => k[4] <= l[4]
    BY <2>3
  <2> QED  BY <2>2, <2>4, <2>5, <2>6, <2>7
<1>5. \A u \in usable : /\ u.implementation.quality \in Int /\ u.implementation.cost \in Int
                        /\ u.implementation.latency \in Int /\ u.implementation.energy \in Int
  <2>1. \A u \in usable : u.implementation \in ToSet(registry.implementations)
    BY DEF usable, UsablePairs
  <2> QED  BY <2>1 DEF IsRegistry
<1>6. e \in best /\ \A u \in best : u \in usable /\ -u.implementation.quality <= -e.implementation.quality
  BY <1>2, <1>4 DEF Fewest
<1> HIDE DEF best
<1>7. /\ \A u \in best : -u.implementation.quality = -e.implementation.quality
      /\ \A u \in best : e.implementation.cost <= u.implementation.cost
  BY <1>2, <1>4, <1>5, <1>6
<1>8. e \in cheapest /\ \A u \in cheapest : u \in best /\ u.implementation.cost <= e.implementation.cost
  BY <1>6, <1>7 DEF Fewest
<1> HIDE DEF cheapest
<1>9. /\ \A u \in cheapest : u.implementation.cost = e.implementation.cost
      /\ \A u \in cheapest : e.implementation.latency <= u.implementation.latency
  BY <1>2, <1>4, <1>5, <1>6, <1>7, <1>8
<1>10. e \in fastest /\ \A u \in fastest : u \in cheapest /\ u.implementation.latency <= e.implementation.latency
  BY <1>8, <1>9 DEF Fewest
<1> HIDE DEF fastest
<1>11. \A u \in fastest : e.implementation.energy <= u.implementation.energy
  BY <1>2, <1>4, <1>5, <1>6, <1>7, <1>8, <1>9, <1>10
<1>12. e \in frugal
  BY <1>10, <1>11 DEF Fewest
<1>13. frugal = WantedPairs(registry, capability)
  BY DEF WantedPairs, frugal, fastest, cheapest, best, usable
<1> QED  BY <1>12, <1>13 DEF e, first

-----------------------------------------------------------------------------
(* The choice depends on the entries, not on their order.                   *)

\* Two registries with the same entries choose the same identities.
LEMMA SameEntriesSameChoice ==
  ASSUME NEW r, NEW s, IsRegistry(r), IsRegistry(s), NEW capability,
         ToSet(r.implementations) = ToSet(s.implementations), ToSet(r.nodes) = ToSet(s.nodes),
         ValidPairs(r, capability) # {}
  PROVE  LET p == First(r, capability)
             q == First(s, capability)
         IN  /\ r.implementations[p[1]].id = s.implementations[q[1]].id
             /\ r.nodes[p[2]].id = s.nodes[q[2]].id
<1> DEFINE p == First(r, capability)
           q == First(s, capability)
<1>1. UsablePairs(r, capability) = UsablePairs(s, capability)
  BY DEF UsablePairs
<1>2. /\ \A x \in ValidPairs(r, capability) : \E y \in ValidPairs(s, capability) :
             EntriesAt(r, x) = EntriesAt(s, y)
      /\ \A y \in ValidPairs(s, capability) : \E x \in ValidPairs(r, capability) :
             EntriesAt(r, x) = EntriesAt(s, y)
  <2>1. {EntriesAt(r, x) : x \in ValidPairs(r, capability)} =
          {EntriesAt(s, y) : y \in ValidPairs(s, capability)}
    BY <1>1, ValidIsUsable
  <2> QED  BY <2>1
<1>3. \A x, y : EntriesAt(r, x) = EntriesAt(s, y) => RankAt(r, x) = RankAt(s, y)
  <2> SUFFICES ASSUME NEW x, NEW y, EntriesAt(r, x) = EntriesAt(s, y)
               PROVE  RankAt(r, x) = RankAt(s, y)
    OBVIOUS
  <2>1. r.implementations[x[1]] = s.implementations[y[1]] /\ r.nodes[x[2]] = s.nodes[y[2]]
    BY DEF EntriesAt
  <2> QED  BY <2>1 DEF RankAt
<1>4. ValidPairs(s, capability) # {}
  BY <1>2
<1>5. p \in ValidPairs(r, capability) /\ q \in ValidPairs(s, capability)
  BY <1>4, FirstIsFirst
<1>6. RankAt(r, p) = RankAt(s, q) \/ Precedes(RankAt(r, p), RankAt(s, q))
  <2>1. PICK x \in ValidPairs(r, capability) : RankAt(r, x) = RankAt(s, q)
    BY <1>2, <1>3, <1>5
  <2> QED  BY <2>1, FirstHasLeastRank
<1>7. RankAt(r, p) = RankAt(s, q) \/ Precedes(RankAt(s, q), RankAt(r, p))
  <2>1. PICK y \in ValidPairs(s, capability) : RankAt(s, y) = RankAt(r, p)
    BY <1>2, <1>3, <1>5
  <2> QED  BY <2>1, FirstHasLeastRank
<1>8. RankAt(r, p) \in [1 .. 6 -> Int] /\ RankAt(s, q) \in [1 .. 6 -> Int]
  BY <1>5, PairTypes
<1>9. RankAt(r, p) = RankAt(s, q)
  BY <1>6, <1>7, <1>8, PrecedesIsOrder
<1>10. RankAt(r, p)[5] = RankAt(s, q)[5] /\ RankAt(r, p)[6] = RankAt(s, q)[6]
  BY <1>9
<1> QED  BY <1>10 DEF RankAt, Rank

\* Turned around, a list has the same entries.
LEMMA ReverseKeepsEntries ==
  ASSUME NEW list, list \in Seq(ToSet(list))
  PROVE  /\ Reverse(list) \in Seq(ToSet(list))
         /\ ToSet(Reverse(list)) = ToSet(list)
<1> DEFINE n == Len(list)
<1>1. n \in Nat /\ DOMAIN list = 1 .. n /\ \A i \in 1 .. n : list[i] \in ToSet(list)
  OBVIOUS
<1> HIDE DEF n
<1>2. Reverse(list) = [i \in 1 .. n |-> list[(n - i) + 1]]
  BY DEF Reverse, n
<1>3. \A i \in 1 .. n : (n - i) + 1 \in 1 .. n /\ (n - ((n - i) + 1)) + 1 = i
  BY <1>1
<1>4. \A i \in 1 .. n : list[(n - i) + 1] \in ToSet(list)
  BY <1>1, <1>3
<1>5. Reverse(list) \in Seq(ToSet(list))
  BY <1>1, <1>2, <1>4
<1>6. \A i \in 1 .. n : Reverse(list)[(n - i) + 1] = list[i]
  BY <1>2, <1>3
<1>7. DOMAIN Reverse(list) = 1 .. n
  BY <1>2
<1>8. ToSet(Reverse(list)) = ToSet(list)
  BY <1>1, <1>2, <1>3, <1>4, <1>6, <1>7 DEF ToSet
<1> QED  BY <1>5, <1>8

\* The plan does not change when the lists are turned around.
LEMMA PlanIgnoresOrder ==
  ASSUME NEW registry, IsRegistry(registry), NEW graph,
         ValidPairs(registry, CapabilityRole(graph).capability) # {}
  PROVE  PlanOf(Backwards(registry), graph) = PlanOf(registry, graph)
<1> DEFINE back == Backwards(registry)
<1>1. /\ back.implementations = Reverse(registry.implementations)
      /\ back.nodes = Reverse(registry.nodes)
  BY DEF Backwards
<1> HIDE DEF back
<1>2. /\ ToSet(back.implementations) = ToSet(registry.implementations)
      /\ ToSet(back.nodes) = ToSet(registry.nodes)
      /\ back.implementations \in Seq(ToSet(back.implementations))
      /\ back.nodes \in Seq(ToSet(back.nodes))
  BY <1>1, ReverseKeepsEntries DEF IsRegistry
<1>3. \A list : \A i \in DOMAIN list : list[i].id \in {entry.id : entry \in ToSet(list)}
  BY DEF ToSet
<1>4. /\ \A entry \in ToSet(registry.implementations) : entry.id \in Int
      /\ \A entry \in ToSet(registry.nodes) : entry.id \in Int
  BY DEF IsRegistry, ToSet
<1>5. \A list \in {back.implementations, back.nodes} : \A i \in DOMAIN list : list[i].id \in Int
  BY <1>2, <1>3, <1>4
<1>6. IsRegistry(back)
  BY <1>2, <1>5 DEF IsRegistry
<1> DEFINE p == First(registry, CapabilityRole(graph).capability)
           q == First(back, CapabilityRole(graph).capability)
<1>7. /\ registry.implementations[p[1]].id = back.implementations[q[1]].id
      /\ registry.nodes[p[2]].id = back.nodes[q[2]].id
  BY <1>2, <1>6, SameEntriesSameChoice
<1>8. PlanOf(back, graph) = PlanOf(registry, graph)
  BY <1>7 DEF PlanOf
<1> QED  BY <1>8 DEF back

-----------------------------------------------------------------------------
(* The verifier finds what was chosen.                                      *)

\* An identity that is there names one of the entries, and its own.
LEMMA NamedEntry ==
  ASSUME NEW entries, entries \in Seq(ToSet(entries)), NEW id, WithId(entries, id) # {}
  PROVE  \E i \in WithId(entries, id) : FirstWithId(entries, id) = entries[i]
<1> DEFINE T == WithId(entries, id)
<1>1. T \subseteq DOMAIN entries /\ T \subseteq Nat
  BY DEF WithId
<1>2. \E i \in T : \A j \in T : i <= j
  BY <1>1, LeastNumber
<1>3. (CHOOSE i \in T : \A j \in T : i <= j) \in T
  BY <1>2
<1> QED  BY <1>3 DEF FirstWithId

\* A unique identity names its entry.
LEMMA UniqueName ==
  ASSUME NEW entries, entries \in Seq(ToSet(entries)), NEW i \in DOMAIN entries,
         IsInjective([j \in DOMAIN entries |-> entries[j].id])
  PROVE  /\ WithId(entries, entries[i].id) # {}
         /\ FirstWithId(entries, entries[i].id) = entries[i]
<1>1. i \in WithId(entries, entries[i].id)
  BY DEF WithId
<1>2. \A j \in WithId(entries, entries[i].id) : j = i
  BY DEF WithId, IsInjective
<1> QED  BY <1>1, <1>2, NamedEntry

\* With unique identities a lease names the entries that were chosen.
LEMMA LeaseNamesChoice ==
  ASSUME NEW registry, IsRegistry(registry), UniqueIds(registry), NEW capability,
         ValidPairs(registry, capability) # {}
  PROVE  LET p == First(registry, capability)
             implementation == registry.implementations[p[1]]
             node           == registry.nodes[p[2]]
         IN  /\ WithId(registry.implementations, implementation.id) # {}
             /\ WithId(registry.nodes, node.id) # {}
             /\ FirstWithId(registry.implementations, implementation.id) = implementation
             /\ FirstWithId(registry.nodes, node.id) = node
             /\ implementation.implements = capability
             /\ Acceptable(implementation, node)
<1> DEFINE p == First(registry, capability)
<1>1. p \in ValidPairs(registry, capability)
  BY FirstIsFirst
<1>2. /\ p[1] \in DOMAIN registry.implementations /\ p[2] \in DOMAIN registry.nodes
      /\ registry.implementations[p[1]].implements = capability
      /\ Acceptable(registry.implementations[p[1]], registry.nodes[p[2]])
  BY <1>1 DEF ValidPairs
<1>3. /\ registry.implementations \in Seq(ToSet(registry.implementations))
      /\ registry.nodes \in Seq(ToSet(registry.nodes))
  BY DEF IsRegistry
<1> HIDE DEF p
<1>4. /\ WithId(registry.implementations, registry.implementations[p[1]].id) # {}
      /\ FirstWithId(registry.implementations, registry.implementations[p[1]].id)
           = registry.implementations[p[1]]
  BY <1>2, <1>3, UniqueName DEF UniqueIds
<1>5. /\ WithId(registry.nodes, registry.nodes[p[2]].id) # {}
      /\ FirstWithId(registry.nodes, registry.nodes[p[2]].id) = registry.nodes[p[2]]
  BY <1>2, <1>3, UniqueName DEF UniqueIds
<1> QED  BY <1>2, <1>4, <1>5 DEF p

\* A supported graph that some entries can serve is resolved: the verifier does
\* not refuse what was chosen.
LEMMA UsableIsResolved ==
  ASSUME NEW registry, IsRegistry(registry), UniqueIds(registry), NEW graph, Supported(graph),
         UsablePairs(registry, CapabilityRole(graph).capability) # {}
  PROVE  Resolves(registry, graph)
<1> DEFINE role == CapabilityRole(graph)
           plan == PlanOf(registry, graph)
           p    == First(registry, role.capability)
           implementation == registry.implementations[p[1]]
           node           == registry.nodes[p[2]]
<1>1. ValidPairs(registry, role.capability) # {}
  BY ValidIsUsable
<1>2. /\ plan.graph = graph.id /\ plan.role = role.id /\ plan.capability = role.capability
      /\ plan.implementation = implementation.id /\ plan.node = node.id
  BY DEF PlanOf
<1>3. role \in ToSet(graph.roles) /\ role.kind = "Capability"
  <2>1. PICK i \in DOMAIN graph.roles : CapabilityRoles(graph) = {i}
    BY DEF Supported
  <2>2. role = graph.roles[i]
    BY <2>1 DEF CapabilityRole
  <2>3. i \in CapabilityRoles(graph)
    BY <2>1
  <2> QED  BY <2>2, <2>3 DEF CapabilityRoles, ToSet
<1>4. /\ WithId(registry.implementations, implementation.id) # {}
      /\ WithId(registry.nodes, node.id) # {}
      /\ FirstWithId(registry.implementations, implementation.id) = implementation
      /\ FirstWithId(registry.nodes, node.id) = node
      /\ implementation.implements = role.capability
      /\ Acceptable(implementation, node)
  BY <1>1, LeaseNamesChoice
<1> HIDE DEF plan, role, p, implementation, node
<1>5. Verifies(registry, graph, plan)
  BY <1>2, <1>3, <1>4 DEF Verifies
<1> QED  BY <1>1, <1>5 DEF Resolves, plan, role
=============================================================================
