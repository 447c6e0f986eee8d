------------------------- MODULE CapabilityResolver -------------------------
(***************************************************************************)
(* blob-resolver: which implementation on which node gets a graph's one    *)
(* capability, and the verifier that checks the answer again from the      *)
(* identities in it.  A registry is a pair of lists in which identities    *)
(* may recur.  Identities are numbers here, in the order of their bytes.   *)
(***************************************************************************)
EXTENDS Integers, SequencesExt

-----------------------------------------------------------------------------
(* candidate_rejection_reasons: empty exactly for an acceptable pair.       *)

Acceptable(implementation, node) ==
  /\ implementation.trusted
  /\ node.trusted
  /\ node.online
  /\ "*" \in implementation.platforms \/ node.platform \in implementation.platforms
  /\ node.memory >= implementation.memory
  /\ implementation.accelerators \subseteq node.accelerators
  /\ implementation.runtime \in node.runtimes

-----------------------------------------------------------------------------
(* compare_candidates: quality first and then the costs, identities last.   *)

\* Mutant: the price decides before the quality.
RankByCost(implementation, node) ==
  <<implementation.cost, -implementation.quality, implementation.latency,
    implementation.energy, implementation.id, node.id>>

Rank(implementation, node) ==
  <<-implementation.quality, implementation.cost, implementation.latency,
    implementation.energy, implementation.id, node.id>>

Precedes(k, l) == \E n \in DOMAIN k : k[n] < l[n] /\ \A m \in 1 .. n - 1 : k[m] = l[m]

-----------------------------------------------------------------------------
(* The choice: a pair is given by its positions in the two lists.           *)

\* Registry, with what compare_candidates looks at.
IsRegistry(registry) ==
  /\ \A list \in {registry.implementations, registry.nodes} :
       /\ list \in Seq(ToSet(list))
       /\ \A i \in DOMAIN list : list[i].id \in Int
  /\ \A implementation \in ToSet(registry.implementations) :
       {implementation.quality, implementation.cost, implementation.latency,
        implementation.energy} \subseteq Int

\* The two loops over the registry, which keep the pairs without a reason.
ValidPairs(registry, capability) ==
  {p \in (DOMAIN registry.implementations) \X (DOMAIN registry.nodes) :
     /\ registry.implementations[p[1]].implements = capability
     /\ Acceptable(registry.implementations[p[1]], registry.nodes[p[2]])}

RankAt(registry, p) == Rank(registry.implementations[p[1]], registry.nodes[p[2]])

\* sort_by is stable: equal pairs stay in the order of the loops.
Before(registry, p, q) ==
  \/ Precedes(RankAt(registry, p), RankAt(registry, q))
  \/ RankAt(registry, p) = RankAt(registry, q) /\ Precedes(p, q)

\* Mutant: the pairs are ordered before the loops reject any.
FirstOfAll(registry, capability) ==
  LET pairs == (DOMAIN registry.implementations) \X (DOMAIN registry.nodes) IN
  CHOOSE p \in pairs : \A q \in pairs \ {p} : Before(registry, p, q)

First(registry, capability) ==
  CHOOSE p \in ValidPairs(registry, capability) :
    \A q \in ValidPairs(registry, capability) \ {p} : Before(registry, p, q)

-----------------------------------------------------------------------------
(* BindingVerifier::verify, from the identities alone.                      *)

WithId(entries, id) == {i \in DOMAIN entries : entries[i].id = id}

FirstWithId(entries, id) ==
  entries[CHOOSE i \in WithId(entries, id) : \A j \in WithId(entries, id) : i <= j]

CapabilityRoles(graph) == {i \in DOMAIN graph.roles : graph.roles[i].kind = "Capability"}

\* Mutant: the entries behind the identities are not looked at again.
VerifiesRole(registry, graph, plan) ==
  /\ plan.graph = graph.id
  /\ \E role \in ToSet(graph.roles) :
       role.id = plan.role /\ role.kind = "Capability" /\ role.capability = plan.capability

Verifies(registry, graph, plan) ==
  /\ plan.graph = graph.id
  /\ \E role \in ToSet(graph.roles) :
       role.id = plan.role /\ role.kind = "Capability" /\ role.capability = plan.capability
  /\ WithId(registry.implementations, plan.implementation) # {}
  /\ WithId(registry.nodes, plan.node) # {}
  /\ LET implementation == FirstWithId(registry.implementations, plan.implementation) IN
     /\ implementation.implements = plan.capability
     /\ Acceptable(implementation, FirstWithId(registry.nodes, plan.node))

-----------------------------------------------------------------------------
(* Resolver::resolve_single_capability.                                     *)

\* A graph without constraints and with one capability role.
Supported(graph) == ~graph.constrained /\ \E i \in DOMAIN graph.roles : CapabilityRoles(graph) = {i}

CapabilityRole(graph) == graph.roles[CHOOSE i \in CapabilityRoles(graph) : TRUE]

\* The plan for a supported graph with a valid pair; its identity is made of
\* the other three.
PlanOf(registry, graph) ==
  LET role == CapabilityRole(graph)
      best == First(registry, role.capability)
      implementation == registry.implementations[best[1]].id
      node           == registry.nodes[best[2]].id
  IN [id |-> <<graph.id, implementation, node>>, graph |-> graph.id, role |-> role.id,
      capability |-> role.capability, implementation |-> implementation, node |-> node]

\* Otherwise the call returns UnsupportedGraph, NoCandidate or VerificationFailed.
Resolves(registry, graph) ==
  /\ Supported(graph)
  /\ ValidPairs(registry, CapabilityRole(graph).capability) # {}
  /\ Verifies(registry, graph, PlanOf(registry, graph))

-----------------------------------------------------------------------------
(* What the choice should be, stated one objective after the other.         *)

Fewest(S, Objective(_)) == {x \in S : \A y \in S : Objective(x) <= Objective(y)}

\* The pairs a user would want: the best quality, among these the cheapest,
\* among these the fastest, and then the most frugal.
UsablePairs(registry, capability) ==
  {p \in [implementation : ToSet(registry.implementations), node : ToSet(registry.nodes)] :
     p.implementation.implements = capability /\ Acceptable(p.implementation, p.node)}

WantedPairs(registry, capability) ==
  LET usable   == UsablePairs(registry, capability)
      best     == Fewest(usable,   LAMBDA p : -p.implementation.quality)
      cheapest == Fewest(best,     LAMBDA p : p.implementation.cost)
      fastest  == Fewest(cheapest, LAMBDA p : p.implementation.latency)
  IN Fewest(fastest, LAMBDA p : p.implementation.energy)

\* Every identity names one entry.
UniqueIds(registry) ==
  /\ IsInjective([i \in DOMAIN registry.implementations |-> registry.implementations[i].id])
  /\ IsInjective([i \in DOMAIN registry.nodes |-> registry.nodes[i].id])

Backwards(registry) ==
  [implementations |-> Reverse(registry.implementations), nodes |-> Reverse(registry.nodes)]
=============================================================================
