-------------------------- MODULE MCMaterialization --------------------------
(* Small specifications and command outputs for SystemMaterialization.      *)
EXTENDS SystemMaterialization, TLC

CONSTANTS o1, o2, k1, k2, s1, s2

Feature(name, state) == [feature |-> name, state |-> state]

\* Up to three selections, among them one twice and one nobody supports.
MCFeatures ==
  {<<>>, <<Feature("ssh", "Enabled")>>,
   <<Feature("ssh", "Enabled"), Feature("bluetooth", "Disabled")>>,
   <<Feature("bluetooth", "Disabled"), Feature("ssh", "Enabled")>>,
   <<Feature("ssh", "Enabled"), Feature("pipewire", "Enabled"), Feature("bluetooth", "Disabled")>>,
   <<Feature("pipewire", "Enabled"), Feature("bluetooth", "Disabled"), Feature("ssh", "Enabled")>>,
   <<Feature("ssh", "Enabled"), Feature("ssh", "Disabled")>>,
   <<Feature("editor", "Enabled")>>}

MCSystemSpecs ==
  {[hostname |-> h, architecture |-> "x86_64-linux", channel |-> c, kernel |-> k,
    features |-> f, priorities |-> p] :
     h \in {"blob", "-blob"}, c \in {"Stable", "Edge"},
     k \in {"DistributionDefault", "LatestSupported"}, f \in MCFeatures,
     p \in {<<"Latency">>, <<"Latency", "Latency">>}}

MCTargets == {[flake |-> "flake", configuration |-> "pilot"],
              [flake |-> "", configuration |-> "pilot"]}
MCValidTargets == {t \in MCTargets : t.flake # ""}

\* A closure, a file in one, and a warning.
MCStorePaths   == {"c1", "c1/bin/sh"}
MCStoreClosure == {"c1"}
MCOutputs ==
  {<<"warning", "c1">>, <<"c1", "c1">>, <<"c1/bin/sh">>}

\* Two operations for two candidates of two specifications.
MCIdentities == {[operation |-> o1, candidate |-> k1, systemSpec |-> s1],
                 [operation |-> o2, candidate |-> k2, systemSpec |-> s2]}

\* The two change places together.
MCSwap == o1 :> o2 @@ o2 :> o1 @@ k1 :> k2 @@ k2 :> k1 @@ s1 :> s2 @@ s2 :> s1

MCSymmetry == Permutations(RecordIds) \cup {MCSwap}

\* Once there is a plan no specification is translated any more, and nothing
\* depends on the ones that were.  Once the last command was run the plan is for
\* nothing, and every plan was at hand before the first.
MCView ==
  <<IF plan = NoPlan THEN translated ELSE {},
    IF Cardinality(runs) < MaxRuns THEN <<plan, changes>> ELSE <<>>,
    runs, candidates, log>>
=============================================================================
