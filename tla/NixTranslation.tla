-------------------------- MODULE NixTranslation ---------------------------
(***************************************************************************)
(* NixOsBackend::translate: from a SystemSpec to the options of one NixOS  *)
(* module, in the order of the generated text.  An option is a pair of its *)
(* name and its value; the punctuation around them and the trace, which    *)
(* names the source of each, are left out.                                 *)
(***************************************************************************)
EXTENDS Integers, SequencesExt

CONSTANT ValidHostnames   \* 1-63 of a-z, 0-9 and -, with no - at either end

-----------------------------------------------------------------------------
(* SystemSpec::validate.                                                    *)

FeaturesOf(spec) == [i \in DOMAIN spec.features |-> spec.features[i].feature]

ValidSpec(spec) ==
  /\ spec.hostname \in ValidHostnames
  /\ IsInjective(FeaturesOf(spec))
  /\ IsInjective(spec.priorities)

-----------------------------------------------------------------------------
(* translate_feature and translate.                                         *)

FeatureOption ==
  [bluetooth  |-> "hardware.bluetooth.enable",
   containers |-> "virtualisation.podman.enable",
   flatpak    |-> "services.flatpak.enable",
   hyprland   |-> "programs.hyprland.enable",
   pipewire   |-> "services.pipewire.enable",
   printing   |-> "services.printing.enable",
   ssh        |-> "services.openssh.enable"]

Option(selection) == <<FeatureOption[selection.feature], selection.state = "Enabled">>

\* Mutant: the features are translated in the order they were selected in.
AsSelected(selections) == selections

\* The features that have an option, in the order of their bytes.
FeatureNames ==
  <<"bluetooth", "containers", "flatpak", "hyprland", "pipewire", "printing", "ssh">>

NameAt(feature) == CHOOSE n \in DOMAIN FeatureNames : FeatureNames[n] = feature

\* sort_by is stable: selections of one name stay in their order.
ComesBefore(selections, i, j) ==
  \/ NameAt(selections[i].feature) < NameAt(selections[j].feature)
  \/ selections[i].feature = selections[j].feature /\ i < j

\* The n-th place is for the selection that n - 1 others come before.
InNameOrder(selections) ==
  [n \in DOMAIN selections |-> selections[CHOOSE i \in DOMAIN selections :
     Cardinality({j \in DOMAIN selections : ComesBefore(selections, j, i)}) = n - 1]]

Translatable(spec) ==
  /\ ValidSpec(spec)
  /\ spec.channel = "Stable"
  /\ \A i \in DOMAIN spec.features : spec.features[i].feature \in DOMAIN FeatureOption

KernelOptions(spec) ==
  IF spec.kernel = "LatestSupported" THEN <<<<"boot.kernelPackages", "latest">>>> ELSE <<>>

ModuleOf(spec) ==
  <<<<"networking.hostName", spec.hostname>>,
    <<"nixpkgs.hostPlatform", spec.architecture>>>>
  \o KernelOptions(spec)
  \o [i \in DOMAIN spec.features |-> Option(InNameOrder(spec.features)[i])]
=============================================================================
