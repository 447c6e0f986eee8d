------------------------ MODULE MaterializationProofs ------------------------
(***************************************************************************)
(* Proofs about SystemMaterialization, for any specifications, targets,    *)
(* outputs and bounds, and however the caller changes its plan.            *)
(***************************************************************************)
EXTENDS SystemMaterialization, FiniteOrders, SequenceTheorems

-----------------------------------------------------------------------------
(* What append does to a causal log.                                        *)

\* The empty log is well formed.
LEMMA EmptyIsWellFormed ==
  WellFormed(EmptyLog) /\ \A S : EmptyLog.records \in Seq(S)
BY DEF WellFormed, IndexAgrees, CausesFirst, EmptyLog

\* A record that append takes keeps the log well formed.
LEMMA AppendedIsWellFormed ==
  ASSUME NEW old, NEW S, old.records \in Seq(S), WellFormed(old),
         NEW record, Appendable(old, record)
  PROVE  WellFormed(Appended(old, record))
<1> DEFINE new == Appended(old, record)
           n   == Len(old.records)
<1>1. /\ n \in Nat /\ Len(new.records) = n + 1
      /\ \A i \in 1 .. n : new.records[i] = old.records[i]
      /\ new.records[n + 1] = record
  BY DEF Appended
<1>2. /\ DOMAIN new.index = DOMAIN old.index \cup {record.id}
      /\ new.index[record.id] = n + 1
      /\ \A id \in DOMAIN old.index : id # record.id => new.index[id] = old.index[id]
  BY DEF Appended
<1>3. /\ DOMAIN old.index = {old.records[i].id : i \in 1 .. n}
      /\ \A i \in 1 .. n : old.index[old.records[i].id] = i
  BY DEF WellFormed, IndexAgrees
<1>4. record.id \notin DOMAIN old.index /\ record.parents \subseteq DOMAIN old.index
  BY DEF Appendable, Knows
<1> HIDE DEF new, n
<1>5. \A i \in 1 .. n + 1 : i \in 1 .. n \/ i = n + 1
  BY <1>1
<1>6. \A i \in 1 .. n : i \in 1 .. n + 1
  BY <1>1
<1>7. n + 1 \in 1 .. n + 1
  BY <1>1
<1>8. DOMAIN new.index = {new.records[i].id : i \in 1 .. n + 1}
  <2>1. ASSUME NEW id \in DOMAIN new.index
        PROVE  \E i \in 1 .. n + 1 : id = new.records[i].id
    <3>1. CASE id = record.id
      BY <1>1, <1>7, <3>1
    <3>2. CASE id # record.id
      <4>1. PICK i \in 1 .. n : id = old.records[i].id
        BY <1>2, <1>3, <2>1, <3>2
      <4> QED  BY <1>1, <1>6, <4>1
    <3> QED  BY <3>1, <3>2
  <2>2. ASSUME NEW i \in 1 .. n + 1
        PROVE  new.records[i].id \in DOMAIN new.index
    BY <1>1, <1>2, <1>3, <1>5
  <2> QED  BY <2>1, <2>2
<1>9. \A i \in 1 .. n + 1 : new.index[new.records[i].id] = i
  <2> SUFFICES ASSUME NEW i \in 1 .. n + 1 PROVE new.index[new.records[i].id] = i
    OBVIOUS
  <2>1. CASE i \in 1 .. n
    <3>1. new.records[i].id = old.records[i].id /\ old.records[i].id \in DOMAIN old.index
      BY <1>1, <1>3, <2>1
    <3> QED  BY <1>2, <1>3, <1>4, <2>1, <3>1
  <2>2. CASE i = n + 1
    BY <1>1, <1>2, <2>2
  <2> QED  BY <1>5, <2>1, <2>2
<1>10. \A i \in 1 .. n + 1 : \A parent \in new.records[i].parents :
         \E j \in 1 .. i - 1 : new.records[j].id = parent
  <2> SUFFICES ASSUME NEW i \in 1 .. n + 1, NEW parent \in new.records[i].parents
               PROVE  \E j \in 1 .. i - 1 : new.records[j].id = parent
    OBVIOUS
  <2>1. CASE i \in 1 .. n
    <3>1. PICK j \in 1 .. i - 1 : old.records[j].id = parent
      BY <1>1, <2>1 DEF WellFormed, CausesFirst, n
    <3>2. j \in 1 .. n
      BY <1>1, <2>1
    <3> QED  BY <1>1, <3>1, <3>2
  <2>2. CASE i = n + 1
    <3>1. PICK j \in 1 .. n : old.records[j].id = parent
      BY <1>1, <1>3, <1>4, <2>2
    <3>2. j \in 1 .. i - 1
      BY <1>1, <2>2
    <3> QED  BY <1>1, <3>1, <3>2
  <2> QED  BY <1>5, <2>1, <2>2
<1>11. WellFormed(new)
  BY <1>1, <1>8, <1>9, <1>10 DEF WellFormed, IndexAgrees, CausesFirst
<1> QED  BY <1>11 DEF new

-----------------------------------------------------------------------------
(* Single operations.                                                       *)

\* The executor lets nothing but nix build through, of the action's attribute.
LEMMA ExecutableIsBuild ==
  ASSUME NEW p, Executable(p)
  PROVE  /\ p.action \in {Materialize, BuildIsolatedVm}
         /\ p.command.program = "nix"
         /\ p.command.words = <<"build", "--no-link", "--print-out-paths">>
         /\ p.command.attribute = IF p.action = Materialize THEN "toplevel" ELSE "vm"
BY DEF Executable, BuildWords, AttributeOf

\* With its shape known this decides the command.
LEMMA ExecutableCommand ==
  ASSUME NEW p, Executable(p), IsPlan(p)
  PROVE  p.command = [program |-> "nix",
                      words |-> <<"build", "--no-link", "--print-out-paths">>,
                      attribute |-> IF p.action = Materialize THEN "toplevel" ELSE "vm"]
BY ExecutableIsBuild DEF IsPlan, IsCommand

\* The planner's commands have a program, words and an attribute.
LEMMA CommandsHaveShape ==
  ASSUME NEW action \in Actions
  PROVE  IsCommand(CommandFor(action))
BY DEF Actions, CommandFor, IsCommand, Materialize, BuildIsolatedVm, PreviewActivation,
       TestActivation

\* The planner's command passes the executor exactly where policy asks for no
\* more than the user's authority.
LEMMA PlannedIsExecutable ==
  ASSUME NEW p, NEW action \in Actions,
         p.action = action, p.command = CommandFor(action),
         p.effect = RequiredEffect(action), p.authority = RequiredAuthority(action)
  PROVE  Executable(p) <=> RequiredAuthority(p.action) = "User"
BY DEF Executable, CommandFor, RequiredEffect, RequiredAuthority, AttributeOf, BuildWords,
       Actions, Materialize, BuildIsolatedVm, PreviewActivation, TestActivation

-----------------------------------------------------------------------------
(* The sort of the selections.                                              *)

\* The names with an option have places of their own in the order of names.
LEMMA NamesHavePlaces ==
  ASSUME NEW f \in DOMAIN FeatureOption, NEW g \in DOMAIN FeatureOption
  PROVE  /\ NameAt(f) \in Int
         /\ NameAt(f) = NameAt(g) => f = g
<1>1. /\ DOMAIN FeatureNames = 1 .. 7
      /\ \A h \in DOMAIN FeatureOption : \E n \in DOMAIN FeatureNames : FeatureNames[n] = h
  <2>1. DOMAIN FeatureOption = {"bluetooth", "containers", "flatpak", "hyprland", "pipewire",
                                "printing", "ssh"}
    BY DEF FeatureOption
  <2>2. /\ DOMAIN FeatureNames = 1 .. 7
        /\ FeatureNames[1] = "bluetooth" /\ FeatureNames[2] = "containers"
        /\ FeatureNames[3] = "flatpak"   /\ FeatureNames[4] = "hyprland"
        /\ FeatureNames[5] = "pipewire"  /\ FeatureNames[6] = "printing"
        /\ FeatureNames[7] = "ssh"
    BY DEF FeatureNames
  <2>3. 1 \in 1 .. 7 /\ 2 \in 1 .. 7 /\ 3 \in 1 .. 7 /\ 4 \in 1 .. 7 /\ 5 \in 1 .. 7
        /\ 6 \in 1 .. 7 /\ 7 \in 1 .. 7
    OBVIOUS
  <2> QED  BY <2>1, <2>2, <2>3
<1>2. /\ NameAt(f) \in DOMAIN FeatureNames /\ FeatureNames[NameAt(f)] = f
      /\ NameAt(g) \in DOMAIN FeatureNames /\ FeatureNames[NameAt(g)] = g
  BY <1>1 DEF NameAt
<1> QED  BY <1>1, <1>2

\* A list of selections with an option each, and none twice.
Selections(list) ==
  /\ list \in Seq(ToSet(list))
  /\ \A i \in DOMAIN list : list[i].feature \in DOMAIN FeatureOption
  /\ \A i, j \in DOMAIN list : list[i].feature = list[j].feature => i = j

PlaceOrder(list) ==
  {ij \in (DOMAIN list) \X (DOMAIN list) : ComesBefore(list, ij[1], ij[2])}

Earlier(list, i) == {j \in DOMAIN list : ComesBefore(list, j, i)}

\* The sort has a strict order of the places.
LEMMA SortIsOrder ==
  ASSUME NEW list, Selections(list)
  PROVE  /\ IsFiniteSet(DOMAIN list) /\ Cardinality(DOMAIN list) = Len(list)
         /\ StrictOrder(DOMAIN list, PlaceOrder(list))
         /\ \A i \in DOMAIN list : Earlier(list, i) = Below(DOMAIN list, PlaceOrder(list), i)
<1>1. DOMAIN list = 1 .. Len(list) /\ Len(list) \in Nat
  BY DEF Selections
<1>2. IsFiniteSet(DOMAIN list) /\ Cardinality(DOMAIN list) = Len(list)
  <2>1. /\ IsFiniteSet(1 .. Len(list))
        /\ Cardinality(1 .. Len(list)) = IF 1 > Len(list) THEN 0 ELSE Len(list) - 1 + 1
    BY <1>1, FS_Interval
  <2> QED  BY <1>1, <2>1
<1>3. \A i, j \in DOMAIN list : <<i, j>> \in PlaceOrder(list) <=> ComesBefore(list, i, j)
  BY DEF PlaceOrder
<1>4. \A i, j \in DOMAIN list :
        ComesBefore(list, i, j) <=> NameAt(list[i].feature) < NameAt(list[j].feature)
  <2> SUFFICES ASSUME NEW i \in DOMAIN list, NEW j \in DOMAIN list
               PROVE  ~(list[i].feature = list[j].feature /\ i < j)
    BY DEF ComesBefore
  <2> QED  BY <1>1 DEF Selections
<1>5. \A i, j \in DOMAIN list :
        /\ NameAt(list[i].feature) \in Int
        /\ NameAt(list[i].feature) = NameAt(list[j].feature) => i = j
  BY NamesHavePlaces DEF Selections
<1>6. StrictOrder(DOMAIN list, PlaceOrder(list))
  BY <1>3, <1>4, <1>5 DEF StrictOrder
<1> QED  BY <1>2, <1>3, <1>6 DEF Earlier, Below

\* The place in the source list of the selection that is sorted to place n.
Source(list, n) ==
  CHOOSE i \in DOMAIN list :
    Cardinality({j \in DOMAIN list : ComesBefore(list, j, i)}) = n - 1

\* One selection is sorted to each place, and none to two.
LEMMA SortIsPermutation ==
  ASSUME NEW list, Selections(list), NEW n \in DOMAIN list
  PROVE  /\ Source(list, n) \in DOMAIN list
         /\ Cardinality(Earlier(list, Source(list, n))) = n - 1
         /\ \A i \in DOMAIN list : Cardinality(Earlier(list, i)) = n - 1 => i = Source(list, n)
         /\ InNameOrder(list)[n] = list[Source(list, n)]
<1>1. n \in 1 .. Cardinality(DOMAIN list)
  BY SortIsOrder DEF Selections
<1>2. /\ \E i \in DOMAIN list : Cardinality(Earlier(list, i)) = n - 1
      /\ \A i, j \in DOMAIN list :
           Cardinality(Earlier(list, i)) = Cardinality(Earlier(list, j)) => i = j
  BY <1>1, SortIsOrder, PlacesAreTaken
<1>3. Source(list, n) \in DOMAIN list /\ Cardinality(Earlier(list, Source(list, n))) = n - 1
  BY <1>2 DEF Source, Earlier
<1>4. InNameOrder(list)[n] = list[Source(list, n)]
  BY DEF InNameOrder, Source
<1> QED  BY <1>2, <1>3, <1>4

\* How many selections come before one is a matter of the set they form.
LEMMA EarlierBySet ==
  ASSUME NEW list, Selections(list), NEW i \in DOMAIN list
  PROVE  LET smaller == {x \in ToSet(list) : NameAt(x.feature) < NameAt(list[i].feature)}
         IN  Cardinality(Earlier(list, i)) = Cardinality(smaller)
<1> DEFINE smaller == {x \in ToSet(list) : NameAt(x.feature) < NameAt(list[i].feature)}
           at == [j \in Earlier(list, i) |-> list[j]]
<1>1. \A j \in DOMAIN list :
        ComesBefore(list, j, i) <=> NameAt(list[j].feature) < NameAt(list[i].feature)
  <2> SUFFICES ASSUME NEW j \in DOMAIN list
               PROVE  ~(list[j].feature = list[i].feature /\ j < i)
    BY DEF ComesBefore
  <2> QED  BY DEF Selections
<1>2. at \in [Earlier(list, i) -> smaller]
  BY <1>1 DEF Earlier, ToSet
<1>3. \A j, k \in Earlier(list, i) : at[j] = at[k] => j = k
  BY DEF Earlier, Selections
<1>4. \A x \in smaller : \E j \in Earlier(list, i) : at[j] = x
  BY <1>1 DEF Earlier, ToSet
<1>5. at \in Bijection(Earlier(list, i), smaller)
  BY <1>2, <1>3, <1>4 DEF Bijection, Injection, Surjection, IsInjective
<1>6. IsFiniteSet(Earlier(list, i))
  BY SortIsOrder, FS_Subset DEF Earlier
<1>7. ExistsBijection(Earlier(list, i), smaller)
  BY <1>5 DEF ExistsBijection
<1>8. Cardinality(Earlier(list, i)) = Cardinality(smaller)
  BY <1>6, <1>7, FS_Bijection
<1> QED  BY <1>8

\* Lists of the same selections have the same length, and are sorted to one list.
LEMMA SortForgetsOrder ==
  ASSUME NEW list, NEW other, Selections(list), Selections(other), ToSet(list) = ToSet(other)
  PROVE  /\ DOMAIN list = DOMAIN other
         /\ \A n \in DOMAIN list : InNameOrder(list)[n] = InNameOrder(other)[n]
<1>1. ASSUME NEW l, Selections(l) PROVE IsFiniteSet(ToSet(l)) /\ Cardinality(ToSet(l)) = Len(l)
  <2> DEFINE at == [i \in DOMAIN l |-> l[i]]
  <2>1. at \in Bijection(DOMAIN l, ToSet(l))
    <3>1. at \in [DOMAIN l -> ToSet(l)] /\ \A x \in ToSet(l) : \E i \in DOMAIN l : at[i] = x
      BY DEF ToSet
    <3>2. \A i, j \in DOMAIN l : at[i] = at[j] => i = j
      BY <1>1 DEF Selections
    <3> QED  BY <3>1, <3>2 DEF Bijection, Injection, Surjection, IsInjective
  <2>2. ExistsBijection(DOMAIN l, ToSet(l))
    BY <2>1 DEF ExistsBijection
  <2> QED  BY <1>1, <2>2, SortIsOrder, FS_Bijection
<1>2. DOMAIN list = DOMAIN other
  <2>1. Len(list) = Len(other)
    BY <1>1
  <2> QED  BY <2>1 DEF Selections
<1>3. ASSUME NEW n \in DOMAIN list PROVE InNameOrder(list)[n] = InNameOrder(other)[n]
  <2> DEFINE i == Source(list, n)
  <2>1. i \in DOMAIN list /\ Cardinality(Earlier(list, i)) = n - 1
    BY <1>3, SortIsPermutation
  <2> HIDE DEF i
  <2>2. PICK k \in DOMAIN other : other[k] = list[i]
    BY <2>1 DEF ToSet
  <2>3. Cardinality(Earlier(other, k)) = n - 1
    BY <2>1, <2>2, EarlierBySet
  <2>4. k = Source(other, n)
    BY <1>2, <1>3, <2>3, SortIsPermutation
  <2> QED  BY <1>2, <1>3, <2>2, <2>4, SortIsPermutation DEF i
<1> QED  BY <1>2, <1>3

-----------------------------------------------------------------------------
(* The module.                                                              *)

\* What validate, the channel and translate_feature leave are selections with
\* an option each.
LEMMA TranslatableSelections ==
  ASSUME NEW spec \in SystemSpecs, Translatable(spec)
  PROVE  Selections(spec.features)
<1>1. /\ spec.features \in Seq(ToSet(spec.features))
      /\ \A i \in DOMAIN spec.features : spec.features[i].feature \in DOMAIN FeatureOption
  BY SelectionsAreLists DEF Translatable
<1>2. \A i, j \in DOMAIN spec.features :
        spec.features[i].feature = spec.features[j].feature => i = j
  BY DEF Translatable, ValidSpec, FeaturesOf, IsInjective
<1> QED  BY <1>1, <1>2 DEF Selections

\* The options of features have names of their own.
LEMMA OptionNames ==
  ASSUME NEW f \in DOMAIN FeatureOption, NEW g \in DOMAIN FeatureOption
  PROVE  /\ FeatureOption[f] = FeatureOption[g] => f = g
         /\ FeatureOption[f] \notin {"networking.hostName", "nixpkgs.hostPlatform",
                                     "boot.kernelPackages"}
BY DEF FeatureOption

\* m is a and b, then c where k is 1, then rest.
IsThreeParts(m, a, b, c, k, rest) ==
  /\ Len(rest) \in Nat /\ k \in 0 .. 1 /\ DOMAIN m = 1 .. 2 + k + Len(rest)
  /\ m[1] = a /\ m[2] = b /\ (k = 1 => m[3] = c)
  /\ \A i \in 1 .. Len(rest) : m[2 + k + i] = rest[i]

\* Two entries, a list of at most one, and a list, one after the other.
LEMMA ThreeParts ==
  ASSUME NEW U, NEW a \in U, NEW b \in U, NEW c \in U, NEW middle, NEW rest \in Seq(U),
         middle = <<>> \/ middle = <<c>>
  PROVE  IsThreeParts(<<a, b>> \o middle \o rest, a, b, c, Len(middle), rest)
<1>1. /\ <<a, b>> \in Seq(U) /\ Len(<<a, b>>) = 2 /\ <<a, b>>[1] = a /\ <<a, b>>[2] = b
      /\ Len(rest) \in Nat
  OBVIOUS
<1>2. /\ middle \in Seq(U)
      /\ \/ Len(middle) = 0
         \/ Len(middle) = 1 /\ middle[1] = c
  <2>1. CASE middle = <<>>
    BY <2>1
  <2>2. CASE middle = <<c>>
    BY <2>2
  <2> QED  BY <2>1, <2>2
<1> DEFINE front == <<a, b>> \o middle
           k == Len(middle)
           n == Len(rest)
<1>3. /\ front \in Seq(U) /\ Len(front) = 2 + k
      /\ \A i \in 1 .. 2 + k : front[i] = IF i <= 2 THEN <<a, b>>[i] ELSE middle[i - 2]
  BY <1>1, <1>2, ConcatProperties
<1>4. k \in 0 .. 1 /\ (k = 1 => middle[1] = c)
  BY <1>2
<1> HIDE DEF front
<1> DEFINE m == front \o rest
<1>5. /\ m \in Seq(U) /\ Len(m) = (2 + k) + n
      /\ \A i \in 1 .. (2 + k) + n : m[i] = IF i <= 2 + k THEN front[i] ELSE rest[i - (2 + k)]
  BY <1>3, ConcatProperties
<1> HIDE DEF m, k, n
<1>6. n \in Nat
  BY <1>1 DEF n
<1>7. front[1] = a /\ front[2] = b /\ (k = 1 => front[3] = c)
  BY <1>1, <1>3, <1>4
<1>8. m[1] = a /\ m[2] = b /\ (k = 1 => m[3] = c)
  BY <1>4, <1>5, <1>6, <1>7
<1>9. ASSUME NEW i \in 1 .. n PROVE m[2 + k + i] = rest[i]
  <2>1. /\ 2 + k + i \in 1 .. (2 + k) + n /\ ~(2 + k + i <= 2 + k)
        /\ (2 + k + i) - (2 + k) = i
    BY <1>4, <1>6
  <2> QED  BY <1>5, <2>1
<1>10. DOMAIN m = 1 .. 2 + k + n
  BY <1>5
<1>11. IsThreeParts(m, a, b, c, k, rest)
  BY <1>4, <1>6, <1>8, <1>9, <1>10 DEF IsThreeParts, n
<1> QED  BY <1>11 DEF m, front, k

\* The places of a module: two fixed options, perhaps the kernel, and the
\* features in the order of their names.
LEMMA ModuleShape ==
  ASSUME NEW spec, Selections(spec.features)
  PROVE  LET n == Len(spec.features)
             k == Len(KernelOptions(spec))
             m == ModuleOf(spec)
         IN  /\ n \in Nat /\ k \in 0 .. 1 /\ DOMAIN m = 1 .. 2 + k + n
             /\ m[1][1] = "networking.hostName" /\ m[2][1] = "nixpkgs.hostPlatform"
             /\ k = 1 => m[3][1] = "boot.kernelPackages"
             /\ \A i \in 1 .. n : m[2 + k + i] = Option(InNameOrder(spec.features)[i])
<1> DEFINE n == Len(spec.features)
           host     == <<"networking.hostName", spec.hostname>>
           platform == <<"nixpkgs.hostPlatform", spec.architecture>>
           latest   == <<"boot.kernelPackages", "latest">>
           features == [i \in DOMAIN spec.features |-> Option(InNameOrder(spec.features)[i])]
           U == {host, platform, latest} \cup {features[i] : i \in 1 .. n}
<1>1. n \in Nat /\ DOMAIN spec.features = 1 .. n
  BY DEF Selections
<1>2. /\ host[1] = "networking.hostName" /\ platform[1] = "nixpkgs.hostPlatform"
      /\ latest[1] = "boot.kernelPackages"
  OBVIOUS
<1>3. KernelOptions(spec) = <<>> \/ KernelOptions(spec) = <<latest>>
  BY DEF KernelOptions
<1>4. ModuleOf(spec) = <<host, platform>> \o KernelOptions(spec) \o features
  BY DEF ModuleOf
<1>5. /\ features = [i \in 1 .. n |-> features[i]]
      /\ \A i \in 1 .. n : features[i] = Option(InNameOrder(spec.features)[i])
  BY <1>1
<1>6. host \in U /\ platform \in U /\ latest \in U /\ \A i \in 1 .. n : features[i] \in U
  OBVIOUS
<1> HIDE DEF host, platform, latest, features, n, U
<1>7. features \in Seq(U) /\ Len(features) = n
  BY <1>1, <1>5, <1>6
<1> DEFINE middle == KernelOptions(spec)
           k == Len(middle)
           m == <<host, platform>> \o middle \o features
<1>8. middle = <<>> \/ middle = <<latest>>
  BY <1>3
<1> HIDE DEF middle
<1>9. IsThreeParts(m, host, platform, latest, k, features)
  BY <1>6, <1>7, <1>8, ThreeParts
<1>10. m = ModuleOf(spec) /\ k = Len(KernelOptions(spec))
  BY <1>4 DEF middle
<1> HIDE DEF m, k
<1>11. /\ k \in 0 .. 1 /\ DOMAIN m = 1 .. 2 + k + n
       /\ m[1] = host /\ m[2] = platform /\ (k = 1 => m[3] = latest)
       /\ \A i \in 1 .. n : m[2 + k + i] = features[i]
  BY <1>7, <1>9 DEF IsThreeParts
<1> QED  BY <1>1, <1>2, <1>5, <1>10, <1>11 DEF n

\* No two options of a module have one name.
LEMMA OptionsAreUnique ==
  ASSUME NEW spec, Selections(spec.features)
  PROVE  IsInjective([i \in DOMAIN ModuleOf(spec) |-> ModuleOf(spec)[i][1]])
<1> DEFINE list == spec.features
           n == Len(list)
           k == Len(KernelOptions(spec))
           m == ModuleOf(spec)
<1>1. /\ n \in Nat /\ k \in 0 .. 1 /\ DOMAIN m = 1 .. 2 + k + n /\ DOMAIN list = 1 .. n
      /\ m[1][1] = "networking.hostName" /\ m[2][1] = "nixpkgs.hostPlatform"
      /\ k = 1 => m[3][1] = "boot.kernelPackages"
      /\ \A i \in 1 .. n : m[2 + k + i] = Option(InNameOrder(list)[i])
  <2>1. DOMAIN list = 1 .. n
    BY DEF Selections
  <2> QED  BY <2>1, ModuleShape
<1> HIDE DEF m, k, n, list
<1>2. ASSUME NEW i \in 1 .. n
      PROVE  /\ Source(list, i) \in DOMAIN list
             /\ list[Source(list, i)].feature \in DOMAIN FeatureOption
             /\ m[2 + k + i][1] = FeatureOption[list[Source(list, i)].feature]
  <2>1. Selections(list) /\ i \in DOMAIN list
    BY <1>1 DEF list
  <2>2. Source(list, i) \in DOMAIN list /\ InNameOrder(list)[i] = list[Source(list, i)]
    BY <2>1, SortIsPermutation
  <2>3. m[2 + k + i] = Option(list[Source(list, i)])
    BY <1>1, <2>2
  <2> QED  BY <2>1, <2>2, <2>3 DEF Selections, Option
<1>3. ASSUME NEW i \in 1 .. n, NEW j \in 1 .. n, m[2 + k + i][1] = m[2 + k + j][1] PROVE i = j
  <2>1. Selections(list) /\ i \in DOMAIN list /\ j \in DOMAIN list
    BY <1>1 DEF list
  <2>2. list[Source(list, i)].feature = list[Source(list, j)].feature
    BY <1>2, <1>3, OptionNames
  <2>3. Source(list, i) = Source(list, j)
    BY <1>2, <2>1, <2>2 DEF Selections
  <2>4. i - 1 = j - 1
    BY <2>1, <2>3, SortIsPermutation
  <2> QED  BY <1>1, <2>4
<1>4. \A i \in 1 .. n :
        m[2 + k + i][1] \notin {"networking.hostName", "nixpkgs.hostPlatform", "boot.kernelPackages"}
  BY <1>2, OptionNames
<1>5. \A i \in DOMAIN m : \/ i = 1 \/ i = 2 \/ (k = 1 /\ i = 3)
                          \/ \E j \in 1 .. n : i = 2 + k + j
  <2> SUFFICES ASSUME NEW i \in 1 .. 2 + k + n
               PROVE  \/ i = 1 \/ i = 2 \/ (k = 1 /\ i = 3)
                      \/ \E j \in 1 .. n : i = 2 + k + j
    BY <1>1
  <2>1. CASE i > 2 + k
    <3>1. i - (2 + k) \in 1 .. n /\ i = 2 + k + (i - (2 + k))
      BY <1>1, <2>1
    <3> QED  BY <3>1
  <2>2. CASE i <= 2 + k
    BY <1>1, <2>2
  <2> QED  BY <1>1, <2>1, <2>2
<1>6. ASSUME NEW i \in DOMAIN m, NEW j \in DOMAIN m, m[i][1] = m[j][1] PROVE i = j
  <2>1. ASSUME NEW x \in 1 .. n, i = 2 + k + x PROVE i = j
    <3>1. PICK y \in 1 .. n : j = 2 + k + y
      BY <1>1, <1>4, <1>5, <1>6, <2>1
    <3> QED  BY <1>3, <1>6, <2>1, <3>1
  <2>2. ASSUME NEW y \in 1 .. n, j = 2 + k + y PROVE i = j
    <3>1. PICK x \in 1 .. n : i = 2 + k + x
      BY <1>1, <1>4, <1>5, <1>6, <2>2
    <3> QED  BY <1>3, <1>6, <2>2, <3>1
  <2>3. CASE (i = 1 \/ i = 2 \/ (k = 1 /\ i = 3)) /\ (j = 1 \/ j = 2 \/ (k = 1 /\ j = 3))
    BY <1>1, <1>6, <2>3
  <2> QED  BY <1>5, <2>1, <2>2, <2>3
<1>7. IsInjective([i \in DOMAIN m |-> m[i][1]])
  BY <1>6 DEF IsInjective
<1> QED  BY <1>7 DEF m

\* The same selections in another order make the same module.
LEMMA ModuleForgetsOrder ==
  ASSUME NEW spec, NEW other, Selections(spec.features), Selections(other.features),
         ToSet(spec.features) = ToSet(other.features), spec.hostname = other.hostname,
         spec.architecture = other.architecture, spec.kernel = other.kernel
  PROVE  ModuleOf(spec) = ModuleOf(other)
<1>1. /\ DOMAIN spec.features = DOMAIN other.features
      /\ \A n \in DOMAIN spec.features :
           InNameOrder(spec.features)[n] = InNameOrder(other.features)[n]
  BY SortForgetsOrder
<1>2. [i \in DOMAIN spec.features |-> Option(InNameOrder(spec.features)[i])] =
      [i \in DOMAIN other.features |-> Option(InNameOrder(other.features)[i])]
  BY <1>1, Zenon
<1>3. KernelOptions(spec) = KernelOptions(other)
  BY DEF KernelOptions
<1> QED  BY <1>2, <1>3 DEF ModuleOf

-----------------------------------------------------------------------------
(* The invariant.                                                           *)

\* The log is a sequence of some records: what append needs of it.
LogIsSequence == \E S : log.records \in Seq(S)

\* What a step that appends record does to the log.
LogGrows(record) ==
  /\ Len(log'.records) = Len(log.records) + 1
  /\ \A i \in 1 .. Len(log.records) : log'.records[i] = log.records[i]
  /\ log'.records[Len(log.records) + 1] = record

\* Appended makes the list of records longer by one (append).
LEMMA LogGrew ==
  ASSUME NEW S, log.records \in Seq(S), NEW record, log' = Appended(log, record)
  PROVE  log'.records \in Seq(S \cup {record}) /\ LogGrows(record)
<1>1. log'.records = Append(log.records, record)
  BY DEF Appended
<1> QED  BY <1>1 DEF LogGrows

\* The caller starts with no plan and an empty log.
LEMMA InitHasPipelineInv == Init => PipelineInv /\ LogIsSequence
<1> SUFFICES ASSUME Init PROVE PipelineInv /\ LogIsSequence
  OBVIOUS
<1>1. LogWellFormed /\ LogIsSequence
  BY EmptyIsWellFormed DEF Init, LogWellFormed, LogIsSequence
<1>2. Len(log.records) = 0
  BY DEF Init, EmptyLog
<1>3. PlanAtHand /\ RunsChecked /\ CandidatesTaken /\ RecordsOfRuns /\ ModulesTranslated
  BY <1>2 DEF Init, PlanAtHand, RunsChecked, CandidatesTaken, RecordsOfRuns, ModulesTranslated
<1> QED  BY <1>1, <1>3 DEF PipelineInv

\* However its fields are set, a plan stays one.
LEMMA AlteredIsPlan ==
  ASSUME IsPlan(plan), AlterPlan
  PROVE  IsPlan(plan')
<1>1. ASSUME NEW c, IsCommand(c), plan' = [plan EXCEPT !.command = c] PROVE IsPlan(plan')
  BY <1>1 DEF IsPlan
<1>2. IsCommand(plan.command)
  BY DEF IsPlan
<1>3. CASE \E of \in Identities : \/ plan' = [plan EXCEPT !.operation = of.operation]
                                 \/ plan' = [plan EXCEPT !.candidate = of.candidate]
                                 \/ plan' = [plan EXCEPT !.systemSpec = of.systemSpec]
  BY <1>3 DEF IsPlan
<1>4. CASE \E target \in Targets : plan' = [plan EXCEPT !.target = target]
  BY <1>4 DEF IsPlan
<1>5. ASSUME NEW a \in Actions,
             \/ plan' = [plan EXCEPT !.action = a]
             \/ plan' = [plan EXCEPT !.effect = RequiredEffect(a)]
             \/ plan' = [plan EXCEPT !.authority = RequiredAuthority(a)]
      PROVE  IsPlan(plan')
  BY <1>5 DEF IsPlan
<1>6. ASSUME NEW x,
             \/ plan' = [plan EXCEPT !.command = [@ EXCEPT !.program = x]]
             \/ plan' = [plan EXCEPT !.command = [@ EXCEPT !.words = x]]
             \/ plan' = [plan EXCEPT !.command = [@ EXCEPT !.attribute = x]]
      PROVE  IsPlan(plan')
  <2>1. /\ IsCommand([plan.command EXCEPT !.program = x])
        /\ IsCommand([plan.command EXCEPT !.words = x])
        /\ IsCommand([plan.command EXCEPT !.attribute = x])
    BY <1>2 DEF IsCommand
  <2> QED  BY <1>1, <1>6, <2>1
<1> QED  BY <1>3, <1>4, <1>5, <1>6 DEF AlterPlan

\* Every step of the caller keeps the invariant of the pipeline.
LEMMA NextKeepsPipelineInv ==
  PipelineInv /\ LogIsSequence /\ [Next]_vars => (PipelineInv /\ LogIsSequence)'
<1> SUFFICES ASSUME PipelineInv, LogIsSequence, [Next]_vars
             PROVE  PipelineInv' /\ LogIsSequence'
  OBVIOUS
\* A step that leaves the log alone keeps what is said of it, and so on.
<1>a. ASSUME UNCHANGED log, runs \subseteq runs' PROVE RecordsOfRuns' /\ LogWellFormed' /\ LogIsSequence'
  BY <1>a DEF PipelineInv, RecordsOfRuns, LogWellFormed, LogIsSequence
<1>b. ASSUME UNCHANGED candidates, runs \subseteq runs' PROVE CandidatesTaken'
  BY <1>b DEF PipelineInv, CandidatesTaken
<1>c. ASSUME UNCHANGED runs PROVE RunsChecked'
  BY <1>c DEF PipelineInv, RunsChecked
<1>d. ASSUME UNCHANGED <<plan, changes>> PROVE PlanAtHand'
  BY <1>d DEF PipelineInv, PlanAtHand
<1>e. ASSUME UNCHANGED translated PROVE ModulesTranslated'
  BY <1>e DEF PipelineInv, ModulesTranslated
<1>1. ASSUME NEW spec \in SystemSpecs, Translate(spec) PROVE PipelineInv' /\ LogIsSequence'
  <2>1. /\ Translatable(spec) /\ translated' = translated \cup {<<spec, ModuleOf(spec)>>}
        /\ UNCHANGED <<plan, changes, runs, candidates, log>>
    BY <1>1 DEF Translate
  <2>2. ModulesTranslated'
    BY <2>1 DEF PipelineInv, ModulesTranslated
  <2> QED  BY <1>a, <1>b, <1>c, <1>d, <2>1, <2>2 DEF PipelineInv
<1>2. ASSUME NEW o \in Operations, NEW target \in Targets,
             NEW effect \in {RequiredEffect(a) : a \in Actions},
             PlanOperation([o EXCEPT !.effect = effect], target)
      PROVE  PipelineInv' /\ LogIsSequence'
  <2> DEFINE p == [o EXCEPT !.effect = effect]
  <2>1. /\ FollowsPolicy(p) /\ plan' = PlanFor(p, target) /\ changes' = 0
        /\ UNCHANGED <<translated, runs, candidates, log>>
    BY <1>2 DEF PlanOperation
  <2>2. p.action \in Actions
    BY DEF Operations, NewOperation
  <2> HIDE DEF p
  <2>3. IsPlan(plan')
    BY <2>1, <2>2, CommandsHaveShape DEF PlanFor, IsPlan
  <2>4. /\ plan'.action = p.action /\ plan'.command = CommandFor(p.action)
        /\ plan'.effect = RequiredEffect(p.action)
        /\ plan'.authority = RequiredAuthority(p.action)
    BY <2>1 DEF PlanFor, FollowsPolicy
  <2>5. PlanAtHand'
    BY <2>1, <2>2, <2>3, <2>4 DEF PlanAtHand
  <2> QED  BY <1>a, <1>b, <1>c, <1>e, <2>1, <2>5 DEF PipelineInv
<1>3. CASE AlterPlan
  <2>1. /\ plan # NoPlan /\ changes' = changes + 1
        /\ UNCHANGED <<translated, runs, candidates, log>>
    BY <1>3 DEF AlterPlan
  <2>2. IsPlan(plan) /\ changes \in Nat
    BY <2>1 DEF PipelineInv, PlanAtHand
  <2>3. IsPlan(plan')
    BY <1>3, <2>2, AlteredIsPlan
  <2>4. changes' \in Nat /\ changes' # 0
    BY <2>1, <2>2
  <2>5. PlanAtHand'
    BY <2>3, <2>4 DEF PlanAtHand
  <2> QED  BY <1>a, <1>b, <1>c, <1>e, <2>1, <2>5 DEF PipelineInv
<1>4. ASSUME NEW succeeded \in BOOLEAN, NEW stdout \in Outputs, Execute(succeeded, stdout)
      PROVE  PipelineInv' /\ LogIsSequence'
  <2> DEFINE run == [plan |-> plan, succeeded |-> succeeded, stdout |-> stdout,
                     result |-> ResultOf(plan, succeeded, stdout)]
  <2>1. /\ plan # NoPlan /\ Executable(plan) /\ runs' = runs \cup {run}
        /\ UNCHANGED <<translated, plan, changes, candidates, log>>
    BY <1>4 DEF Execute
  <2>2. /\ run.plan = plan /\ run.succeeded = succeeded
        /\ run.result = ResultOf(run.plan, run.succeeded, run.stdout)
    OBVIOUS
  <2> HIDE DEF run
  <2>3. IsPlan(plan)
    BY <2>1 DEF PipelineInv, PlanAtHand
  <2>4. RunsChecked'
    BY <2>1, <2>2, <2>3 DEF PipelineInv, RunsChecked
  <2> QED  BY <1>a, <1>b, <1>d, <1>e, <2>1, <2>4 DEF PipelineInv
<1>5. ASSUME NEW run \in runs, TakeCandidate(run) PROVE PipelineInv' /\ LogIsSequence'
  <2>1. /\ YieldsCandidate(run.result)
        /\ candidates' = candidates \cup {CandidateOf(run.result)}
        /\ UNCHANGED <<translated, plan, changes, runs, log>>
    BY <1>5 DEF TakeCandidate
  <2>2. CandidatesTaken'
    BY <2>1 DEF PipelineInv, CandidatesTaken
  <2> QED  BY <1>a, <1>c, <1>d, <1>e, <2>1, <2>2 DEF PipelineInv
<1>6. ASSUME NEW run \in runs, NEW id \in RecordIds, NEW parents \in SUBSET RecordIds,
             RecordResult(run, id, parents)
      PROVE  PipelineInv' /\ LogIsSequence'
  <2> DEFINE record == RecordOf(run.result, id, parents)
  <2>1. /\ Appendable(log, record) /\ log' = Appended(log, record)
        /\ UNCHANGED <<translated, plan, changes, runs, candidates>>
    BY <1>6 DEF RecordResult
  <2>2. record.evidence = run.result
    BY DEF RecordOf
  <2> HIDE DEF record
  <2>3. PICK S : log.records \in Seq(S)
    BY DEF LogIsSequence
  <2>4. LogIsSequence' /\ LogGrows(record)
    BY <2>1, <2>3, LogGrew DEF LogIsSequence
  <2>5. LogWellFormed'
    BY <2>1, <2>3, AppendedIsWellFormed DEF PipelineInv, LogWellFormed
  <2>6. RecordsOfRuns'
    <3> SUFFICES ASSUME NEW i \in 1 .. Len(log'.records)
                 PROVE  \E q \in runs : log'.records[i].evidence = q.result
      BY <2>1 DEF RecordsOfRuns
    <3>1. i \in 1 .. Len(log.records) \/ i = Len(log.records) + 1
      BY <2>3, <2>4 DEF LogGrows
    <3> QED  BY <2>2, <2>4, <3>1 DEF PipelineInv, RecordsOfRuns, LogGrows
  <2> QED  BY <1>b, <1>c, <1>d, <1>e, <2>1, <2>4, <2>5, <2>6 DEF PipelineInv
<1>7. CASE UNCHANGED vars
  BY <1>7, <1>a, <1>b, <1>c, <1>d, <1>e DEF vars, PipelineInv
<1> QED  BY <1>1, <1>2, <1>3, <1>4, <1>5, <1>6, <1>7 DEF Next, PlanAnyOperation

\* The invariant of the pipeline holds throughout.
LEMMA AlwaysPipelineInv == Spec => [](PipelineInv /\ LogIsSequence)
BY InitHasPipelineInv, NextKeepsPipelineInv, PTL DEF Spec

-----------------------------------------------------------------------------
(* What follows from it.                                                    *)

\* Planner and executor agree on the plans of user actions and on no others.
THEOREM CratesAgree == Spec => []PlannerAndExecutorAgree
<1>1. PipelineInv => PlannerAndExecutorAgree
  BY PlannedIsExecutable DEF PipelineInv, PlanAtHand, PlannerAndExecutorAgree
<1> QED  BY <1>1, AlwaysPipelineInv, PTL

\* Every candidate closure came out of a successful build of its own system.
THEOREM CandidatesAreBuilt == Spec => []CandidatesWereBuilt
<1>1. ASSUME PipelineInv PROVE CandidatesWereBuilt
  <2> SUFFICES ASSUME NEW m \in candidates
               PROVE  \E run \in runs :
                 /\ run.succeeded
                 /\ run.plan.command = CommandFor(Materialize)
                 /\ Len(StorePathsIn(run.stdout)) = 1
                 /\ StorePathsIn(run.stdout)[1] = m.closure
                 /\ m.closure \in StoreClosure
                 /\ run.plan.candidate = m.candidate /\ run.plan.systemSpec = m.systemSpec
                 /\ run.plan.operation = m.operation
    BY DEF CandidatesWereBuilt, StorePathsIn
  <2>1. PICK run \in runs : YieldsCandidate(run.result) /\ m = CandidateOf(run.result)
    BY <1>1 DEF PipelineInv, CandidatesTaken
  <2>2. /\ Executable(run.plan) /\ IsPlan(run.plan) /\ run.succeeded \in BOOLEAN
        /\ run.result = ResultOf(run.plan, run.succeeded, run.stdout)
    BY <1>1 DEF PipelineInv, RunsChecked
  <2>3. /\ run.result.action = run.plan.action /\ run.result.candidate = run.plan.candidate
        /\ run.result.systemSpec = run.plan.systemSpec
        /\ run.result.operation = run.plan.operation
        /\ run.result.storePaths = StorePathsIn(run.stdout)
        /\ run.result.status = IF run.succeeded THEN "Succeeded" ELSE "Failed"
    BY <2>2 DEF ResultOf
  <2>4. /\ run.succeeded /\ run.plan.action = Materialize
        /\ Len(StorePathsIn(run.stdout)) = 1
        /\ StorePathsIn(run.stdout)[1] \in StoreClosure
    BY <2>1, <2>2, <2>3 DEF YieldsCandidate
  <2>5. run.plan.command = CommandFor(Materialize)
    BY <2>2, <2>4, ExecutableCommand
    DEF CommandFor, BuildWords, Materialize, BuildIsolatedVm, PreviewActivation, TestActivation
  <2>6. /\ m.closure = StorePathsIn(run.stdout)[1]
        /\ run.plan.candidate = m.candidate /\ run.plan.systemSpec = m.systemSpec
        /\ run.plan.operation = m.operation
    BY <2>1, <2>3 DEF CandidateOf
  <2> QED  BY <2>4, <2>5, <2>6
<1> QED  BY <1>1, AlwaysPipelineInv, PTL

\* Whatever is translated, a module has one value for each option, and selections
\* that differ in their order alone make the same module.
THEOREM ModulesAreCanonical == Spec => []OneModulePerSelection
<1>1. ASSUME PipelineInv PROVE OneModulePerSelection
  <2>1. ASSUME NEW t \in translated
        PROVE  /\ t[1] \in SystemSpecs /\ t[2] = ModuleOf(t[1]) /\ Selections(t[1].features)
    <3>1. PICK spec \in SystemSpecs : Translatable(spec) /\ t = <<spec, ModuleOf(spec)>>
      BY <1>1 DEF PipelineInv, ModulesTranslated
    <3> QED  BY <3>1, TranslatableSelections
  <2>2. ASSUME NEW t \in translated PROVE IsInjective([i \in DOMAIN t[2] |-> t[2][i][1]])
    BY <2>1, OptionsAreUnique
  <2>3. ASSUME NEW t \in translated, NEW u \in translated,
               ToSet(t[1].features) = ToSet(u[1].features),
               t[1].hostname = u[1].hostname, t[1].architecture = u[1].architecture,
               t[1].kernel = u[1].kernel
        PROVE  t[2] = u[2]
    BY <2>1, <2>3, ModuleForgetsOrder
  <2> QED  BY <2>2, <2>3 DEF OneModulePerSelection
<1> QED  BY <1>1, AlwaysPipelineInv, PTL

\* The technician's note "only materialized" is true of what was run.
THEOREM NotesAreRight == Spec => []NotesAreTrue
<1>1. ASSUME PipelineInv PROVE NotesAreTrue
  <2> SUFFICES ASSUME NEW i \in 1 .. Len(log.records)
               PROVE  \E run \in runs :
                 /\ run.result = log.records[i].evidence
                 /\ run.plan.command =
                      [program |-> "nix",
                       words |-> <<"build", "--no-link", "--print-out-paths">>,
                       attribute |-> IF log.records[i].evidence.action = Materialize
                                     THEN "toplevel" ELSE "vm"]
                 /\ run.succeeded = (log.records[i].evidence.status = "Succeeded")
    BY DEF NotesAreTrue
  <2>1. PICK run \in runs : log.records[i].evidence = run.result
    BY <1>1 DEF PipelineInv, RecordsOfRuns
  <2>2. /\ Executable(run.plan) /\ IsPlan(run.plan) /\ run.succeeded \in BOOLEAN
        /\ run.result = ResultOf(run.plan, run.succeeded, run.stdout)
    BY <1>1 DEF PipelineInv, RunsChecked
  <2>3. /\ run.result.action = run.plan.action
        /\ run.result.status = IF run.succeeded THEN "Succeeded" ELSE "Failed"
    BY <2>2 DEF ResultOf
  <2>4. run.succeeded = (run.result.status = "Succeeded")
    BY <2>2, <2>3
  <2>5. run.plan.command =
          [program |-> "nix", words |-> <<"build", "--no-link", "--print-out-paths">>,
           attribute |-> IF run.result.action = Materialize THEN "toplevel" ELSE "vm"]
    BY <2>2, <2>3, ExecutableCommand
  <2> QED  BY <2>1, <2>4, <2>5
<1> QED  BY <1>1, AlwaysPipelineInv, PTL

\* The caller's history is well formed, whatever results are recorded in it.
THEOREM HistoryIsWellFormed == Spec => []LogWellFormed
<1>1. PipelineInv => LogWellFormed
  BY DEF PipelineInv
<1> QED  BY <1>1, AlwaysPipelineInv, PTL

\* The log implements a growing history: every step appends one record with a
\* new identity and known causes, or leaves the log alone.
THEOREM LogImplementsHistory == Spec => ImplementsHistory
<1> DEFINE recorded(l) == {l.records[i] : i \in 1 .. Len(l.records)}
<1>1. Init => History!GrowingInit
  BY DEF Init, EmptyLog, History!GrowingInit
<1>2. ASSUME PipelineInv, LogIsSequence, [Next]_vars
      PROVE  [History!GrowingNext]_(recorded(log))
  <2>1. CASE log' = log
    BY <2>1
  <2>2. ASSUME NEW run \in runs, NEW id \in RecordIds, NEW parents \in SUBSET RecordIds,
               RecordResult(run, id, parents)
        PROVE  History!GrowingNext
    <3> DEFINE record == RecordOf(run.result, id, parents)
    <3>1. Appendable(log, record) /\ log' = Appended(log, record)
      BY <2>2 DEF RecordResult
    <3> HIDE DEF record
    <3>2. PICK S : log.records \in Seq(S)
      BY <1>2 DEF LogIsSequence
    <3>3. LogGrows(record) /\ Len(log.records) \in Nat
      <4>1. LogGrows(record)
        BY <3>1, <3>2, LogGrew
      <4>2. Len(log.records) \in Nat
        BY <3>2
      <4> QED  BY <4>1, <4>2
    <3>4. recorded(log)' = recorded(log) \cup {record}
      <4>1. ASSUME NEW i \in 1 .. Len(log'.records)
            PROVE  log'.records[i] \in recorded(log) \cup {record}
        <5>1. i \in 1 .. Len(log.records) \/ i = Len(log.records) + 1
          BY <3>3 DEF LogGrows
        <5> QED  BY <3>3, <5>1 DEF LogGrows
      <4>2. ASSUME NEW i \in 1 .. Len(log.records)
            PROVE  log.records[i] \in recorded(log)'
        <5>1. i \in 1 .. Len(log'.records)
          BY <3>3 DEF LogGrows
        <5> QED  BY <3>3, <5>1 DEF LogGrows
      <4>3. record \in recorded(log)'
        <5>1. Len(log.records) + 1 \in 1 .. Len(log'.records)
          BY <3>3 DEF LogGrows
        <5> QED  BY <3>3, <5>1 DEF LogGrows
      <4> QED  BY <4>1, <4>2, <4>3
    <3>5. DOMAIN log.index = {r.id : r \in recorded(log)}
      BY <1>2 DEF PipelineInv, LogWellFormed, WellFormed, IndexAgrees
    <3>6. History!Grow(record)
      BY <3>1, <3>4, <3>5 DEF Appendable, Knows, History!Grow, History!Recorded
    <3> QED  BY <3>4, <3>6 DEF History!GrowingNext
  <2>3. (\E run \in runs, id \in RecordIds, parents \in SUBSET RecordIds :
           RecordResult(run, id, parents)) \/ log' = log
    BY <1>2 DEF Next, PlanAnyOperation, Translate, PlanOperation, AlterPlan, Execute,
       TakeCandidate, vars
  <2> QED  BY <2>1, <2>2, <2>3
<1> QED
  BY <1>1, <1>2, AlwaysPipelineInv, PTL DEF Spec, ImplementsHistory, History!GrowingSpec
=============================================================================
