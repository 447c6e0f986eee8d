\* One caller with two candidates, up to two changes to a plan, two builds, two records.
SPECIFICATION Spec
CONSTANTS
  ValidHostnames = {"blob"}
  SystemSpecs <- MCSystemSpecs
  Identities <- MCIdentities
  o1 = o1
  o2 = o2
  k1 = k1
  k2 = k2
  s1 = s1
  s2 = s2
  RecordIds = {r1, r2}
  Targets <- MCTargets
  ValidTargets <- MCValidTargets
  Outputs <- MCOutputs
  StorePaths <- MCStorePaths
  StoreClosure <- MCStoreClosure
  NoPlan = NoPlan
  MaxTranslations = 2
  MaxChanges = 2
  MaxRuns = 2
  MaxRecords = 2
INVARIANTS
  OneModulePerSelection
  PlannerAndExecutorAgree
  CandidatesWereBuilt
  NotesAreTrue
  LogWellFormed
PROPERTIES
  ImplementsHistory
VIEW MCView
SYMMETRY MCSymmetry
\* A caller may stop at any time, and the bounds let it.
CHECK_DEADLOCK FALSE
