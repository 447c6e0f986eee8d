\* Two threads that probe a changing host and call one gate with one receipt.
SPECIFICATION PilotSpec
CONSTANTS
  LocalNode = "pilot"
  StoreClosure <- MCStoreClosure
  MaxPreparedAge = 1
  MaxReadinessAge = 0
  Callers = {t1, t2}
  Operations <- MCOperations
  Candidates <- MCCandidates
  Conditions <- MCConditions
  Profile <- MCProfile
  ReceiptIds = {"a1"}
  Validity = 1
  NoCall = NoCall
  MaxTime = 1
  MaxSnapshots = 2
  MaxReceipts = 1
  MaxRestarts = 1
  Probers = {p1}
  Supplies = {"Battery", "Mains"}
  UnreadableTypes = {"Mains"}
  Confirmations <- MCConfirmations
  ProfileNode = "pilot"
  Architecture = "X86_64"
  Unknown = Unknown
  NoProbe = NoProbe
  MaxSpace = 1
  MaxHostChanges = 1
INVARIANTS
  OncePerProcess
  BoundToReview
  RootAcceptsPrepared
  PowerIsKnown
  TestedNodeWasFit
VIEW MCView
SYMMETRY MCSymmetry
\* Callers need not call, and the bounds let the clock run out.
CHECK_DEADLOCK FALSE
