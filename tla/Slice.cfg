\* Two calls of two threads with any events and registries, next to a correlator.
SPECIFICATION Spec
CONSTANTS
  ActiveWorkspace = "dev"
  Callers = {t1, t2}
  Events <- MCEvents
  Registries <- MCRegistries
  Capsules <- MCCapsules
  MaxCalls = 2
  MaxDeliveries = 2
INVARIANTS
  RunsAreAccountedFor
  RunsAreVerified
  BestIsBound
  FirstEventDecides
  DiagnosedTaskRan
PROPERTY RunnableIsBound
SYMMETRY MCSymmetry
\* Nobody has to call, and the bounds let calls and deliveries run out.
CHECK_DEADLOCK FALSE
