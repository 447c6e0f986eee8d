\* One event is delivered to two calls.
SPECIFICATION Spec
CONSTANTS
  ActiveWorkspace = "dev"
  Callers = {t1, t2}
  Events <- MCEvents
  Registries <- MCRegistries
  Capsules <- MCCapsules
  MaxCalls = 2
  MaxDeliveries = 0
INVARIANT EventRunsOnce
SYMMETRY MCSymmetry
\* Nobody has to call, and the bounds let calls and deliveries run out.
CHECK_DEADLOCK FALSE
