\* A permit is issued again between the comparison and the removal.
SPECIFICATION Spec
CONSTANTS
  LocalNode = "pilot"
  StoreClosure <- MCStoreClosure
  BootDefault = "base"
  NoClosure = NoClosure
  Prepared <- MCPrepared
  Request = {"test", "other"}
  NoRequest = NoRequest
  Torn = Torn
  Free = Free
  MaxPreparedAge = 1
  MaxReadinessAge = 2
  MaxGrantAge = 1
  Issuers = {i1}
  Helpers = {h1}
  MaxFiles = 2
  MaxTime = 0
  MaxReboots = 0
PROPERTIES
  PermitRemovedByItsRequest
\* Callers need not call, and the bounds let the clock, the files and the
\* power losses run out.
CHECK_DEADLOCK FALSE
