\* Two helpers look at the host before either has started its command.
SPECIFICATION Spec
CONSTANTS
  LocalNode = "pilot"
  StoreClosure <- MCStoreClosure
  BootDefault = "base"
  NoClosure = NoClosure
  Prepared <- MCPrepared
  Request = {"test", "testTwo"}
  NoRequest = NoRequest
  Torn = Torn
  Free = Free
  MaxPreparedAge = 1
  MaxReadinessAge = 2
  MaxGrantAge = 1
  Issuers = {i1}
  Helpers = {h1, h2}
  MaxFiles = 2
  MaxTime = 0
  MaxReboots = 0
PROPERTIES
  NoStackedActivation
SYMMETRY MCSymmetry
VIEW MCWithoutReports
\* Callers need not call, and the bounds let the clock, the files and the
\* power losses run out.
CHECK_DEADLOCK FALSE
