\* A request and its later preparation while the clock moves both ways.
SPECIFICATION Spec
CONSTANTS
  LocalNode = "pilot"
  StoreClosure <- MCStoreClosure
  BootDefault = "base"
  NoClosure = NoClosure
  Prepared <- MCPrepared
  Request = {"test", "again"}
  NoRequest = NoRequest
  Torn = Torn
  Free = Free
  MaxPreparedAge = 1
  MaxReadinessAge = 2
  MaxGrantAge = 1
  Issuers = {i1}
  Helpers = {h1}
  MaxFiles = 1
  MaxTime = 2
  MaxReboots = 0
INVARIANTS
  RunsWereApproved
  ApprovalInv
VIEW MCWithoutReports
\* Callers need not call, and the bounds let the clock, the files and the
\* power losses run out.
CHECK_DEADLOCK FALSE
