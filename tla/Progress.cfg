\* One fair helper at a time; a test and a preview under two authorizations.
SPECIFICATION FairSpec
CONSTANTS
  LocalNode = "pilot"
  StoreClosure <- MCStoreClosure
  BootDefault = "base"
  NoClosure = NoClosure
  Prepared <- MCPrepared
  Request = {"test", "preview"}
  NoRequest = NoRequest
  Torn = Torn
  Free = Free
  MaxPreparedAge = 1
  MaxReadinessAge = 2
  MaxGrantAge = 1
  Issuers = {i1}
  Helpers = {h1}
  MaxFiles = 2
  MaxTime = 0
  MaxReboots = 0
PROPERTIES
  InvocationsReturn
  NoStackedActivation
  ReportsTruth
\* Callers need not call, and the bounds let the clock, the files and the
\* power losses run out.
CHECK_DEADLOCK FALSE
