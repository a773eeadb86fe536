SPECIFICATION Spec
CONSTANTS
  Assets <- TreeAssets
  Roots <- TreeRoots
  Kids <- TreeKids
  Scannable = {"r", "a", "x", "b", "c", "d", "e", "f", "g"}
  Excluded = {"x"}
  Delayed = {"a"}
  MayNotConnect = {"c"}
  Upstream = TRUE
  CanCancel = TRUE
  MaxConn = 2
  Parallelism = 2
  BatchSize = 2
INVARIANTS
  SlotsAccounted
  LeavesBounded
  ClosedOnce
  OneSubtree
  CleanFinish
  NoStall
PROPERTIES
  ParentStillOpen
  Returns
