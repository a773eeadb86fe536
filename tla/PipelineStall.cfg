SPECIFICATION Spec
CONSTANTS
  Assets <- WideAssets
  Roots <- WideRoots
  Kids <- WideKids
  Scannable <- WideAssets
  Excluded = {}
  Delayed = {}
  MayNotConnect = {}
  Upstream = FALSE
  CanCancel = FALSE
  MaxConn = 4
  Parallelism = 2
  BatchSize = 5
INVARIANT NoStall
