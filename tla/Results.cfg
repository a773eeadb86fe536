SPECIFICATION ResultsSpec
CONSTANTS
  Attempts = 5
  None = None
  d1 = d1
  d2 = d2
  v1 = v1
  big = big
  odd = odd
  removed = removed
  check = check
  risk = risk
  both = both
  rf = rf
  a1 = a1
  a2 = a2
  res = res
  absent = absent
INVARIANT UploadSafe
PROPERTY PermanentFailsFast
PROPERTY CallsReturn
INVARIANT AssetDelivered
INVARIANT CollectorComplete
PROPERTY DaemonServes
INVARIANT RisksApplied
PROPERTY ListTruthful
INVARIANT UsageMeasured
CHECK_DEADLOCK FALSE
