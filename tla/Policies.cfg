SPECIFICATION PoliciesSpec
CONSTANTS
  Asset = Asset
  base = base
  app = app
  other = other
  q1 = q1
  q2 = q2
  cis = cis
  Policies = {base, app, other}
  Queries = {q1, q2}
  Frameworks = {cis}
  Bundles <- MCDiamond
  MaxAssign = 1
  MaxUnassign = 1
  None = None
  c1 = c1
  c2 = c2
  k1 = k1
  k2 = k2
  Callers = {c1, c2}
  Keys = {k1, k2}
  Sizes = {1, 2, 4}
  SizeLimit = 3
  TTL = 1
  MaxTime = 2
INVARIANT BundleFresh
INVARIANT LakeConsistent
INVARIANT ScoredWhereDeclared
INVARIANT ResolvedRuns
INVARIANT CacheInOrder
CHECK_DEADLOCK FALSE
