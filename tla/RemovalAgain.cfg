SPECIFICATION Spec
CONSTANTS
  d1 = d1  d2 = d2  d3 = d3  d4 = d4
  a = a  b = b  c = c  r1 = r1  r2 = r2  p1 = p1  dflt = dflt
  Names = {a, b, c}
  Reqs = {r1, r2}
  Targets <- MCTargets
  Present <- MCPresent
  Disks = {d1, d2, d3, d4}
  Location <- MCLocation
  Pools = {p1, dflt}
  Default = dflt
  PoolSize <- MCPoolSize
INVARIANTS TypeOK RemovedEverywhere PoolsFit MicroCloudKnows
PROPERTY ImplementsRunConcurrent
