CONSTANTS
  a1 = a1
  a2 = a2
  a3 = a3
  Addresses = {a1, a2, a3}
  MAX_BUCKETS = 2
  Limit = 2
  Period = 2
  Statics = {outbound}
  StaticPeriod <- MCStaticPeriod
  Half = 7
  MaxTime = 7
  NA_BAD = NA_BAD
  NULL = NULL
  outbound = outbound
  Hashes = {0, 1}
  SVC_HashForAddress <- MCHash
SPECIFICATION Spec
INVARIANTS ChainsExact RateBound NotOverLimited
PROPERTY LimitSpec
SYMMETRY MCSymmetry
