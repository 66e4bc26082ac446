SPECIFICATION RouteSpec
CONSTANTS
  o1 = o1
  o2 = o2
  r1 = r1
  k1 = k1
  k2 = k2
  d1 = d1
  d2 = d2
  x1 = x1
  x2 = x2
  s1 = s1
  s2 = s2
  NoOrder = NoOrder
  NoReference = NoReference
  NoRequest = NoRequest
  NoKey = NoKey
  Orders = {o1, o2}
  Retailers = {r1}
  RetailerOf <- SameRetailer
  Total <- TwoCents
  Skus = {}
  Qty <- NoLines
  PayKeys = {k1, k2}
  Decls = {d1, d2}
  References = {x1, x2}
  Requests <- McRequests
  CacheKeys <- PayRequests
  Sessions <- McSessions
  Slots <- McSessions
  MaxExecutions = 2
INVARIANTS
  RouteTypeOK
  HoldIsUnpaid
  ReceiptsHaveNoGap
  AtMostOnce
  WorkIsRemembered
PROPERTIES
  DecidedOnce
  CommitsAreRecords
