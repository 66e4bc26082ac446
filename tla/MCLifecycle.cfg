SPECIFICATION Spec
CONSTANTS
  o1 = o1
  o2 = o2
  r1 = r1
  s1 = s1
  s2 = s2
  NoOrder = NoOrder
  NoReference = NoReference
  Orders = {o1, o2}
  Retailers = {r1}
  RetailerOf <- SameRetailer
  Total <- TwoCents
  Skus = {s1, s2}
  Qty <- Competing
  InitialStock <- TwoUnits
  MaxStock = 2
  PayKeys = {k1, k2}
  Decls = {d1}
  References = {}
  DeclarableAmounts = {1}
SYMMETRY KeySymmetry
INVARIANTS
  TypeOK
  HoldFollowsOrder
  BindingIsExposure
  LedgerMatchesPayments
  NoIntegrityRefusal
  ReservedIsOwned
  StockConserved
  DriftIsDeliveredCredit
PROPERTIES
  ImplementsCreditAccount
CHECK_DEADLOCK FALSE
