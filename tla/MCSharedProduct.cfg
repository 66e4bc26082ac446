SPECIFICATION LocksSpec
CONSTANTS
  Sessions = {t1, t2, t3}
  Jobs <- OrderJobs
  NoJob = NoJob
  SkuCount = 2
  ProductOf <- SharedProduct
SYMMETRY SessionSymmetry
INVARIANTS
  NoWaitCycle
