SPECIFICATION FairLocksSpec
CONSTANTS
  Sessions = {t1, t2, t3}
  Jobs <- BusyJobs
  NoJob = NoJob
  SkuCount = 2
  ProductOf <- OnePerSku
INVARIANTS
  NoWaitCycle
PROPERTIES
  EveryRequestEnds
