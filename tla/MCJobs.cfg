SPECIFICATION ExportSpec
CONSTANTS
  NoJob = NoJob
  Tenants = {a, b}
  NoTenant = NoTenant
  Jobs = {j1, j2}
  Workers = {w1, w2}
  MaxRetries = 2
  Faults = {"crash", "database", "shutdown"}
INVARIANTS
  ExportTypeOK
  OneRecord
  AttemptsBounded
  LoneExportIsDelivered
  JobRecordsAgree
PROPERTIES
  EveryJobSettles
