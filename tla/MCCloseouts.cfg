SPECIFICATION CloseoutsSpec
CONSTANTS
  i1 = i1
  Correlations <- McCorrelations
  MaxTasks = 3
  MaxCloseouts = 1
  MaxSteps = 1
  StepKinds = {"action_pointer", "observation"}
  Probes <- McProbes
  Judgments = {"completed"}
  CloseoutLevels = {0}
  QueueEvents <- McEvents
CHECK_DEADLOCK FALSE
INVARIANTS
  CloseoutsTypeOK
  TasksFollowTheirRecords
  PeersAreRaised
PROPERTY ClosingLeavesOnlyOrphans
