SPECIFICATION FairSpec
CONSTANTS
  Drivers = {"memory", "redis"}
  Names <- TwoNames
  Boot <- BootInOrder
  Jobs = {j1, j2}
  NameOf <- AllPolls
  MaxAttempts = 3
  MaxOverlap = 2
  MaxExits = 1
PROPERTIES ImplementsContract NothingStartsAfterStop ScheduledJobsRun
CHECK_DEADLOCK FALSE
