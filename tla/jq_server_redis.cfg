SPECIFICATION FairSpec
CONSTANTS
  Drivers = {"redis"}
  Names <- ServerNames
  Boot <- BootAsServer
  Jobs = {}
  NameOf <- AllPolls
  MaxAttempts = 1
  MaxOverlap = 1
  MaxExits = 0
PROPERTIES ScheduledJobsRun
CHECK_DEADLOCK FALSE
