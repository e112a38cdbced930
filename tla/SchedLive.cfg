SPECIFICATION FairSpec
CONSTANTS
  MaxPid = 3
  Slice = 1
  BootUsers = 2
  KernelTasks = {3}
  Exiting = {1}
PROPERTIES
  RunnableEventuallyRuns
  ExitTerminates
