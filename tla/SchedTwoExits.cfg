SPECIFICATION FairSpec
CONSTANTS
  MaxPid = 2
  Slice = 1
  BootUsers = 2
  KernelTasks = {}
  Exiting = {1, 2}
PROPERTY
  ExitTerminates
