SPECIFICATION Spec
CONSTANTS
  MaxPid = 3
  Slice = 2
  BootUsers = 1
  KernelTasks = {3}
  Exiting = {1, 2}
INVARIANTS
  IInv
  RunnableInOnePlace
  SyscallStackExclusive
PROPERTIES
  OnlyLiveProcessesRun
  ImplementsRoundRobin
