SPECIFICATION Spec
CONSTANTS
  Radix = 4
  FrameCount = 62
  EarlyLimit = 56
  Text = {0, 1}
  Rodata = {2}
  Data = {3}
  Bootdata = {4, 5}
  Mbi = {6}
  CodeBase = 4
  SlotPages = 4
  StackTop = 127
  StackOrder = 1
  KStackOrder = 0
  LoadPages = {5, 7, 118, 130, 190, 200}
  BootUsers = 1
  MaxPid = 3
INVARIANTS EveryFrameHasOneOwner RingThreeSeesItsOwn KernelHalfShared
CHECK_DEADLOCK FALSE
