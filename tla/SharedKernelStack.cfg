CONSTANTS
  MAX_PAGES = 8
  MAX_TASKS = 3
  TotalPages = 7
  BootUsed <- MCBootUsed
  Rsp0 = 2
  BootStack = 7
  StackSizes = {1, 2}
  KernelTasks = FALSE
  Calls = {"EXEC"}
  Keys = {"CapsLock"}
  Faults = FALSE
CHECK_DEADLOCK FALSE
SPECIFICATION KernelSpec
INVARIANT ContextPreserved
