CONSTANTS
  MAX_PAGES = 8
  MAX_TASKS = 3
  TotalPages = 7
  BootUsed <- MCBootUsed
  Rsp0 = 2
  BootStack = 7
  StackSizes = {1, 2}
  KernelTasks = FALSE
  Calls = {"PRINT", "HALT"}
  Keys = {"CapsLock", "Esc"}
  Faults = FALSE
CHECK_DEADLOCK FALSE
SPECIFICATION FairKernelSpec
PROPERTY KeysAnswered
