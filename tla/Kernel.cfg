CONSTANTS
  MAX_PAGES = 8
  MAX_TASKS = 3
  TotalPages = 7
  BootUsed <- MCBootUsed
  Rsp0 = 2
  BootStack = 7
  StackSizes = {1, 2}
  KernelTasks = TRUE
  Calls = {"PRINT", "EXEC", "TERMINATE", "HALT", "NVME_READ"}
  Keys = {"CapsLock", "Esc"}
  Faults = TRUE
CHECK_DEADLOCK FALSE
SPECIFICATION KernelSpec
INVARIANTS KernelTypeOK KernelTaskContexts FirstFrameIntact StackMatchesRegisters Acknowledged
PROPERTY ImplementsScheduler
