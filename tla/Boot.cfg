CONSTANTS
  MAX_PAGES = 7
  MAX_TASKS = 3
  TotalPages = 6
  BootUsed <- MCBootUsed
  Rsp0 = 2
  BootStack = 4
  StackSizes = {1}
  KernelTasks = TRUE
  Calls = {"PRINT", "TERMINATE", "HALT", "NVME_READ"}
  Keys = {"CapsLock", "Esc", "Letter"}
  Faults = FALSE
  Machines <- MCMachines
  MaxChanges = 2
  LastBus = 1
  LastDevice = 1
  LastFunction = 1
CHECK_DEADLOCK FALSE
SPECIFICATION FairBootSpec
INVARIANTS BootTypeOK ContextPreserved DevicesFound
PROPERTIES BootEnds RoutedKeysAnswered
