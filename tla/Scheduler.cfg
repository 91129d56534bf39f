CONSTANTS
  MAX_PAGES = 10
  MAX_TASKS = 4
  TotalPages = 9
  BootUsed <- MCBootUsed
  Rsp0 = 4
  StackSizes = {0, 1, 3}
  KernelTasks = TRUE
SPECIFICATION FairSchedSpec
INVARIANTS TypeOK Resumable StacksApart PagesAccounted
PROPERTIES SlotsUsedOnce NoStarvation ImplementsRoundRobin
