CONSTANTS
  Size = 4
  Ops = {100, 101}
SPECIFICATION FairSpec
INVARIANTS TypeOK OwnCompletion Drained
PROPERTY WaitEnds
