CONSTANTS
  HDR = 4
  MinSplit = 2
  SmallAlign = 2
  Start = 8
  Size = 36
  Requests = {0, 2, 5}
  Alignments = {2, 8}
SPECIFICATION Spec
INVARIANTS TypeOK ListTilesHeap NoAdjacentFree HeldBlocks
