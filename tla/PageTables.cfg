CONSTANTS
  MAX_PAGES = 20
  Maps <- MCMaps
  Sizes <- MCSizes
  Levels = 3
  Entries = 4
  Framebuffer = {60}
  LapicPages = {62}
  IoapicPages = {61}
  StackPages = {4, 5, 6, 7}
  MmioPages = {32, 33}
  Touched = {32, 62}
SPECIFICATION TablesSpec
INVARIANTS TablesTypeOK TreeOfTables TablesHeld TlbCoherent DevicesSupervisor BlocksDisjoint BlocksUsable BitmapExact
PROPERTIES ImplementsAddressSpace ImplementsPageOwner
