--------------------------- MODULE MCPageTables ---------------------------
(* Tables of 4 entries in 3 levels: 64 virtual pages, of which 0 .. 19 are  *)
(* memory and 60 .. 62 devices.  The first memory map has a hole, lists the *)
(* interrupt controllers as a region and leaves memory for a few callers;   *)
(* in the second the tables take every page, and the last region ends where *)
(* the bitmap does, so that it is not counted.                              *)
EXTENDS PageTables

Region(first, n, kind) == [start |-> first, pages |-> n, type |-> kind]

Roomy ==
  {Region(0, 2, "EfiBootServicesData"), Region(2, 2, "EfiLoaderCode"),
   Region(4, 6, "EfiConventionalMemory"), Region(10, 2, "EfiReservedMemoryType"),
   Region(12, 7, "EfiConventionalMemory"), Region(61, 3, "EfiMemoryMappedIO")}

Tight ==
  {Region(0, 12, "EfiConventionalMemory"), Region(12, 2, "EfiLoaderCode"),
   Region(14, 6, "EfiConventionalMemory")}

MCMaps == {Roomy, Tight}
MCSizes == 0 .. 2
=============================================================================
