-------------------------------- MODULE Heap --------------------------------
(***************************************************************************)
(* The kernel heap (src/heap.c): a doubly linked list of blocks, each a    *)
(* header of HDR units followed by its data, that kmalloc splits and kfree *)
(* coalesces; and the system calls that reach it.                          *)
(*                                                                         *)
(* hdr maps the addresses of the headers on the list to their contents.    *)
(* The callers free only pointers they were given, once: the code checks   *)
(* neither.  Request sizes stay below the heap size, so size_t sums do not *)
(* wrap.                                                                    *)
(***************************************************************************)
EXTENDS Integers

CONSTANTS
  HDR,         \* sizeof(HeapBlock)
  MinSplit,    \* a split leaves a block of at least this size
  SmallAlign,  \* kmalloc_aligned passes alignments up to this on to kmalloc
  Start,       \* heap_addr
  Size,        \* size of the heap, the first header included
  Requests,    \* sizes asked for
  Alignments   \* powers of two asked for

ASSUME HeapAssumption ==
  /\ {HDR, MinSplit, SmallAlign, Start} \subseteq Nat \ {0}
  /\ Size \in Nat /\ Size > HDR
  /\ Requests \subseteq Nat
  /\ Alignments \subseteq Nat \ {0}

VARIABLES
  hdr,    \* header address -> [size, next, prev, free]
  live    \* history: blocks <<pointer, size>> that callers hold

vars == <<hdr, live>>

NULL == 0
End == Start + Size
Addr == Start .. (End - 1)

Heap_Init ==
  /\ hdr = [a \in {Start} |-> [size |-> Size - HDR, next |-> NULL, prev |-> NULL, free |-> TRUE]]
  /\ live = {}

-----------------------------------------------------------------------------
(* The list is in address order (ListTilesHeap), so the first fit is the   *)
(* lowest one.                                                             *)
Fits_EvenInUse(h, n) == {a \in DOMAIN h : h[a].size >= n}   \* variant

Fits(h, n) == {a \in DOMAIN h : h[a].free /\ h[a].size >= n}

FirstFit(h, n) == CHOOSE a \in Fits(h, n) : \A b \in Fits(h, n) : a <= b

(* h with the header r added at b behind a, and its successor's prev set. *)
InsertAfter_NoBackLink(h, a, b, r) ==   \* variant: the successor is forgotten
  [x \in DOMAIN h \cup {b} |->
     IF x = b THEN r ELSE [h[x] EXCEPT !.next = IF x = a THEN b ELSE @]]

InsertAfter(h, a, b, r) ==
  [x \in DOMAIN h \cup {b} |->
     IF x = b THEN r
     ELSE [h[x] EXCEPT !.next = IF x = a THEN b ELSE @,
                       !.prev = IF x = r.next THEN b ELSE @]]

(* A split leaves room for a header and a smallest block; the variant      *)
(* forgets the header.                                                     *)
CanSplit_NoHeader(size, n) == size >= n + MinSplit

CanSplit(size, n) == size >= n + HDR + MinSplit

(* kmalloc's change to the block a that satisfies a request for n. *)
Take(h, a, n) ==
  LET b == a + HDR + n
      rest == [size |-> h[a].size - n - HDR, next |-> h[a].next, prev |-> a, free |-> TRUE]
  IN  IF CanSplit(h[a].size, n)
        THEN [InsertAfter(h, a, b, rest) EXCEPT ![a].size = n, ![a].free = FALSE]
        ELSE [h EXCEPT ![a].free = FALSE]

(* The block after a becomes part of a. *)
Absorb(h, a) ==
  LET b == h[a].next
  IN  [x \in DOMAIN h \ {b} |->
         [h[x] EXCEPT !.size = IF x = a THEN @ + h[b].size + HDR ELSE @,
                      !.next = IF x = a THEN h[b].next ELSE @,
                      !.prev = IF x = h[b].next THEN a ELSE @]]

(* The two merges of kfree, and a variant without the second. *)
CoalescePrev_Never(h, a) == h

CoalesceNext(h, a) == IF h[a].next # NULL /\ h[h[a].next].free THEN Absorb(h, a) ELSE h

CoalescePrev(h, a) == IF h[a].prev # NULL /\ h[h[a].prev].free THEN Absorb(h, h[a].prev) ELSE h

(* kfree of the block whose header is at a. *)
Release(h, a) == CoalescePrev(CoalesceNext([h EXCEPT ![a].free = TRUE], a), a)

RoundUp(x, al) == ((x + al - 1) \div al) * al

(* kmalloc_aligned carves, out of the block taken at a, a block for the     *)
(* first aligned address that leaves room for its header, and frees what    *)
(* is before it.                                                            *)
AlignedAddr(a, al) == RoundUp(a + HDR + HDR, al)

Carve(h, a, al) ==
  LET b == AlignedAddr(a, al) - HDR
      data == [size |-> h[a].size - (b - a), next |-> h[a].next, prev |-> a, free |-> FALSE]
      padded == [InsertAfter(h, a, b, data) EXCEPT ![a].size = b - a - HDR, ![a].free = TRUE]
  IN  Release(padded, a)

-----------------------------------------------------------------------------
(* A request that no block satisfies returns NULL and changes nothing. *)
kmalloc(n) ==
  LET a == FirstFit(hdr, n)
  IN  /\ Fits(hdr, n) # {}
      /\ hdr' = Take(hdr, a, n)
      /\ live' = live \cup {<<a + HDR, n>>}

kmalloc_aligned(n, al) ==
  \/ al <= SmallAlign /\ kmalloc(n)
  \/ LET total == n + al + HDR
         a == FirstFit(hdr, total)
         p == AlignedAddr(a, al)
     IN  /\ al > SmallAlign
         /\ Fits(hdr, total) # {}
         /\ hdr' = Carve(Take(hdr, a, total), a, al)
         /\ live' = live \cup {<<p, n>>}

kfree(b) ==
  /\ hdr' = Release(hdr, b[1] - HDR)
  /\ live' = live \ {b}

(* SYSCALL_KMALLOC runs on into SYSCALL_KFREE, with the new block as the    *)
(* pointer to free; no pointer is returned to the user.                     *)
SyscallKmalloc(n) ==
  LET a == FirstFit(hdr, n)
  IN  /\ Fits(hdr, n) # {}
      /\ hdr' = Release(Take(hdr, a, n), a)
      /\ UNCHANGED live

Next ==
  \/ \E n \in Requests : kmalloc(n)
  \/ \E n \in Requests, al \in Alignments : kmalloc_aligned(n, al)
  \/ \E b \in live : kfree(b)
  \/ \E n \in Requests : SyscallKmalloc(n)

Spec == Heap_Init /\ [][Next]_vars

-----------------------------------------------------------------------------
Header == [size : Nat, next : Addr \cup {NULL}, prev : Addr \cup {NULL}, free : BOOLEAN]

TypeOK ==
  /\ DOMAIN hdr \subseteq Addr
  /\ \A a \in DOMAIN hdr : hdr[a] \in Header
  /\ \A b \in live : b[1] \in Addr \cup {End} /\ b[2] \in Requests

(* The blocks tile the heap and the links agree with the tiling in both    *)
(* directions (heap.c:22-34, 69-81, 98-112), so that no unit of memory is  *)
(* lost or counted twice by any mix of splits, carvings and merges.        *)
ListTilesHeap ==
  /\ Start \in DOMAIN hdr /\ hdr[Start].prev = NULL
  /\ \A a \in DOMAIN hdr :
       LET end == a + HDR + hdr[a].size
       IN  IF end = End THEN hdr[a].next = NULL
           ELSE /\ hdr[a].next = end
                /\ end \in DOMAIN hdr
                /\ hdr[end].prev = a

(* kfree leaves no two free neighbours (heap.c:98-112), whatever the order *)
(* of frees, and neither does the padding of kmalloc_aligned.              *)
NoAdjacentFree ==
  \A a \in DOMAIN hdr :
    hdr[a].free /\ hdr[a].next # NULL => ~hdr[hdr[a].next].free

(* The blocks in use are exactly the ones callers hold, each large enough. *)
HeldBlocks ==
  /\ {a \in DOMAIN hdr : ~hdr[a].free} = {b[1] - HDR : b \in live}
  /\ \A b \in live : hdr[b[1] - HDR].size >= b[2]
  /\ \A b, c \in live : b[1] = c[1] => b = c
=============================================================================
