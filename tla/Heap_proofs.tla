---------------------------- MODULE Heap_proofs ----------------------------
(***************************************************************************)
(* Proofs about Heap for every size of heap, header, request and alignment *)
(* and every order of kmalloc, kmalloc_aligned and kfree.                  *)
(***************************************************************************)
EXTENDS Heap, WellFoundedInduction, TLAPS

EndOf(h, a) == a + HDR + h[a].size

(* A list of blocks that tile the heap.  ListTilesHeap alone would admit a *)
(* second chain of headers across the first: no two blocks overlap, and    *)
(* every block but the first is somebody's next.                           *)
Tiling(h) ==
  /\ h \in [DOMAIN h -> Header] /\ DOMAIN h \subseteq Addr /\ Start \in DOMAIN h
  /\ \A a \in DOMAIN h :
       /\ EndOf(h, a) <= End
       /\ h[a].next = IF EndOf(h, a) = End THEN NULL ELSE EndOf(h, a)
       /\ h[a].next # NULL => h[a].next \in DOMAIN h /\ h[h[a].next].prev = a
       /\ IF a = Start THEN h[a].prev = NULL
                       ELSE h[a].prev \in DOMAIN h /\ h[h[a].prev].next = a
  /\ \A a, b \in DOMAIN h : a < b => EndOf(h, a) <= b

(* No two free neighbours, but perhaps around a. *)
MergedBut(h, a) ==
  \A x \in DOMAIN h :
    (h[x].free /\ h[x].next # NULL /\ h[h[x].next].free) => (x = a \/ h[x].next = a)

Merged(h) == \A x \in DOMAIN h : h[x].free /\ h[x].next # NULL => ~h[h[x].next].free

Used(h) == {a \in DOMAIN h : ~h[a].free}

(* The blocks of g in use are those of h but for U. *)
KeepsUsed(h, g, U) == Used(g) = Used(h) \ U /\ \A x \in Used(g) : g[x].size = h[x].size

(* What HeapAssumption gives the arithmetic of addresses.                  *)
LEMMA Numbers ==
  /\ HDR \in Nat \ {0} /\ MinSplit \in Nat \ {0} /\ Start \in Nat \ {0} /\ End \in Nat
  /\ Start + HDR < End /\ NULL = 0 /\ Addr \subseteq Nat \ {0} /\ NULL \notin Addr
  BY HeapAssumption DEF End, NULL, Addr

(* What a tiling says of one block: its type, its end, the block behind it. *)
LEMMA TilingFacts ==
  ASSUME NEW h, Tiling(h), NEW a \in DOMAIN h
  PROVE  /\ a \in Addr /\ a \in Nat /\ h[a] \in Header /\ h[a].size \in Nat
         /\ EndOf(h, a) \in Nat /\ EndOf(h, a) > a
         /\ h[a].next # a
         /\ h[a].next # NULL => h[a].next = EndOf(h, a) /\ h[a].next \in DOMAIN h
<1>1. a \in Addr /\ a \in Nat /\ h[a] \in Header /\ h[a].size \in Nat
  BY Numbers DEF Tiling, Header
<1>2. EndOf(h, a) \in Nat /\ EndOf(h, a) > a
  BY <1>1, Numbers DEF EndOf
<1>3. h[a].next # NULL => h[a].next = EndOf(h, a) /\ h[a].next \in DOMAIN h
  BY DEF Tiling
<1>4. QED
  BY <1>1, <1>2, <1>3, Numbers DEF Tiling

-----------------------------------------------------------------------------
Divide(h, a, b, r, s, f) == [InsertAfter(h, a, b, r) EXCEPT ![a].size = s, ![a].free = f]

(* What the assignments of a split leave in the headers (heap.c:24-33,     *)
(* 70-82).                                                                 *)
LEMMA InsertedAt ==
  ASSUME NEW D, NEW h \in [D -> Header], NEW a \in D, h[a].next # a,
         NEW b \in Addr, b \notin D, NEW r \in Header, r.next = h[a].next,
         NEW s \in Nat, NEW f \in BOOLEAN,
         NEW g, g = Divide(h, a, b, r, s, f)
  PROVE  /\ g[a].size = s /\ g[a].free = f /\ g[a].next = b /\ g[a].prev = h[a].prev
         /\ g[a] \in Header /\ g[b] = r
  BY DEF Header, Divide, InsertAfter

(* Every other header keeps its contents, but for the successor's prev.    *)
LEMMA InsertedElsewhere ==
  ASSUME NEW D, NEW h \in [D -> Header], NEW a \in D, h[a].next # a,
         NEW b \in Addr, b \notin D, NEW r \in Header, r.next = h[a].next,
         NEW s \in Nat, NEW f \in BOOLEAN,
         NEW g, g = Divide(h, a, b, r, s, f),
         NEW x \in D, x # a
  PROVE  /\ g[x].size = h[x].size /\ g[x].free = h[x].free /\ g[x].next = h[x].next
         /\ g[x].prev = IF x = h[a].next THEN b ELSE h[x].prev
         /\ g[x] \in Header
  BY DEF Header, Divide, InsertAfter

(* g is h with the block at a divided by a header at b. *)
Divided(h, g, a, b) ==
  /\ g \in [DOMAIN g -> Header] /\ DOMAIN g = DOMAIN h \cup {b}
  /\ g[a].size = b - a - HDR /\ g[a].next = b /\ g[a].prev = h[a].prev
  /\ g[b].size = EndOf(h, a) - b - HDR /\ g[b].next = h[a].next /\ g[b].prev = a
  /\ \A x \in DOMAIN h \ {a} :
       /\ g[x].size = h[x].size /\ g[x].free = h[x].free /\ g[x].next = h[x].next
       /\ g[x].prev = IF x = h[a].next THEN b ELSE h[x].prev

(* The place of a new header inside a block.                               *)
LEMMA InsideBlock ==
  ASSUME NEW h, Tiling(h), NEW a \in DOMAIN h, NEW b \in Nat, a + HDR <= b, b + HDR <= EndOf(h, a)
  PROVE  b \notin DOMAIN h /\ b \in Addr /\ b # a
<1>1. a \in Nat /\ a \in Addr /\ EndOf(h, a) \in Nat /\ EndOf(h, a) <= End
  BY TilingFacts DEF Tiling
<1>2. a < b /\ b < EndOf(h, a)
  BY <1>1, Numbers
<1>3. b \in Addr
  BY <1>1, <1>2, Numbers DEF Addr
<1>4. QED
  BY <1>1, <1>2, <1>3 DEF Tiling

NewHeader(h, a, b, f) ==
  [size |-> EndOf(h, a) - b - HDR, next |-> h[a].next, prev |-> a, free |-> f]

(* The assignments of a split divide a block (heap.c:22-33, 68-82).        *)
LEMMA InsertDivides ==
  ASSUME NEW h, Tiling(h), NEW a \in DOMAIN h, NEW b \in Nat, a + HDR <= b, b + HDR <= EndOf(h, a),
         NEW f1 \in BOOLEAN, NEW f2 \in BOOLEAN,
         NEW r, r = NewHeader(h, a, b, f2),
         NEW g, g = Divide(h, a, b, r, b - a - HDR, f1)
  PROVE  Divided(h, g, a, b) /\ g[a].free = f1 /\ g[b].free = f2
<1> DEFINE e == EndOf(h, a)
<1> DEFINE s == b - a - HDR
<1>1. /\ a \in Nat /\ a \in Addr /\ h[a] \in Header /\ e \in Nat
      /\ h \in [DOMAIN h -> Header] /\ h[a].next # a
  BY TilingFacts DEF Tiling
<1>2. b \notin DOMAIN h /\ b \in Addr /\ b # a
  BY InsideBlock
<1>3. s \in Nat /\ e - b - HDR \in Nat
  BY <1>1, Numbers
<1>4. r \in Header /\ r.next = h[a].next /\ r.prev = a /\ r.size = e - b - HDR /\ r.free = f2
  <2>1. h[a].next \in Addr \cup {NULL}
    BY <1>1 DEF Header
  <2>2. QED
    BY <1>1, <1>3, <2>1 DEF Header, NewHeader
<1>5. DOMAIN g = DOMAIN h \cup {b}
  BY <1>2 DEF InsertAfter, Divide
<1> HIDE DEF s, e
<1>6. g = Divide(h, a, b, r, s, f1)
  BY DEF s
<1>7. /\ g[a].size = s /\ g[a].free = f1 /\ g[a].next = b /\ g[a].prev = h[a].prev
      /\ g[a] \in Header /\ g[b] = r
  BY ONLY <1>1, <1>2, <1>3, <1>4, <1>6, f1 \in BOOLEAN, a \in DOMAIN h, InsertedAt
<1>8. ASSUME NEW x \in DOMAIN h \ {a}
      PROVE  /\ g[x].size = h[x].size /\ g[x].free = h[x].free /\ g[x].next = h[x].next
             /\ g[x].prev = IF x = h[a].next THEN b ELSE h[x].prev
             /\ g[x] \in Header
  <2>1. x \in DOMAIN h /\ x # a
    OBVIOUS
  <2>2. QED
    BY ONLY <1>1, <1>2, <1>3, <1>4, <1>6, <2>1, f1 \in BOOLEAN, a \in DOMAIN h, InsertedElsewhere
<1>9. g \in [DOMAIN g -> Header]
  <2>1. ASSUME NEW x \in DOMAIN g PROVE g[x] \in Header
    BY ONLY <1>4, <1>5, <1>7, <1>8, x \in DOMAIN g
  <2>2. g = [x \in DOMAIN g |-> g[x]]
    BY DEF InsertAfter, Divide
  <2>3. QED
    BY ONLY <2>1, <2>2
<1>10. QED
  BY ONLY <1>4, <1>5, <1>7, <1>8, <1>9 DEF Divided, s, e

(* A divided block tiles the heap as the whole one did.                    *)
LEMMA DividedTiles ==
  ASSUME NEW h, Tiling(h), NEW a \in DOMAIN h, NEW b \in Nat, a + HDR <= b, b + HDR <= EndOf(h, a),
         NEW g, Divided(h, g, a, b)
  PROVE  Tiling(g)
<1> DEFINE e == EndOf(h, a)
<1>1. /\ a \in Nat /\ a \in Addr /\ e \in Nat /\ a < b /\ b < e /\ e <= End /\ h[a].next # a
      /\ b \notin DOMAIN h /\ b \in Addr /\ b # a
  BY TilingFacts, InsideBlock, Numbers DEF Tiling
<1>2. g \in [DOMAIN g -> Header] /\ DOMAIN g = DOMAIN h \cup {b}
  BY DEF Divided
<1>3. /\ g[a].size = b - a - HDR /\ g[a].next = b /\ g[a].prev = h[a].prev
      /\ g[b].size = e - b - HDR /\ g[b].next = h[a].next /\ g[b].prev = a
  BY DEF Divided
<1>4. \A x \in DOMAIN h \ {a} :
        /\ g[x].size = h[x].size /\ g[x].free = h[x].free /\ g[x].next = h[x].next
        /\ g[x].prev = IF x = h[a].next THEN b ELSE h[x].prev
  BY DEF Divided
<1>5. EndOf(g, a) = b /\ EndOf(g, b) = e /\ b # End
  BY <1>1, <1>3, Numbers DEF EndOf
<1>6. \A x \in DOMAIN h \ {a} : EndOf(g, x) = EndOf(h, x)
  BY <1>4 DEF EndOf
<1>7. h[a].next = IF e = End THEN NULL ELSE e
  BY DEF Tiling
<1> HIDE DEF e
<1>8. DOMAIN g \subseteq Addr /\ Start \in DOMAIN g
  BY <1>1, <1>2 DEF Tiling
<1>9. ASSUME NEW x \in DOMAIN g
      PROVE  /\ EndOf(g, x) <= End
             /\ g[x].next = IF EndOf(g, x) = End THEN NULL ELSE EndOf(g, x)
  <2>1. CASE x = a
    BY <1>1, <1>3, <1>5, <2>1, Numbers
  <2>2. CASE x = b
    BY <1>1, <1>3, <1>5, <1>7, <2>2
  <2>3. CASE x \in DOMAIN h \ {a}
    <3>1. /\ EndOf(h, x) <= End
          /\ h[x].next = IF EndOf(h, x) = End THEN NULL ELSE EndOf(h, x)
      BY <2>3 DEF Tiling
    <3>2. g[x].next = h[x].next /\ EndOf(g, x) = EndOf(h, x)
      BY <1>4, <1>6, <2>3
    <3>3. QED
      BY <3>1, <3>2
  <2>4. QED
    BY <1>2, <2>1, <2>2, <2>3
<1>10. ASSUME NEW x \in DOMAIN g, g[x].next # NULL
       PROVE  g[x].next \in DOMAIN g /\ g[g[x].next].prev = x
  <2>1. CASE x = a
    BY <1>2, <1>3, <2>1
  <2>2. CASE x = b
    <3>1. h[a].next \in DOMAIN h \ {a}
      BY <1>1, <1>3, <1>10, <2>2 DEF Tiling
    <3>2. QED
      BY <1>2, <1>3, <1>4, <2>2, <3>1
  <2>3. CASE x \in DOMAIN h \ {a}
    <3>1. h[x].next # NULL /\ g[x].next = h[x].next
      BY <1>4, <1>10, <2>3
    <3>2. h[x].next \in DOMAIN h /\ h[h[x].next].prev = x
      BY <2>3, <3>1 DEF Tiling
    <3>3. h[x].next # h[a].next
      <4>1. h[a].next # NULL => h[h[a].next].prev = a
        BY DEF Tiling
      <4>2. QED
        BY <2>3, <3>1, <3>2, <4>1
    <3>4. g[h[x].next].prev = h[h[x].next].prev
      BY <1>3, <1>4, <3>2, <3>3
    <3>5. QED
      BY <1>2, <3>1, <3>2, <3>4
  <2>4. QED
    BY <1>2, <2>1, <2>2, <2>3
<1>11. ASSUME NEW x \in DOMAIN g
       PROVE  IF x = Start THEN g[x].prev = NULL
              ELSE g[x].prev \in DOMAIN g /\ g[g[x].prev].next = x
  <2>1. CASE x = b
    <3>1. x # Start
      BY <1>1, <2>1 DEF Tiling
    <3>2. QED
      BY <1>2, <1>3, <2>1, <3>1
  <2>2. CASE x \in DOMAIN h /\ x # Start
    <3>1. h[x].prev \in DOMAIN h /\ h[h[x].prev].next = x
      BY <2>2 DEF Tiling
    <3>2. CASE x = a
      <4>1. h[x].prev # a
        BY <1>1, <3>1, <3>2
      <4>2. QED
        BY <1>2, <1>3, <1>4, <2>2, <3>1, <3>2, <4>1
    <3>3. CASE x # a /\ x = h[a].next
      BY <1>2, <1>3, <1>4, <2>2, <3>3
    <3>4. CASE x # a /\ x # h[a].next
      <4>1. h[x].prev # a
        BY <3>1, <3>4
      <4>2. g[x].prev = h[x].prev /\ g[h[x].prev].next = x
        BY <1>4, <2>2, <3>1, <3>4, <4>1
      <4>3. QED
        BY <1>2, <2>2, <3>1, <4>2
    <3>5. QED
      BY <3>2, <3>3, <3>4
  <2>3. CASE x = Start
    <3>1. Start \in DOMAIN h /\ h[Start].prev = NULL
      BY DEF Tiling
    <3>2. Start # h[a].next
      <4>1. h[a].next # NULL => h[h[a].next].prev = a
        BY DEF Tiling
      <4>2. QED
        BY <1>1, <3>1, <4>1, Numbers
    <3>3. QED
      BY <1>3, <1>4, <2>3, <3>1, <3>2
  <2>4. QED
    BY <1>2, <2>1, <2>2, <2>3
<1>12. ASSUME NEW x \in DOMAIN g, NEW y \in DOMAIN g, x < y
       PROVE  EndOf(g, x) <= y
  <2>1. ASSUME NEW z \in DOMAIN h \ {a}
        PROVE  /\ z < a => EndOf(g, z) <= a
               /\ z < b => EndOf(g, z) <= b
               /\ a < z => EndOf(g, a) <= z
               /\ b < z => EndOf(g, b) <= z
    <3>1. z \in Nat /\ EndOf(g, z) = EndOf(h, z) /\ EndOf(h, z) \in Nat
      BY <1>6, TilingFacts
    <3>2. z < a \/ a < z
      BY <1>1, <3>1
    <3>3. z < a => EndOf(h, z) <= a
      BY DEF Tiling
    <3>4. a < z => e <= z
      BY DEF Tiling, e
    <3>5. QED
      BY <1>1, <1>5, <3>1, <3>2, <3>3, <3>4
  <2>2. CASE x \in DOMAIN h \ {a} /\ y \in DOMAIN h \ {a}
    BY <1>6, <1>12, <2>2 DEF Tiling
  <2>3. CASE x \in DOMAIN h \ {a} /\ y \in {a, b}
    BY <1>12, <2>1, <2>3
  <2>4. CASE x \in {a, b} /\ y \in DOMAIN h \ {a}
    BY <1>12, <2>1, <2>4
  <2>5. CASE x \in {a, b} /\ y \in {a, b}
    BY <1>1, <1>5, <1>12, <2>5
  <2>6. QED
    BY <1>2, <2>2, <2>3, <2>4, <2>5
<1>13. QED
  BY ONLY <1>2, <1>8, <1>9, <1>10, <1>11, <1>12 DEF Tiling

-----------------------------------------------------------------------------
Flagged(h, a, f) == [h EXCEPT ![a].free = f]

(* The flag alone: a block taken whole, and the first assignment of kfree  *)
(* (heap.c:36, 96).                                                        *)
LEMMA FlagTiles ==
  ASSUME NEW h, Tiling(h), NEW a \in DOMAIN h, NEW f \in BOOLEAN,
         NEW g, g = Flagged(h, a, f)
  PROVE  /\ DOMAIN g = DOMAIN h /\ g[a].free = f
         /\ \A x \in DOMAIN h :
              /\ g[x].size = h[x].size /\ g[x].next = h[x].next /\ g[x].prev = h[x].prev
              /\ x # a => g[x].free = h[x].free
         /\ Tiling(g)
<1>1. h \in [DOMAIN h -> Header] /\ DOMAIN g = DOMAIN h
  BY DEF Tiling, Flagged
<1>2. ASSUME NEW x \in DOMAIN h
      PROVE  /\ g[x].size = h[x].size /\ g[x].next = h[x].next /\ g[x].prev = h[x].prev
             /\ x # a => g[x].free = h[x].free
             /\ x = a => g[x].free = f
             /\ g[x] \in Header
  BY <1>1 DEF Header, Flagged
<1>3. g \in [DOMAIN g -> Header]
  <2>1. g = [x \in DOMAIN h |-> g[x]]
    BY <1>1 DEF Flagged
  <2>2. QED
    BY ONLY <1>1, <1>2, <2>1
<1>4. \A x \in DOMAIN h : EndOf(g, x) = EndOf(h, x)
  BY <1>2 DEF EndOf
<1>5. ASSUME NEW x \in DOMAIN h
      PROVE  /\ EndOf(g, x) <= End
             /\ g[x].next = IF EndOf(g, x) = End THEN NULL ELSE EndOf(g, x)
             /\ g[x].next # NULL => g[x].next \in DOMAIN g /\ g[g[x].next].prev = x
             /\ IF x = Start THEN g[x].prev = NULL
                             ELSE g[x].prev \in DOMAIN g /\ g[g[x].prev].next = x
  <2>1. /\ EndOf(h, x) <= End
        /\ h[x].next = IF EndOf(h, x) = End THEN NULL ELSE EndOf(h, x)
        /\ h[x].next # NULL => h[x].next \in DOMAIN h /\ h[h[x].next].prev = x
        /\ IF x = Start THEN h[x].prev = NULL
                        ELSE h[x].prev \in DOMAIN h /\ h[h[x].prev].next = x
    BY DEF Tiling
  <2>2. QED
    BY ONLY <1>1, <1>2, <1>4, <2>1, x \in DOMAIN h
<1>6. Start \in DOMAIN g /\ DOMAIN g \subseteq Addr /\ \A x, y \in DOMAIN g : x < y => EndOf(g, x) <= y
  BY <1>1, <1>4 DEF Tiling
<1>7. Tiling(g)
  BY ONLY <1>1, <1>3, <1>5, <1>6 DEF Tiling
<1>8. QED
  BY <1>1, <1>2, <1>7

(* g is h with the block b behind a merged into a.                         *)
Joined(h, g, a, b) ==
  /\ g \in [DOMAIN g -> Header] /\ DOMAIN g = DOMAIN h \ {b}
  /\ g[a].size = h[a].size + h[b].size + HDR /\ g[a].next = h[b].next
  /\ g[a].prev = h[a].prev /\ g[a].free = h[a].free
  /\ \A x \in DOMAIN h \ {a, b} :
       /\ g[x].size = h[x].size /\ g[x].free = h[x].free /\ g[x].next = h[x].next
       /\ g[x].prev = IF x = h[b].next THEN a ELSE h[x].prev

(* The assignments of a merge join two blocks (heap.c:99-111).             *)
LEMMA AbsorbJoins ==
  ASSUME NEW h, Tiling(h), NEW a \in DOMAIN h, h[a].next # NULL
  PROVE  Joined(h, Absorb(h, a), a, h[a].next)
<1> DEFINE b == h[a].next
<1> DEFINE g == Absorb(h, a)
<1>1. /\ h \in [DOMAIN h -> Header] /\ DOMAIN h \subseteq Addr
      /\ a \in Nat /\ b \in DOMAIN h /\ b = EndOf(h, a) /\ b > a /\ EndOf(h, b) > b /\ EndOf(h, b) \in Nat /\ b \in Nat
  BY TilingFacts DEF Tiling
<1>2. h[b].next # a /\ h[b].next # b
  <2>1. h[b].next # NULL => h[b].next = EndOf(h, b)
    BY <1>1, TilingFacts
  <2>2. QED
    BY <1>1, <2>1, Numbers
<1>3. DOMAIN g = DOMAIN h \ {b}
  BY DEF Absorb
<1>4. /\ g[a].size = h[a].size + h[b].size + HDR /\ g[a].next = h[b].next
      /\ g[a].prev = h[a].prev /\ g[a].free = h[a].free /\ g[a] \in Header
  <2>1. a \in DOMAIN h \ {b} /\ h[a] \in Header /\ h[b] \in Header
    BY <1>1
  <2>2. g[a] = [h[a] EXCEPT !.size = @ + h[b].size + HDR, !.next = h[b].next, !.prev = @]
    BY <1>2, <2>1 DEF Absorb
  <2>3. h[a].size + h[b].size + HDR \in Nat /\ h[b].next \in Addr \cup {NULL}
    BY <2>1, Numbers DEF Header
  <2>4. QED
    BY ONLY <2>1, <2>2, <2>3 DEF Header
<1>5. ASSUME NEW x \in DOMAIN h \ {a, b}
      PROVE  /\ g[x].size = h[x].size /\ g[x].free = h[x].free /\ g[x].next = h[x].next
             /\ g[x].prev = IF x = h[b].next THEN a ELSE h[x].prev
             /\ g[x] \in Header
  <2>1. x \in DOMAIN h \ {b} /\ x # a /\ h[x] \in Header
    BY <1>1
  <2>2. g[x] = [h[x] EXCEPT !.size = @, !.next = @, !.prev = IF x = h[b].next THEN a ELSE @]
    BY <2>1 DEF Absorb
  <2>3. a \in Addr
    BY <1>1
  <2>4. QED
    BY ONLY <2>1, <2>2, <2>3 DEF Header
<1>6. g \in [DOMAIN g -> Header]
  <2>1. ASSUME NEW x \in DOMAIN g PROVE g[x] \in Header
    BY <1>3, <1>4, <1>5
  <2>2. g = [x \in DOMAIN g |-> g[x]]
    BY DEF Absorb
  <2> HIDE DEF g
  <2>3. QED
    BY <2>1, <2>2
<1> HIDE DEF g, b
<1>7. Joined(h, g, a, b)
  BY <1>3, <1>4, <1>5, <1>6 DEF Joined
<1>8. QED
  BY <1>7 DEF g, b

(* Two joined blocks tile the heap as they did apart.                      *)
LEMMA JoinedTiles ==
  ASSUME NEW h, Tiling(h), NEW a \in DOMAIN h, h[a].next # NULL,
         NEW b, b = h[a].next, NEW g, Joined(h, g, a, b)
  PROVE  Tiling(g)
<1> DEFINE c == h[b].next
<1>1. /\ a \in Nat /\ b \in Nat /\ b \in DOMAIN h /\ b = EndOf(h, a) /\ a < b /\ h[b].prev = a
      /\ b < EndOf(h, b) /\ EndOf(h, b) \in Nat /\ a \in Addr /\ b \in Addr
  BY TilingFacts DEF Tiling
<1>2. c # NULL => c = EndOf(h, b) /\ c \in DOMAIN h /\ h[c].prev = b
  BY <1>1 DEF Tiling
<1>3. c # a /\ c # b /\ a # NULL /\ b # NULL
  BY <1>1, <1>2, Numbers
<1>4. g \in [DOMAIN g -> Header] /\ DOMAIN g = DOMAIN h \ {b}
  BY DEF Joined
<1>5. /\ g[a].size = h[a].size + h[b].size + HDR /\ g[a].next = c
      /\ g[a].prev = h[a].prev /\ g[a].free = h[a].free
  BY DEF Joined
<1>6. \A x \in DOMAIN h \ {a, b} :
        /\ g[x].size = h[x].size /\ g[x].free = h[x].free /\ g[x].next = h[x].next
        /\ g[x].prev = IF x = c THEN a ELSE h[x].prev
  BY DEF Joined
<1>7. EndOf(g, a) = EndOf(h, b)
  <2>1. h[a].size \in Nat /\ h[b].size \in Nat
    BY <1>1, TilingFacts
  <2>2. QED
    BY <1>1, <1>5, <2>1, Numbers DEF EndOf
<1>8. \A x \in DOMAIN h \ {a, b} : EndOf(g, x) = EndOf(h, x)
  BY <1>6 DEF EndOf
<1> HIDE DEF c
<1>9. DOMAIN g \subseteq Addr /\ Start \in DOMAIN g
  BY <1>1, <1>3, <1>4 DEF Tiling
<1>10. ASSUME NEW x \in DOMAIN g
       PROVE  /\ EndOf(g, x) <= End
              /\ g[x].next = IF EndOf(g, x) = End THEN NULL ELSE EndOf(g, x)
  <2>1. ASSUME NEW y \in DOMAIN h
        PROVE  /\ EndOf(h, y) <= End
               /\ h[y].next = IF EndOf(h, y) = End THEN NULL ELSE EndOf(h, y)
    BY DEF Tiling
  <2>2. CASE x = a
    BY ONLY <1>1, <1>5, <1>7, <2>1, <2>2 DEF c
  <2>3. CASE x # a
    BY ONLY <1>4, <1>6, <1>8, <2>1, <2>3, x \in DOMAIN g
  <2>4. QED
    BY <2>2, <2>3
<1>11. ASSUME NEW x \in DOMAIN g, g[x].next # NULL
       PROVE  g[x].next \in DOMAIN g /\ g[g[x].next].prev = x
  <2>1. CASE x = a
    BY <1>2, <1>3, <1>4, <1>5, <1>6, <1>11, <2>1
  <2>2. CASE x # a
    <3>1. x \in DOMAIN h \ {a, b} /\ g[x].next = h[x].next
      BY <1>4, <1>6, <2>2
    <3>2. h[x].next \in DOMAIN h /\ h[h[x].next].prev = x
      BY <1>11, <3>1 DEF Tiling
    <3>3. h[x].next # b /\ h[x].next # c
      BY <1>1, <1>2, <1>11, <3>1, <3>2
    <3>4. g[h[x].next].prev = x
      BY <1>5, <1>6, <3>2, <3>3
    <3>5. QED
      BY <1>4, <3>1, <3>2, <3>3, <3>4
  <2>3. QED
    BY <2>1, <2>2
<1>12. ASSUME NEW x \in DOMAIN g
       PROVE  IF x = Start THEN g[x].prev = NULL
              ELSE g[x].prev \in DOMAIN g /\ g[g[x].prev].next = x
  <2>1. Start \in DOMAIN h /\ h[Start].prev = NULL
    BY DEF Tiling
  <2>2. CASE x = Start
    <3>1. x # c
      BY <1>2, <1>3, <2>1, <2>2, Numbers
    <3>2. QED
      BY <1>4, <1>5, <1>6, <2>1, <2>2, <3>1
  <2>3. CASE x # Start
    <3>1. x \in DOMAIN h /\ x # b /\ h[x].prev \in DOMAIN h /\ h[h[x].prev].next = x
      BY <1>4, <2>3 DEF Tiling
    <3>2. CASE x = a
      <4>1. h[x].prev # a /\ h[x].prev # b
        BY <1>1, <1>3, <3>1, <3>2 DEF c
      <4>2. QED
        BY <1>4, <1>5, <1>6, <2>3, <3>1, <3>2, <4>1
    <3>3. CASE x # a /\ x = c
      BY <1>1, <1>4, <1>5, <1>6, <2>3, <3>1, <3>3
    <3>4. CASE x # a /\ x # c
      <4>1. h[x].prev # a /\ h[x].prev # b
        BY <3>1, <3>4 DEF c
      <4>2. QED
        BY <1>4, <1>6, <2>3, <3>1, <3>4, <4>1
    <3>5. QED
      BY <3>2, <3>3, <3>4
  <2>4. QED
    BY <2>2, <2>3
<1>13. ASSUME NEW x \in DOMAIN g, NEW y \in DOMAIN g, x < y
       PROVE  EndOf(g, x) <= y
  <2>1. x \in DOMAIN h /\ y \in DOMAIN h /\ y # b /\ y \in Nat
    BY <1>4, TilingFacts
  <2>2. EndOf(h, x) <= y
    BY <1>13, <2>1 DEF Tiling
  <2>3. CASE x = a
    <3>1. b < y
      BY <1>1, <2>1, <2>2, <2>3
    <3>2. EndOf(h, b) <= y
      BY <1>1, <2>1, <3>1 DEF Tiling
    <3>3. QED
      BY <1>7, <2>3, <3>2
  <2>4. CASE x # a
    BY <1>4, <1>8, <2>1, <2>2, <2>4
  <2>5. QED
    BY <2>3, <2>4
<1>14. QED
  BY ONLY <1>4, <1>9, <1>10, <1>11, <1>12, <1>13 DEF Tiling

(* Two free neighbours joined: the blocks in use are the same.             *)
LEMMA AbsorbKeeps ==
  ASSUME NEW h, Tiling(h), NEW a \in DOMAIN h, h[a].next # NULL, h[a].free, h[h[a].next].free
  PROVE  Tiling(Absorb(h, a)) /\ KeepsUsed(h, Absorb(h, a), {})
<1> DEFINE b == h[a].next
<1> DEFINE g == Absorb(h, a)
<1>1. Joined(h, g, a, b)
  BY AbsorbJoins
<1> HIDE DEF g
<1>2. Tiling(g)
  BY <1>1, JoinedTiles
<1>3. b \in DOMAIN h /\ h[b].free
  BY DEF Tiling
<1>4. KeepsUsed(h, g, {})
  BY ONLY <1>1, <1>3, h[a].free, a \in DOMAIN h DEF Joined, KeepsUsed, Used
<1>5. QED
  BY <1>2, <1>4 DEF g

(* The merge with the next block (heap.c:98-104): what is left to merge is  *)
(* a with the block before it.                                              *)
LEMMA NextMerged ==
  ASSUME NEW h, Tiling(h), NEW a \in DOMAIN h, h[a].free, MergedBut(h, a),
         NEW g, g = CoalesceNext(h, a)
  PROVE  /\ Tiling(g) /\ KeepsUsed(h, g, {}) /\ a \in DOMAIN g /\ g[a].free
         /\ \A x \in DOMAIN g :
              g[x].free /\ g[x].next # NULL /\ g[g[x].next].free => g[x].next = a
<1> DEFINE b == h[a].next
<1>1. CASE b # NULL /\ h[b].free
  <2>1. g = Absorb(h, a)
    BY <1>1 DEF CoalesceNext
  <2>2. Tiling(g) /\ KeepsUsed(h, g, {})
    BY <1>1, <2>1, AbsorbKeeps
  <2>3. Joined(h, g, a, b)
    BY <1>1, <2>1, AbsorbJoins
  <2>4. b \in DOMAIN h /\ a # b /\ h[b].next # a /\ h[b].next # b
    <3>1. a \in Nat /\ a \in Addr /\ b = EndOf(h, a) /\ b > a /\ b \in DOMAIN h
      BY <1>1, TilingFacts
    <3> HIDE DEF b
    <3>2. b \in Nat /\ b \in Addr /\ EndOf(h, b) > b /\ EndOf(h, b) \in Nat /\ (h[b].next # NULL => h[b].next = EndOf(h, b))
      BY <3>1, TilingFacts
    <3>3. QED
      BY <3>1, <3>2, Numbers
  <2>5. h[b].next # NULL => h[b].next \in DOMAIN h /\ ~h[h[b].next].free
    BY <1>1, <2>4 DEF Tiling, MergedBut
  <2>6. DOMAIN g = DOMAIN h \ {b} /\ g[a].free /\ g[a].next = h[b].next
    BY <2>3 DEF Joined
  <2>7. \A x \in DOMAIN h \ {a, b} : g[x].free = h[x].free /\ g[x].next = h[x].next
    BY <2>3 DEF Joined
  <2>8. ASSUME NEW x \in DOMAIN g, g[x].free, g[x].next # NULL, g[g[x].next].free
        PROVE  g[x].next = a
    <3>1. CASE x = a
      <4>1. g[x].next \in DOMAIN h \ {a, b} /\ ~h[g[x].next].free
        BY <2>4, <2>5, <2>6, <2>8, <3>1
      <4>2. QED
        BY <2>7, <2>8, <4>1
    <3>2. CASE x # a
      <4>1. x \in DOMAIN h \ {a, b} /\ h[x].free /\ h[x].next = g[x].next
        BY <2>6, <2>7, <2>8, <3>2
      <4>2. g[x].next \in DOMAIN g
        BY <2>2, <2>8 DEF Tiling
      <4>3. CASE g[x].next # a
        <5>1. h[h[x].next].free
          BY <2>6, <2>7, <2>8, <4>1, <4>2, <4>3
        <5>2. QED
          BY <2>8, <3>2, <4>1, <5>1 DEF MergedBut
      <4>4. QED
        BY <4>3
    <3>3. QED
      BY <3>1, <3>2
  <2>9. QED
    BY <2>2, <2>4, <2>6, <2>8
<1>2. CASE ~(b # NULL /\ h[b].free)
  <2>1. g = h
    BY <1>2 DEF CoalesceNext
  <2>2. QED
    BY <1>2, <2>1 DEF MergedBut, KeepsUsed, Used
<1>3. QED
  BY <1>1, <1>2

(* The merge with the previous block (heap.c:107-112) leaves no two free    *)
(* neighbours.                                                              *)
LEMMA PrevMerged ==
  ASSUME NEW h, Tiling(h), NEW a \in DOMAIN h, h[a].free,
         \A x \in DOMAIN h : h[x].free /\ h[x].next # NULL /\ h[h[x].next].free => h[x].next = a,
         NEW g, g = CoalescePrev(h, a)
  PROVE  Tiling(g) /\ KeepsUsed(h, g, {}) /\ Merged(g)
<1> DEFINE p == h[a].prev
<1>1. IF a = Start THEN p = NULL ELSE p \in DOMAIN h /\ h[p].next = a
  BY DEF Tiling
<1>2. NULL \notin DOMAIN h
  BY Numbers DEF Tiling
<1>3. CASE p # NULL /\ h[p].free
  <2>1. g = Absorb(h, p) /\ p \in DOMAIN h /\ h[p].next = a /\ a # NULL
    BY <1>1, <1>2, <1>3 DEF CoalescePrev
  <2>2. Tiling(g) /\ KeepsUsed(h, g, {})
    BY <1>3, <2>1, AbsorbKeeps
  <2>3. Joined(h, g, p, a)
    BY <2>1, AbsorbJoins
  <2>4. h[a].next # p /\ h[a].next # a /\ p # a
    <3>1. p \in Nat /\ a = EndOf(h, p) /\ a > p
      BY <2>1, TilingFacts
    <3>2. a \in Nat /\ EndOf(h, a) > a /\ EndOf(h, a) \in Nat /\ (h[a].next # NULL => h[a].next = EndOf(h, a))
      BY TilingFacts
    <3>3. QED
      BY <2>1, <1>2, <3>1, <3>2, Numbers
  <2>5. h[a].next # NULL => h[a].next \in DOMAIN h /\ ~h[h[a].next].free
    BY <2>4 DEF Tiling
  <2>6. DOMAIN g = DOMAIN h \ {a} /\ g[p].free /\ g[p].next = h[a].next
    BY <1>3, <2>3 DEF Joined
  <2>7. \A x \in DOMAIN h \ {p, a} : g[x].free = h[x].free /\ g[x].next = h[x].next
    BY <2>3 DEF Joined
  <2>8. ASSUME NEW x \in DOMAIN g, g[x].free, g[x].next # NULL, g[g[x].next].free
        PROVE  FALSE
    <3>1. CASE x = p
      <4>1. g[x].next \in DOMAIN h \ {p, a} /\ ~h[g[x].next].free
        BY <2>4, <2>5, <2>6, <2>8, <3>1
      <4>2. QED
        BY <2>7, <2>8, <4>1
    <3>2. CASE x # p
      <4>1. x \in DOMAIN h \ {p, a} /\ h[x].free /\ h[x].next = g[x].next
        BY <2>6, <2>7, <2>8, <3>2
      <4>2. g[x].next \in DOMAIN g
        BY <2>2, <2>8 DEF Tiling
      <4>3. h[h[x].next].free
        BY <1>3, <2>6, <2>7, <2>8, <4>1, <4>2
      <4>4. QED
        BY <2>6, <2>8, <4>1, <4>2, <4>3
    <3>3. QED
      BY <3>1, <3>2
  <2>9. QED
    BY <2>2, <2>8 DEF Merged
<1>4. CASE ~(p # NULL /\ h[p].free)
  <2>1. g = h
    BY <1>4 DEF CoalescePrev
  <2>2. ASSUME NEW x \in DOMAIN h, h[x].free, h[x].next # NULL, h[h[x].next].free
        PROVE  FALSE
    <3>1. h[x].next = a
      BY <2>2
    <3>2. h[a].prev = x
      BY <2>2, <3>1 DEF Tiling
    <3>3. QED
      BY <1>2, <1>4, <2>2, <3>2
  <2>3. QED
    BY <2>1, <2>2 DEF Merged, KeepsUsed, Used
<1>5. QED
  BY <1>3, <1>4

(* kfree frees its block, keeps every other block in use and its size, and  *)
(* merges all there is to merge, whatever its neighbours (heap.c:91-113).   *)
LEMMA ReleaseMerges ==
  ASSUME NEW h, Tiling(h), NEW a \in DOMAIN h, MergedBut(h, a)
  PROVE  /\ Tiling(Release(h, a)) /\ Merged(Release(h, a))
         /\ KeepsUsed(h, Release(h, a), {a})
<1> DEFINE h1 == Flagged(h, a, TRUE)
<1> DEFINE h2 == CoalesceNext(h1, a)
<1> DEFINE h3 == CoalescePrev(h2, a)
<1>1. /\ Tiling(h1) /\ DOMAIN h1 = DOMAIN h /\ h1[a].free
      /\ \A x \in DOMAIN h :
           /\ h1[x].size = h[x].size /\ h1[x].next = h[x].next
           /\ x # a => h1[x].free = h[x].free
  <2>1. PICK f \in BOOLEAN : f = TRUE /\ h1 = Flagged(h, a, f)
    OBVIOUS
  <2> HIDE DEF h1
  <2>2. /\ Tiling(h1) /\ DOMAIN h1 = DOMAIN h /\ h1[a].free = f
        /\ \A x \in DOMAIN h :
             /\ h1[x].size = h[x].size /\ h1[x].next = h[x].next /\ h1[x].prev = h[x].prev
             /\ x # a => h1[x].free = h[x].free
    <3>1. h1 = Flagged(h, a, f)
      BY <2>1
    <3>2. QED
      BY ONLY <3>1, Tiling(h), a \in DOMAIN h, f \in BOOLEAN, FlagTiles
  <2>3. QED
    BY ONLY <2>1, <2>2
<1> HIDE DEF h1
<1>2. MergedBut(h1, a)
  <2>1. ASSUME NEW x \in DOMAIN h, h1[x].free, h1[x].next # NULL, h1[h1[x].next].free
        PROVE  x = a \/ h1[x].next = a
    <3>1. h[x].next # NULL /\ h[x].next \in DOMAIN h
      BY <1>1, <2>1 DEF Tiling
    <3>2. QED
      BY <1>1, <2>1, <3>1 DEF MergedBut
  <2>2. QED
    BY <1>1, <2>1 DEF MergedBut
<1>3. KeepsUsed(h, h1, {a})
  BY <1>1 DEF KeepsUsed, Used
<1>4. /\ Tiling(h2) /\ KeepsUsed(h1, h2, {}) /\ a \in DOMAIN h2 /\ h2[a].free
      /\ \A x \in DOMAIN h2 :
           h2[x].free /\ h2[x].next # NULL /\ h2[h2[x].next].free => h2[x].next = a
  BY <1>1, <1>2, NextMerged
<1> HIDE DEF h2
<1>5. Tiling(h3) /\ KeepsUsed(h2, h3, {}) /\ Merged(h3)
  BY <1>4, PrevMerged
<1>6. Release(h, a) = h3
  BY DEF Release, Flagged, h1, h2
<1> HIDE DEF h3
<1>7. KeepsUsed(h, h3, {a})
  BY <1>3, <1>4, <1>5 DEF KeepsUsed
<1>8. QED
  BY <1>5, <1>6, <1>7

-----------------------------------------------------------------------------
(* The mask of kmalloc_aligned (heap.c:62) rounds up by less than the       *)
(* alignment.                                                               *)
LEMMA RoundUpBounds ==
  ASSUME NEW x \in Nat, NEW al \in Nat \ {0}
  PROVE  RoundUp(x, al) \in Nat /\ x <= RoundUp(x, al) /\ RoundUp(x, al) <= x + al - 1
<1> DEFINE y == x + al - 1
<1> DEFINE q == y \div al
<1>1. y \in Nat
  OBVIOUS
<1> HIDE DEF y
<1>2. q \in Int /\ q * al <= y /\ y < (q + 1) * al
  BY <1>1
<1> HIDE DEF q
<1>3. (q + 1) * al = q * al + al /\ q * al \in Int
  BY <1>2
<1>4. RoundUp(x, al) = q * al
  BY DEF RoundUp, q, y
<1>5. QED
  BY <1>2, <1>3, <1>4 DEF y

(* A set of addresses has a least one.                                      *)
LEMMA Least ==
  ASSUME NEW T, T \subseteq Nat, T # {}
  PROVE  \E x \in T : \A y \in T : x <= y
<1>1. PICK x \in T : \A y \in T : ~(<<y, x>> \in OpToRel(<, Nat))
  BY NatLessThanWellFounded, WFMin
<1>2. ASSUME NEW y \in T PROVE x <= y
  <2>1. x \in Nat /\ y \in Nat
    OBVIOUS
  <2>2. <<y, x>> \in Nat \X Nat /\ <<y, x>>[1] = y /\ <<y, x>>[2] = x
    BY <2>1
  <2>3. ~(<<y, x>> \in {ss \in Nat \X Nat : ss[1] < ss[2]})
    BY <1>1 DEF OpToRel
  <2>4. ~(y < x)
    BY ONLY <2>2, <2>3
  <2>5. QED
    BY <2>1, <2>4
<1>3. QED
  BY <1>2

(* The walk of kmalloc finds a block when one fits (heap.c:18-19).          *)
LEMMA FirstFitFits ==
  ASSUME NEW h, Tiling(h), NEW n, Fits(h, n) # {}
  PROVE  FirstFit(h, n) \in Fits(h, n)
<1>1. Fits(h, n) \subseteq Nat
  BY Numbers DEF Fits, Tiling
<1>2. \E x \in Fits(h, n) : \A y \in Fits(h, n) : x <= y
  BY <1>1, Least
<1>3. QED
  BY <1>2 DEF FirstFit

(* kmalloc takes a free block, whole or split: every block in use stays one *)
(* of its size, and the rest of a split has no free neighbour, because the  *)
(* block had none (heap.c:20-36).                                           *)
LEMMA TakeTiles ==
  ASSUME NEW h, Tiling(h), Merged(h), NEW a \in DOMAIN h, h[a].free,
         NEW n \in Nat, h[a].size >= n, NEW g, g = Take(h, a, n)
  PROVE  /\ Tiling(g) /\ Merged(g) /\ a \in DOMAIN g /\ ~g[a].free /\ g[a].size >= n
         /\ Used(g) = Used(h) \cup {a} /\ \A x \in Used(h) : g[x].size = h[x].size
<1> DEFINE b == a + HDR + n
<1>1. /\ a \in Nat /\ h[a].size \in Nat /\ EndOf(h, a) = a + HDR + h[a].size
      /\ HDR \in Nat /\ MinSplit \in Nat
  BY TilingFacts, Numbers DEF EndOf
<1>2. CASE CanSplit(h[a].size, n)
  <2> DEFINE rest == [size |-> h[a].size - n - HDR, next |-> h[a].next, prev |-> a, free |-> TRUE]
  <2>1. b \in Nat /\ a + HDR <= b /\ b + HDR <= EndOf(h, a) /\ b - a - HDR = n
    BY <1>1, <1>2 DEF CanSplit
  <2>2. h[a].size - n - HDR = EndOf(h, a) - b - HDR
    BY <1>1
  <2>3. g = [InsertAfter(h, a, b, rest) EXCEPT ![a].size = n, ![a].free = FALSE]
    BY <1>2 DEF Take
  <2> HIDE DEF b
  <2>4. PICK f1 \in BOOLEAN, f2 \in BOOLEAN : f1 = FALSE /\ f2 = TRUE
    OBVIOUS
  <2>5. Divided(h, g, a, b) /\ g[a].free = f1 /\ g[b].free = f2
    <3>1. rest = NewHeader(h, a, b, f2)
      BY <2>2, <2>4 DEF NewHeader
    <3>2. g = Divide(h, a, b, rest, b - a - HDR, f1)
      BY <2>1, <2>3, <2>4 DEF Divide
    <3> HIDE DEF rest
    <3>3. QED
      BY ONLY <2>1, <3>1, <3>2, Tiling(h), a \in DOMAIN h, f1 \in BOOLEAN, f2 \in BOOLEAN, InsertDivides
  <2>6. b \notin DOMAIN h /\ b # a
    BY <2>1, InsideBlock
  <2>7. Tiling(g)
    BY <2>1, <2>5, DividedTiles
  <2>8. /\ DOMAIN g = DOMAIN h \cup {b} /\ ~g[a].free /\ g[b].free /\ g[a].size = n /\ g[b].next = h[a].next
        /\ \A x \in DOMAIN h \ {a} :
             g[x].size = h[x].size /\ g[x].free = h[x].free /\ g[x].next = h[x].next
    BY <2>1, <2>4, <2>5 DEF Divided
  <2>9. ASSUME NEW x \in DOMAIN g, g[x].free, g[x].next # NULL, g[g[x].next].free
        PROVE  FALSE
    <3>1. x # a
      BY <2>8, <2>9
    <3>2. CASE x = b
      <4>1. h[a].next \in DOMAIN h /\ h[a].next # a
        BY <2>8, <2>9, <3>2, TilingFacts
      <4>2. ~h[h[a].next].free
        BY <2>8, <2>9, <3>2 DEF Merged
      <4>3. QED
        BY <2>8, <2>9, <3>2, <4>1, <4>2
    <3>3. CASE x # b
      <4>1. x \in DOMAIN h \ {a} /\ h[x].free /\ g[x].next = h[x].next
        BY <2>8, <2>9, <3>1, <3>3
      <4>2. h[x].next \in DOMAIN h /\ ~h[h[x].next].free
        BY <2>9, <4>1, TilingFacts DEF Merged
      <4>3. QED
        BY <2>8, <2>9, <4>1, <4>2
    <3>4. QED
      BY <3>2, <3>3
  <2>10. QED
    BY <1>1, <2>6, <2>7, <2>8, <2>9 DEF Merged, Used
<1>3. CASE ~CanSplit(h[a].size, n)
  <2>1. PICK f \in BOOLEAN : f = FALSE
    OBVIOUS
  <2>2. g = Flagged(h, a, f)
    BY <1>3, <2>1 DEF Take, Flagged
  <2>3. /\ DOMAIN g = DOMAIN h /\ g[a].free = f /\ Tiling(g)
        /\ \A x \in DOMAIN h :
             /\ g[x].size = h[x].size /\ g[x].next = h[x].next
             /\ x # a => g[x].free = h[x].free
    BY ONLY <2>2, Tiling(h), a \in DOMAIN h, f \in BOOLEAN, FlagTiles
  <2>4. ASSUME NEW x \in DOMAIN g, g[x].free, g[x].next # NULL, g[g[x].next].free
        PROVE  FALSE
    <3>1. h[x].next \in DOMAIN h /\ g[x].next = h[x].next
      BY <2>3, <2>4, TilingFacts
    <3>2. QED
      BY <2>1, <2>3, <2>4, <3>1 DEF Merged
  <2>5. QED
    BY <2>1, <2>3, <2>4 DEF Merged, Used
<1>4. QED
  BY <1>2, <1>3

(* kmalloc_aligned carves its block out of the one it took and frees what   *)
(* is before it; the aligned address leaves room for both headers and for   *)
(* the request (heap.c:55-88).                                              *)
LEMMA CarveTiles ==
  ASSUME NEW h, Tiling(h), Merged(h), NEW a \in DOMAIN h, ~h[a].free,
         NEW n \in Nat, NEW al \in Nat \ {0}, h[a].size >= n + al + HDR,
         NEW b, b = AlignedAddr(a, al) - HDR, NEW g, g = Carve(h, a, al)
  PROVE  /\ Tiling(g) /\ Merged(g) /\ b \in Nat /\ b + HDR <= End
         /\ b \notin DOMAIN h /\ b \in DOMAIN g /\ g[b].size >= n
         /\ Used(g) = (Used(h) \ {a}) \cup {b}
         /\ \A x \in Used(h) \ {a} : g[x].size = h[x].size
<1> DEFINE data == [size |-> h[a].size - (b - a), next |-> h[a].next, prev |-> a, free |-> FALSE]
<1> DEFINE padded == [InsertAfter(h, a, b, data) EXCEPT ![a].size = b - a - HDR, ![a].free = TRUE]
<1>1. /\ a \in Nat /\ h[a].size \in Nat /\ EndOf(h, a) = a + HDR + h[a].size
      /\ HDR \in Nat \ {0} /\ EndOf(h, a) <= End /\ End \in Nat
  BY TilingFacts, Numbers DEF EndOf, Tiling
<1>2. /\ AlignedAddr(a, al) \in Nat /\ a + HDR + HDR <= AlignedAddr(a, al)
      /\ AlignedAddr(a, al) <= a + HDR + HDR + al - 1
  <2>1. a + HDR + HDR \in Nat
    BY <1>1
  <2>2. QED
    BY <2>1, RoundUpBounds DEF AlignedAddr
<1>3. b \in Nat /\ a + HDR <= b /\ b + HDR <= EndOf(h, a) /\ EndOf(h, a) - b - HDR >= n
  BY ONLY <1>1, <1>2, b = AlignedAddr(a, al) - HDR, n \in Nat, al \in Nat \ {0}, h[a].size >= n + al + HDR
<1>4. PICK f1 \in BOOLEAN, f2 \in BOOLEAN : f1 = TRUE /\ f2 = FALSE
  OBVIOUS
<1>5. h[a].size - (b - a) = EndOf(h, a) - b - HDR
  BY <1>1, <1>3
<1>6. g = Release(padded, a)
  BY DEF Carve
<1>7. Divided(h, padded, a, b) /\ padded[a].free = f1 /\ padded[b].free = f2
  <2>1. data = NewHeader(h, a, b, f2)
    BY <1>4, <1>5 DEF NewHeader
  <2>2. padded = Divide(h, a, b, data, b - a - HDR, f1)
    BY <1>4 DEF Divide
  <2> HIDE DEF data, padded
  <2>3. QED
    BY ONLY <1>3, <2>1, <2>2, Tiling(h), a \in DOMAIN h, f1 \in BOOLEAN, f2 \in BOOLEAN, InsertDivides
<1> HIDE DEF padded, data
<1>8. b \notin DOMAIN h /\ b # a
  BY <1>3, InsideBlock
<1>9. Tiling(padded)
  BY <1>3, <1>7, DividedTiles
<1>10. /\ DOMAIN padded = DOMAIN h \cup {b} /\ padded[a].free /\ ~padded[b].free
       /\ padded[b].size = EndOf(h, a) - b - HDR
       /\ \A x \in DOMAIN h \ {a} :
            padded[x].size = h[x].size /\ padded[x].free = h[x].free /\ padded[x].next = h[x].next
  BY <1>4, <1>7 DEF Divided
<1>11. MergedBut(padded, a)
  <2>1. ASSUME NEW x \in DOMAIN padded, padded[x].free, padded[x].next # NULL,
               padded[padded[x].next].free, x # a, padded[x].next # a
        PROVE  FALSE
    <3>1. x \in DOMAIN h \ {a} /\ h[x].free /\ padded[x].next = h[x].next
      BY <1>10, <2>1
    <3>2. h[x].next \in DOMAIN h \ {a} /\ ~h[h[x].next].free
      BY <2>1, <3>1, TilingFacts DEF Merged
    <3>3. QED
      BY <1>10, <2>1, <3>1, <3>2
  <2>2. QED
    BY <2>1 DEF MergedBut
<1>12. Tiling(g) /\ Merged(g) /\ KeepsUsed(padded, g, {a})
  BY <1>6, <1>9, <1>10, <1>11, ReleaseMerges
<1>13. /\ Used(g) = (Used(h) \ {a}) \cup {b}
       /\ \A x \in Used(g) : g[x].size = padded[x].size
  BY <1>8, <1>10, <1>12 DEF KeepsUsed, Used
<1>14. b \in Used(g) /\ b \in DOMAIN g
  BY <1>13 DEF Used
<1>15. \A x \in Used(h) \ {a} : g[x].size = h[x].size
  BY <1>10, <1>13 DEF Used
<1>16. g[b].size >= n
  BY <1>3, <1>10, <1>13, <1>14
<1>17. b + HDR <= End
  BY <1>1, <1>3
<1>18. QED
  BY <1>3, <1>8, <1>12, <1>13, <1>14, <1>15, <1>16, <1>17

-----------------------------------------------------------------------------
(* The inductive invariant: the tiling, no free neighbours, and callers'    *)
(* pointers on exactly the blocks in use.                                   *)
HeapInv ==
  /\ Tiling(hdr) /\ Merged(hdr) /\ HeldBlocks
  /\ \A b \in live : b[1] \in Addr \cup {End} /\ b[2] \in Requests

(* Heap_Init makes one free block of the whole heap (heap.c:6-12).          *)
LEMMA HeapInitInv == Heap_Init => HeapInv
<1> SUFFICES ASSUME Heap_Init PROVE HeapInv
  OBVIOUS
<1> DEFINE r == [size |-> Size - HDR, next |-> NULL, prev |-> NULL, free |-> TRUE]
<1>1. hdr = [a \in {Start} |-> r] /\ live = {}
  BY DEF Heap_Init
<1>2. r.size = Size - HDR /\ r.next = NULL /\ r.prev = NULL /\ r.free = TRUE
  OBVIOUS
<1>3. r \in Header
  BY HeapAssumption DEF Header
<1> HIDE DEF r
<1>4. /\ DOMAIN hdr = {Start} /\ hdr[Start] = r /\ hdr \in [DOMAIN hdr -> Header]
  BY <1>1, <1>3
<1>5. EndOf(hdr, Start) = End /\ Start \in Addr
  BY <1>2, <1>4, HeapAssumption DEF EndOf, End, Addr
<1>6. Tiling(hdr)
  BY <1>2, <1>4, <1>5, Numbers DEF Tiling
<1>7. Merged(hdr)
  BY <1>2, <1>4 DEF Merged
<1>8. HeldBlocks
  BY <1>1, <1>2, <1>4 DEF HeldBlocks
<1>9. QED
  BY <1>1, <1>6, <1>7, <1>8 DEF HeapInv

(* The block that a first fit finds. *)
LEMMA FitFacts ==
  ASSUME HeapInv, NEW n \in Nat, Fits(hdr, n) # {}, NEW a, a = FirstFit(hdr, n)
  PROVE  a \in DOMAIN hdr /\ a \in Nat /\ hdr[a].free /\ hdr[a].size >= n /\ a \notin Used(hdr)
<1>1. a \in Fits(hdr, n)
  BY FirstFitFits DEF HeapInv
<1>2. QED
  BY <1>1, TilingFacts DEF Fits, HeapInv, Used

(* A block of its own for one more caller. *)
LEMMA OneMoreHeld ==
  ASSUME HeapInv, Tiling(hdr'), Merged(hdr'), NEW a \in Nat, a \notin Used(hdr), NEW n \in Requests,
         Used(hdr') = Used(hdr) \cup {a}, \A x \in Used(hdr) : hdr'[x].size = hdr[x].size,
         hdr'[a].size >= n, live' = live \cup {<<a + HDR, n>>}
  PROVE  HeapInv'
<1>1. HDR \in Nat /\ End \in Nat /\ Addr \subseteq Nat
  BY Numbers
<1>2. \A b \in live : b[1] \in Addr \cup {End} /\ b[2] \in Requests /\ b[1] \in Nat
  BY <1>1 DEF HeapInv
<1>3. Used(hdr) = {b[1] - HDR : b \in live} /\ \A b \in live : hdr[b[1] - HDR].size >= b[2]
  BY DEF HeapInv, HeldBlocks, Used
<1>4. \A b, c \in live : b[1] = c[1] => b = c
  BY DEF HeapInv, HeldBlocks
<1>5. a + HDR - HDR = a
  BY <1>1
<1>6. ASSUME NEW b \in live PROVE b[1] # a + HDR
  <2>1. b[1] - HDR \in {c[1] - HDR : c \in live}
    OBVIOUS
  <2>2. b[1] - HDR # a
    BY ONLY <1>3, <2>1, a \notin Used(hdr)
  <2>3. QED
    BY ONLY <1>1, <1>2, <2>2, a \in Nat, b \in live
<1>7. a \in DOMAIN hdr' /\ a + HDR \in Addr \cup {End}
  <2>1. a \in DOMAIN hdr'
    BY DEF Used
  <2>2. EndOf(hdr', a) <= End /\ a \in Addr /\ hdr'[a].size \in Nat
    BY <2>1, TilingFacts DEF Tiling
  <2>3. a >= Start /\ a + HDR <= End
    BY <1>1, <2>2, Numbers DEF EndOf, Addr
  <2>4. QED
    BY <1>1, <2>1, <2>3, Numbers DEF Addr
<1>8. {b[1] - HDR : b \in live'} = Used(hdr) \cup {a}
  <2>1. \A b : b \in live' <=> b \in live \/ b = <<a + HDR, n>>
    OBVIOUS
  <2>2. <<a + HDR, n>>[1] = a + HDR /\ <<a + HDR, n>>[1] - HDR = a
    BY ONLY <1>1, <1>5, a \in Nat
  <2>3. {b[1] - HDR : b \in live'} = {b[1] - HDR : b \in live} \cup {a}
    BY ONLY <2>1, <2>2
  <2>4. QED
    BY ONLY <1>3, <2>3
<1>9. \A b \in live' : hdr'[b[1] - HDR].size >= b[2]
  <2>1. ASSUME NEW b \in live PROVE hdr'[b[1] - HDR].size >= b[2]
    <3>1. b[1] - HDR \in {c[1] - HDR : c \in live}
      OBVIOUS
    <3>2. hdr'[b[1] - HDR].size = hdr[b[1] - HDR].size
      BY <1>3, <3>1
    <3>3. hdr[b[1] - HDR].size >= b[2]
      BY <1>3
    <3>4. QED
      BY ONLY <3>2, <3>3
  <2>2. <<a + HDR, n>>[1] - HDR = a /\ <<a + HDR, n>>[2] = n
    BY ONLY <1>1, <1>5, a \in Nat
  <2>3. hdr'[<<a + HDR, n>>[1] - HDR].size >= <<a + HDR, n>>[2]
    BY <2>2
  <2>4. QED
    BY <2>1, <2>3
<1>10. \A b, c \in live' : b[1] = c[1] => b = c
  BY <1>4, <1>6
<1>11. HeldBlocks'
  BY <1>8, <1>9, <1>10 DEF HeldBlocks, Used
<1>12. \A b \in live' : b[1] \in Addr \cup {End} /\ b[2] \in Requests
  BY <1>2, <1>7
<1>13. QED
  BY <1>11, <1>12 DEF HeapInv

(* kmalloc hands out a block that nobody holds (heap.c:14-43).              *)
LEMMA KmallocStep ==
  ASSUME HeapInv, NEW n \in Requests, kmalloc(n)
  PROVE  HeapInv'
<1> DEFINE a == FirstFit(hdr, n)
<1>1. n \in Nat
  BY HeapAssumption
<1>2. a \in DOMAIN hdr /\ a \in Nat /\ hdr[a].free /\ hdr[a].size >= n /\ a \notin Used(hdr)
  BY <1>1, FitFacts DEF kmalloc
<1>3. hdr' = Take(hdr, a, n) /\ live' = live \cup {<<a + HDR, n>>}
  BY DEF kmalloc
<1> HIDE DEF a
<1>4. /\ Tiling(hdr') /\ Merged(hdr') /\ hdr'[a].size >= n
      /\ Used(hdr') = Used(hdr) \cup {a} /\ \A x \in Used(hdr) : hdr'[x].size = hdr[x].size
  BY <1>1, <1>2, <1>3, TakeTiles DEF HeapInv
<1>5. QED
  BY <1>2, <1>3, <1>4, OneMoreHeld

(* So does kmalloc_aligned, behind a padding it frees (heap.c:45-89).       *)
LEMMA AlignedStep ==
  ASSUME HeapInv, NEW n \in Requests, NEW al \in Alignments, kmalloc_aligned(n, al)
  PROVE  HeapInv'
<1> DEFINE total == n + al + HDR
<1> DEFINE a == FirstFit(hdr, total)
<1> DEFINE p == AlignedAddr(a, al)
<1> DEFINE h == Take(hdr, a, total)
<1>1. n \in Nat /\ al \in Nat \ {0} /\ HDR \in Nat /\ total \in Nat /\ total >= n
  BY HeapAssumption
<1>2. CASE al <= SmallAlign /\ kmalloc(n)
  BY <1>2, KmallocStep
<1>3. CASE ~(al <= SmallAlign /\ kmalloc(n))
  <2>1. /\ Fits(hdr, total) # {}
        /\ hdr' = Carve(h, a, al) /\ live' = live \cup {<<p, n>>}
    BY <1>3 DEF kmalloc_aligned
  <2> HIDE DEF total
  <2>2. a \in DOMAIN hdr /\ a \in Nat /\ hdr[a].free /\ hdr[a].size >= total /\ a \notin Used(hdr)
    BY <1>1, <2>1, FitFacts
  <2>3. h = Take(hdr, a, total) /\ p = AlignedAddr(a, al)
    OBVIOUS
  <2> HIDE DEF a, h, p
  <2>4. /\ Tiling(h) /\ Merged(h) /\ a \in DOMAIN h /\ ~h[a].free /\ h[a].size >= total
        /\ Used(h) = Used(hdr) \cup {a} /\ \A x \in Used(hdr) : h[x].size = hdr[x].size
    BY <1>1, <2>2, <2>3, TakeTiles DEF HeapInv
  <2>5. PICK b : b = p - HDR
    OBVIOUS
  <2>6. b = AlignedAddr(a, al) - HDR /\ h[a].size >= n + al + HDR
    BY <2>3, <2>4, <2>5 DEF total
  <2>7. /\ Tiling(hdr') /\ Merged(hdr') /\ b \in Nat
        /\ b \notin DOMAIN h /\ hdr'[b].size >= n
        /\ Used(hdr') = (Used(h) \ {a}) \cup {b}
        /\ \A x \in Used(h) \ {a} : hdr'[x].size = h[x].size
    BY <1>1, <2>1, <2>4, <2>6, CarveTiles
  <2>8. b \notin Used(hdr)
    BY <2>4, <2>7 DEF Used
  <2>9. Used(hdr') = Used(hdr) \cup {b} /\ \A x \in Used(hdr) : hdr'[x].size = hdr[x].size
    BY <2>2, <2>4, <2>7
  <2>10. b + HDR = p
    <3>1. p \in Int
      <4>1. a + HDR + HDR \in Nat
        BY <1>1, <2>2
      <4>2. QED
        BY <1>1, <2>3, <4>1, RoundUpBounds DEF AlignedAddr
    <3>2. QED
      BY <1>1, <2>5, <3>1
  <2>11. QED
    BY <2>1, <2>7, <2>8, <2>9, <2>10, OneMoreHeld
<1>4. QED
  BY <1>2, <1>3

(* kfree of a pointer its caller holds (heap.c:91-113).                     *)
LEMMA KfreeStep ==
  ASSUME HeapInv, NEW b \in live, kfree(b)
  PROVE  HeapInv'
<1> DEFINE a == b[1] - HDR
<1>1. hdr' = Release(hdr, a) /\ live' = live \ {b}
  BY DEF kfree
<1>2. Used(hdr) = {c[1] - HDR : c \in live} /\ \A c \in live : hdr[c[1] - HDR].size >= c[2]
  BY DEF HeapInv, HeldBlocks, Used
<1>3. a \in DOMAIN hdr /\ a \in Used(hdr)
  BY <1>2 DEF Used
<1>4. /\ \A c, d \in live : c[1] = d[1] => c = d
      /\ \A c \in live : c[1] \in Addr \cup {End} /\ c[2] \in Requests
  BY DEF HeapInv, HeldBlocks
<1>5. MergedBut(hdr, a) /\ Tiling(hdr)
  BY DEF HeapInv, Merged, MergedBut
<1> HIDE DEF a
<1>6. Tiling(hdr') /\ Merged(hdr') /\ KeepsUsed(hdr, hdr', {a})
  <2>1. /\ Tiling(Release(hdr, a)) /\ Merged(Release(hdr, a))
        /\ KeepsUsed(hdr, Release(hdr, a), {a})
    BY ONLY <1>3, <1>5, ReleaseMerges
  <2>2. QED
    BY ONLY <1>1, <2>1
<1>7. \A c \in live : c[1] \in Int
  <2>1. Addr \subseteq Int /\ End \in Int
    BY Numbers
  <2>2. QED
    BY ONLY <1>4, <2>1
<1>8. \A c \in live' : c \in live /\ c[1] - HDR # a
  BY <1>1, <1>4, <1>7, Numbers DEF a
<1>9. Used(hdr') = {c[1] - HDR : c \in live'}
  BY <1>1, <1>2, <1>6, <1>8 DEF KeepsUsed, a
<1>10. \A c \in live' : hdr'[c[1] - HDR].size >= c[2]
  BY <1>2, <1>6, <1>8, <1>9 DEF KeepsUsed
<1>11. HeldBlocks'
  BY <1>4, <1>8, <1>9, <1>10 DEF HeldBlocks, Used
<1>12. QED
  BY <1>4, <1>6, <1>8, <1>11 DEF HeapInv

(* The system call takes a block and frees it (syscall.c:221-230).          *)
LEMMA SyscallStep ==
  ASSUME HeapInv, NEW n \in Requests, SyscallKmalloc(n)
  PROVE  HeapInv'
<1> DEFINE a == FirstFit(hdr, n)
<1> DEFINE h == Take(hdr, a, n)
<1>1. n \in Nat
  BY HeapAssumption
<1>2. a \in DOMAIN hdr /\ hdr[a].free /\ hdr[a].size >= n /\ a \notin Used(hdr)
  BY <1>1, FitFacts DEF SyscallKmalloc
<1>3. hdr' = Release(h, a) /\ live' = live /\ h = Take(hdr, a, n)
  BY DEF SyscallKmalloc
<1> HIDE DEF a, h
<1>4. /\ Tiling(h) /\ Merged(h) /\ a \in DOMAIN h
      /\ Used(h) = Used(hdr) \cup {a} /\ \A x \in Used(hdr) : h[x].size = hdr[x].size
  BY <1>1, <1>2, <1>3, TakeTiles DEF HeapInv
<1>5. MergedBut(h, a)
  BY <1>4 DEF Merged, MergedBut
<1>6. Tiling(hdr') /\ Merged(hdr') /\ KeepsUsed(h, hdr', {a})
  BY <1>3, <1>4, <1>5, ReleaseMerges
<1>7. Used(hdr') = Used(hdr) /\ \A x \in Used(hdr) : hdr'[x].size = hdr[x].size
  BY <1>2, <1>4, <1>6 DEF KeepsUsed
<1>8. HeldBlocks'
  <2>1. Used(hdr) = {c[1] - HDR : c \in live} /\ \A c \in live : hdr[c[1] - HDR].size >= c[2]
    BY DEF HeapInv, HeldBlocks, Used
  <2>2. \A c, d \in live : c[1] = d[1] => c = d
    BY DEF HeapInv, HeldBlocks
  <2>3. \A c \in live : hdr'[c[1] - HDR].size >= c[2]
    BY <1>7, <2>1
  <2>4. QED
    BY <1>3, <1>7, <2>1, <2>2, <2>3 DEF HeldBlocks, Used
<1>9. QED
  BY <1>3, <1>6, <1>8 DEF HeapInv

(* Every operation keeps the invariant.                                     *)
LEMMA HeapStepInv == HeapInv /\ [Next]_vars => HeapInv'
<1> SUFFICES ASSUME HeapInv, [Next]_vars PROVE HeapInv'
  OBVIOUS
<1>1. CASE \E n \in Requests : kmalloc(n)
  BY <1>1, KmallocStep
<1>2. CASE \E n \in Requests, al \in Alignments : kmalloc_aligned(n, al)
  BY <1>2, AlignedStep
<1>3. CASE \E b \in live : kfree(b)
  BY <1>3, KfreeStep
<1>4. CASE \E n \in Requests : SyscallKmalloc(n)
  BY <1>4, SyscallStep
<1>5. CASE UNCHANGED vars
  BY <1>5 DEF vars, HeapInv, Tiling, Merged, HeldBlocks, EndOf
<1>6. QED
  BY <1>1, <1>2, <1>3, <1>4, <1>5 DEF Next

(* So it holds throughout.                                                  *)
LEMMA Invariance == Spec => []HeapInv
  BY HeapInitInv, HeapStepInv, PTL DEF Spec

-----------------------------------------------------------------------------
(* Every header and every pointer a caller holds lies in the heap.          *)
THEOREM TypeCorrect == Spec => []TypeOK
<1>1. HeapInv => TypeOK
  BY DEF HeapInv, TypeOK, Tiling
<1>2. QED
  BY <1>1, Invariance, PTL

(* No unit of the heap is lost or counted twice, and the links agree with   *)
(* the tiling in both directions, after any splits, carvings and merges     *)
(* (heap.c:21-33, 68-85, 98-112).                                           *)
THEOREM HeapTiled == Spec => []ListTilesHeap
<1>1. HeapInv => ListTilesHeap
  <2> SUFFICES ASSUME HeapInv PROVE ListTilesHeap
    OBVIOUS
  <2>1. Start \in DOMAIN hdr /\ hdr[Start].prev = NULL
    BY DEF HeapInv, Tiling
  <2>2. ASSUME NEW a \in DOMAIN hdr
        PROVE  LET end == a + HDR + hdr[a].size
               IN  IF end = End THEN hdr[a].next = NULL
                   ELSE hdr[a].next = end /\ end \in DOMAIN hdr /\ hdr[end].prev = a
    <3>1. hdr[a].next = IF EndOf(hdr, a) = End THEN NULL ELSE EndOf(hdr, a)
      BY DEF HeapInv, Tiling
    <3>2. hdr[a].next # NULL => hdr[a].next \in DOMAIN hdr /\ hdr[hdr[a].next].prev = a
      BY DEF HeapInv, Tiling
    <3>3. EndOf(hdr, a) # NULL
      BY TilingFacts, Numbers DEF HeapInv
    <3>4. QED
      BY <3>1, <3>2, <3>3 DEF EndOf
  <2>3. QED
    BY <2>1, <2>2 DEF ListTilesHeap
<1>2. QED
  BY <1>1, Invariance, PTL

(* Whatever the order of frees, no two neighbours stay free apart: the two  *)
(* merges of one kfree suffice (heap.c:98-112).                             *)
THEOREM NeighboursMerged == Spec => []NoAdjacentFree
<1>1. HeapInv => NoAdjacentFree
  BY DEF HeapInv, Merged, NoAdjacentFree
<1>2. QED
  BY <1>1, Invariance, PTL

(* A pointer stays good until its caller frees it: its block is in use, as  *)
(* large as was asked for, and nobody else's (heap.c:14-113).               *)
THEOREM HeldBlocksKept == Spec => []HeldBlocks
<1>1. HeapInv => HeldBlocks
  BY DEF HeapInv
<1>2. QED
  BY <1>1, Invariance, PTL
=============================================================================
