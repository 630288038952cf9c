------------------------------ MODULE SlobHeap ------------------------------
(***************************************************************************)
(* kmalloc and kfree, hw15 kern/mm/kmalloc.c (the same file in hw13).      *)
(* Small blocks are cut from a circular list of free units, which grows by *)
(* pages and never gives one back; larger ones are whole pages with a      *)
(* descriptor from that list.  Memory is numbered by units: arena is unit  *)
(* 0, page p the units from p * PAGE_UNITS on.  All callers pass align 0.  *)
(***************************************************************************)
EXTENDS Integers, SequencesExt

CONSTANTS
  SLOB_UNIT, PAGE_SIZE,   \* in bytes
  BIGBLOCK,               \* sizeof(bigblock_t)
  npage,                  \* pages are numbered from 1
  Size                    \* the sizes that are asked for

SLOB_UNITS(size) == (size + SLOB_UNIT - 1) \div SLOB_UNIT
PAGE_UNITS == PAGE_SIZE \div SLOB_UNIT

(* The shifts lose the bits of the size that they shift out.               *)
find_order[size \in Nat] == IF size > PAGE_SIZE THEN 1 + find_order[size \div 2] ELSE 0

(* A descriptor has room in a page, as slob_alloc asserts.  Nobody asks    *)
(* for nothing, for which the arena would be handed out, or for a size     *)
(* whose order is too small for it (8193 bytes in the kernel); that orders *)
(* are numbers is a fact of the loop above.                                *)
SlobHeapAssumption ==
  /\ {SLOB_UNIT, PAGE_SIZE, BIGBLOCK, npage} \subseteq Nat \ {0}
  /\ BIGBLOCK > SLOB_UNIT /\ BIGBLOCK + SLOB_UNIT < PAGE_SIZE
  /\ PAGE_UNITS > 2 /\ PAGE_SIZE = PAGE_UNITS * SLOB_UNIT
  /\ Size \subseteq Nat \ {0}
  /\ \A size \in Size : find_order[size] \in Nat /\ size <= PAGE_SIZE * 2 ^ find_order[size]

Page == 1 .. npage
Unit == 0 .. (npage + 1) * PAGE_UNITS - 1
arena == 0
RunOf(a, n) == a .. a + n - 1
UnitsOf(P) == {u \in Unit : u \div PAGE_UNITS \in P}

VARIABLES
  heap,          \* [list, units]: the free blocks from slobfree on, and the
                 \* field units of each unit that begins a block
  pages,         \* the pages that alloc_pages can give
  bigblocks,     \* the descriptors [at, order, pages]
  held,          \* history: what callers have, [block, size, units]
  panicked

vars == <<heap, pages, bigblocks, held, panicked>>

Init ==
  /\ heap = [list |-> <<arena>>, units |-> [u \in Unit |-> IF u = arena THEN 1 ELSE 0]]
  /\ pages = Page
  /\ bigblocks = {}
  /\ held = {}
  /\ panicked = FALSE

Rotate(l, i) == SubSeq(l, i, Len(l)) \o SubSeq(l, 1, i - 1)

-----------------------------------------------------------------------------
(* A freed block b belongs between cur and next.                           *)
Before(cur, b, next) == (b > cur /\ b < next) \/ (cur >= next /\ (b > cur \/ b < next))

(* Where slob_free finds such a cur, from slobfree on.                     *)
PlaceOf(l, b) ==
  SelectInSeq([i \in DOMAIN l |-> <<l[i], l[(i % Len(l)) + 1]>>], LAMBDA e : Before(e[1], b, e[2]))

(* slob_free of n units at b.                                              *)
SlobFree(h, b, n) ==
  LET l == Rotate(h.list, PlaceOf(h.list, b))
      cur == l[1]
      up == Len(l) > 1 /\ b + n = l[2]
      size == IF up THEN n + h.units[l[2]] ELSE n
      tail == SubSeq(l, IF up THEN 3 ELSE 2, Len(l))
      apart == [u \in Unit |-> IF u = b THEN size ELSE IF up /\ u = l[2] THEN 0 ELSE h.units[u]]
  IN  IF cur + h.units[cur] = b
      THEN [list |-> <<cur>> \o tail, units |-> [apart EXCEPT ![cur] = @ + size, ![b] = 0]]
      ELSE [list |-> <<cur, b>> \o tail, units |-> apart]

(* n units off the k-th block that slob_alloc looks at, and what is left.  *)
Carve(h, n, l, k) ==
  LET cur == l[k]
      left == h.units[cur] - n
  IN  [at |-> cur, list |-> IF left = 0 THEN << >> ELSE <<cur + n>>,
       units |-> [u \in Unit |-> IF u = cur THEN n ELSE IF u = cur + n /\ left > 0 THEN left
                                 ELSE h.units[u]]]

(* Where slob_alloc finds n units, from slobfree's successor on; or 0.     *)
Fit(h, n) == SelectInSeq(Rotate(h.list, 2), LAMBDA cur : h.units[cur] >= n)

Cut(h, n) ==
  LET l == Rotate(h.list, 2)
      k == Fit(h, n)
      c == Carve(h, n, l, k)
      after == Rotate(l, k)
  IN  [at |-> c.at,
       heap |-> [list |-> <<Last(after)>> \o c.list \o SubSeq(after, 2, Len(after) - 1),
                 units |-> c.units]]

Allocated(c, P) == [at |-> c.at, heap |-> c.heap, pages |-> P]

(* slob_alloc: its results, none when a page is needed and there is none.  *)
SlobAlloc(h, P, n) ==
  IF Fit(h, n) # 0 THEN {Allocated(Cut(h, n), P)}
  ELSE {Allocated(Cut(SlobFree(h, p * PAGE_UNITS, PAGE_UNITS), n), P \ {p}) : p \in P}

-----------------------------------------------------------------------------
Small(size) == size < PAGE_SIZE - SLOB_UNIT
Need(size) == SLOB_UNITS(size + SLOB_UNIT)
Hold(block, size, U) == held' = held \cup {[block |-> block, size |-> size, units |-> U]}

(* slob_alloc's assertion, which kmalloc lets the largest small sizes break. *)
KmallocPanics(size) ==
  /\ Small(size) /\ size + 2 * SLOB_UNIT >= PAGE_SIZE
  /\ panicked' = TRUE
  /\ UNCHANGED <<heap, pages, bigblocks, held>>

KmallocSmall(size) ==
  /\ Small(size) /\ size + 2 * SLOB_UNIT < PAGE_SIZE
  /\ \E a \in SlobAlloc(heap, pages, Need(size)) :
       /\ heap' = a.heap
       /\ pages' = a.pages
       /\ Hold(a.at + 1, size, RunOf(a.at, Need(size)))
  /\ UNCHANGED <<bigblocks, panicked>>

PageRuns(P, order) == {p \in P : RunOf(p, 2 ^ order) \subseteq P}

(* The descriptor's first field lies where the units of its block were.    *)
KmallocPages(size) ==
  LET order == find_order[size] IN
  /\ ~Small(size)
  /\ \E a \in SlobAlloc(heap, pages, SLOB_UNITS(BIGBLOCK)) : \E p \in PageRuns(a.pages, order) :
       /\ heap' = [a.heap EXCEPT !.units[a.at] = order]
       /\ pages' = a.pages \ RunOf(p, 2 ^ order)
       /\ bigblocks' = bigblocks \cup {[at |-> a.at, order |-> order, pages |-> p]}
       /\ Hold(p * PAGE_UNITS, size, RunOf(a.at, SLOB_UNITS(BIGBLOCK)) \cup UnitsOf(RunOf(p, 2 ^ order)))
  /\ UNCHANGED panicked

(* There are no pages for the block: the descriptor is freed, 0 returned.  *)
KmallocGivesUp(size) ==
  /\ ~Small(size)
  /\ \E a \in SlobAlloc(heap, pages, SLOB_UNITS(BIGBLOCK)) :
       /\ PageRuns(a.pages, find_order[size]) = {}
       /\ pages' = a.pages
       /\ heap' = SlobFree(a.heap, a.at, SLOB_UNITS(BIGBLOCK))
  /\ UNCHANGED <<bigblocks, held, panicked>>

(* A slip: the descriptor is freed with the length in its header, as if it *)
(* had one.                                                                *)
DescriptorUnits_Header(bb) == heap.units[bb.at]
DescriptorUnits(bb) == SLOB_UNITS(BIGBLOCK)

(* kfree: a block that begins a page may still be a small one.             *)
Kfree(b) ==
  /\ IF b.block % PAGE_UNITS = 0 /\ \E bb \in bigblocks : bb.pages * PAGE_UNITS = b.block
     THEN \E bb \in bigblocks :
            /\ bb.pages * PAGE_UNITS = b.block
            /\ bigblocks' = bigblocks \ {bb}
            /\ pages' = pages \cup RunOf(bb.pages, 2 ^ bb.order)
            /\ heap' = SlobFree(heap, bb.at, DescriptorUnits(bb))
     ELSE heap' = SlobFree(heap, b.block - 1, heap.units[b.block - 1]) /\ UNCHANGED <<pages, bigblocks>>
  /\ held' = held \ {b}
  /\ UNCHANGED panicked

Next ==
  /\ ~panicked
  /\ \/ \E size \in Size : KmallocPanics(size) \/ KmallocSmall(size) \/ KmallocPages(size)
                             \/ KmallocGivesUp(size)
     \/ \E b \in held : Kfree(b)

Spec == Init /\ [][Next]_vars

-----------------------------------------------------------------------------
ListUnits == UNION {RunOf(u, heap.units[u]) : u \in ToSet(heap.list)}
HeldUnits == UNION {b.units : b \in held}

TypeOK ==
  /\ heap.list \in Seq(Unit) /\ heap.units \in [Unit -> Nat]
  /\ pages \subseteq Page /\ panicked \in BOOLEAN
  /\ bigblocks \subseteq [at : Unit, order : Nat, pages : Page]

(* The free list is circular by address, its blocks are joined wherever    *)
(* they touch, and no unit is lost or on the list while somebody has it;   *)
(* arena stays on the list.                                                *)
HeapExact ==
  /\ TypeOK
  /\ LET n == Len(heap.list)
         low == SelectInSeq(heap.list, LAMBDA u : u = arena)
         l == Rotate(heap.list, low)
     IN  /\ low # 0
         /\ \A i \in 1 .. n - 1 : l[i] + heap.units[l[i]] < l[i + 1]
  /\ ListUnits \cap HeldUnits = {}
  /\ ListUnits \cup HeldUnits = {arena} \cup UnitsOf(Page \ pages)

(* The heap takes a page only when none of its blocks would do, and blocks *)
(* are handed out and taken back as a heap promises to.                    *)
Thrifty ==
  \A b \in held' \ held :
    Small(b.size) /\ pages' # pages => \A u \in ToSet(heap.list) : heap.units[u] < Need(b.size)

FreeUnits == ListUnits \cup UnitsOf(pages)
Abs == INSTANCE KernelHeap WITH free <- FreeUnits
KeepsPromise == Abs!Next \/ (FreeUnits' = FreeUnits /\ held' = held)
=============================================================================
