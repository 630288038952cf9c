----------------------------- MODULE FirstFit ------------------------------
(***************************************************************************)
(* The first-fit manager of physical pages, hw15 kern/mm/default_pmm.c     *)
(* (the same in hw13).  Every free page is in free_list, by address; the   *)
(* property of the first page of a free block is the length of the block,  *)
(* that of its other pages is 0.  Allocated pages keep whatever property   *)
(* they had.  A caller frees a block it was given, whole or in parts, as   *)
(* default_check does.                                                     *)
(***************************************************************************)
EXTENDS Integers, SequencesExt

CONSTANTS
  npage,         \* pages are numbered 0 .. npage - 1
  Usable,        \* the blocks <<base, length>> that page_init hands over, by address
  NoPage

FirstFitAssumption ==
  /\ npage \in Nat /\ NoPage \notin Nat
  /\ Usable \in Seq((0 .. npage - 1) \X (1 .. npage))
  /\ \A i \in DOMAIN Usable : Usable[i][1] + Usable[i][2] <= npage
  /\ \A i, j \in DOMAIN Usable : i < j => Usable[i][1] + Usable[i][2] < Usable[j][1]

Page == 0 .. npage - 1
RunOf(p, n) == p .. p + n - 1
(* The pages of the first k usable blocks.                                 *)
PagesOf(k) == UNION {RunOf(Usable[i][1], Usable[i][2]) : i \in 1 .. k}
Pages == PagesOf(Len(Usable))

VARIABLES
  handed,        \* how many blocks page_init has handed over
  free_list,     \* the free pages
  nr_free,
  property,      \* of each page
  reserved,      \* the pages with PG_reserved ...
  valid,         \* ... and those with PG_property
  lent,          \* the blocks <<first page, length>> that callers hold
  result         \* the answer to the last request

vars == <<handed, free_list, nr_free, property, reserved, valid, lent, result>>

(* free_pages reads the link of a page next to the end of the list as a    *)
(* page (the head of the list): no page is at that address.                *)
At(k) == IF k \in DOMAIN free_list THEN free_list[k] ELSE NoPage

TypeOK ==
  /\ handed \in 0 .. Len(Usable)
  /\ free_list \in Seq(Page)
  /\ nr_free \in 0 .. npage
  /\ property \in [Page -> 0 .. npage]
  /\ reserved \subseteq Page /\ valid \subseteq Page
  /\ lent \subseteq Page \X (1 .. npage)
  /\ result \in Page \cup {NoPage}

(* page_init has reserved every page.                                      *)
Init ==
  /\ handed = 0
  /\ free_list = << >>
  /\ nr_free = 0
  /\ property = [p \in Page |-> 0]
  /\ reserved = Page
  /\ valid = {}
  /\ lent = {}
  /\ result = NoPage

(* init_memmap of the next usable block, m pages from base.                *)
InitMemmap(base, m) ==
  /\ handed < Len(Usable) /\ <<base, m>> = Usable[handed + 1]
  /\ RunOf(base, m) \subseteq reserved
  /\ handed' = handed + 1
  /\ free_list' = free_list \o [i \in 1 .. m |-> base + i - 1]
  /\ property' = [p \in Page |-> IF p = base THEN m ELSE IF p \in RunOf(base, m) THEN 0 ELSE property[p]]
  /\ reserved' = reserved \ RunOf(base, m)
  /\ valid' = valid \cup RunOf(base, m)
  /\ nr_free' = nr_free + m
  /\ UNCHANGED <<lent, result>>

-----------------------------------------------------------------------------
(* A slip: a block of exactly n pages is passed over.                      *)
FirstOf_Longer(n) == SelectInSeq(free_list, LAMBDA p : property[p] > n)
(* The first page in the list whose block is long enough, or 0.            *)
FirstOf(n) == SelectInSeq(free_list, LAMBDA p : property[p] >= n)

(* The rest of the block that begins with p is a block of its own.         *)
Shrink(p, rest, n) ==
  IF property[p] > n THEN [property EXCEPT ![rest] = property[p] - n] ELSE property

AllocFails(n) ==
  /\ n > nr_free \/ FirstOf(n) = 0
  /\ result' = NoPage
  /\ UNCHANGED <<handed, free_list, nr_free, property, reserved, valid, lent>>

(* The pages whose flags change: n of the list.                            *)
Taken(k, n) == {free_list[i] : i \in RunOf(k, n)}

AllocPages(n) ==
  LET k == FirstOf(n)
      p == free_list[k]
  IN  /\ n <= nr_free /\ k # 0
      /\ free_list' = SubSeq(free_list, 1, k - 1) \o SubSeq(free_list, k + n, Len(free_list))
      /\ property' = Shrink(p, At(k + n), n)
      /\ reserved' = reserved \cup Taken(k, n)
      /\ valid' = valid \ Taken(k, n)
      /\ nr_free' = nr_free - n
      /\ result' = p
      /\ lent' = lent \cup {<<p, n>>}
      /\ UNCHANGED handed

-----------------------------------------------------------------------------
(* What is left of the block <<p, n>> when base .. base + m - 1 is freed.  *)
Rest(p, n, base, m) ==
  {b \in {<<p, base - p>>, <<base + m, p + n - base - m>>} : b[2] > 0}

(* The place of base in the list: before the first page that is higher.    *)
PlaceOf(base) ==
  LET k == SelectInSeq(free_list, LAMBDA p : p > base)
  IN  IF k = 0 THEN Len(free_list) + 1 ELSE k

(* A slip: the block above keeps its mark.                                 *)
JoinUp_MarkStays(prop, base, m, k) ==
  IF At(k) = base + m THEN [prop EXCEPT ![base] = m + prop[At(k)]] ELSE prop
(* A block that begins just above the freed one becomes part of it, ...    *)
JoinUp(prop, base, m, k) ==
  IF At(k) = base + m
  THEN [prop EXCEPT ![base] = m + prop[At(k)], ![At(k)] = 0] ELSE prop

(* ... which becomes part of the block that ends just below, found by the  *)
(* nearest page before it with a property.                                 *)
JoinDown(prop, base, k) ==
  LET j == SelectLastInSubSeq(free_list, 1, k - 1, LAMBDA p : prop[p] # 0)
  IN  IF k > 1 /\ At(k - 1) = base - 1 /\ j # 0
      THEN [prop EXCEPT ![free_list[j]] = @ + prop[base], ![base] = 0] ELSE prop

(* free_pages of m pages from base, which belong to the lent block <<p, n>>. *)
FreePages(p, n, base, m) ==
  LET k == PlaceOf(base)
      fresh == [property EXCEPT ![base] = m]
  IN  /\ base \in reserved
      /\ free_list' = SubSeq(free_list, 1, k - 1) \o [i \in 1 .. m |-> base + i - 1]
                        \o SubSeq(free_list, k, Len(free_list))
      /\ property' = JoinDown(JoinUp(fresh, base, m, k), base, k)
      /\ reserved' = reserved \ {base}
      /\ valid' = valid \cup {base}
      /\ nr_free' = nr_free + m
      /\ lent' = (lent \ {<<p, n>>}) \cup Rest(p, n, base, m)
      /\ UNCHANGED <<handed, result>>

Next ==
  \/ \E base \in Page : \E m \in 1 .. npage : InitMemmap(base, m)
  \/ /\ handed = Len(Usable)
     /\ \/ \E n \in 1 .. npage : AllocFails(n) \/ AllocPages(n)
        \/ \E b \in lent : \E base \in RunOf(b[1], b[2]) :
             \E m \in 1 .. b[1] + b[2] - base : FreePages(b[1], b[2], base, m)

Spec == Init /\ [][Next]_vars

-----------------------------------------------------------------------------
Free == ToSet(free_list)

(* The list holds the free pages once each, by address, and nr_free counts *)
(* them: what default_check adds up before it starts.  All pages that are  *)
(* out are reserved: free_pages' assertion holds for any part of a block.  *)
ListExact ==
  /\ \A i, j \in DOMAIN free_list : i < j => free_list[i] < free_list[j]
  /\ nr_free = Len(free_list)
  /\ LET out == UNION {RunOf(b[1], b[2]) : b \in lent}
     IN  Free = PagesOf(handed) \ out /\ out \subseteq reserved

(* Free blocks are always joined: the first page of a run of free pages    *)
(* knows the length of the whole run, the others have property 0.          *)
BlocksJoined ==
  \A p \in Free :
    property[p] = IF p - 1 \in Free THEN 0
                  ELSE CHOOSE n \in 1 .. npage : RunOf(p, n) \subseteq Free /\ p + n \notin Free

(* The manager is an allocator of the lowest runs, and refuses only what   *)
(* cannot be had.                                                          *)
Abs == INSTANCE PageAllocator WITH free <- Free
KeepsPromise == Abs!Spec
=============================================================================
