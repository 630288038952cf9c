------------------------------ MODULE FitHeap ------------------------------
(***************************************************************************)
(* malloc and free of hw4/best-worst-fit.c: a circular list of free blocks *)
(* by address, searched once around for the smallest block that fits, or   *)
(* for the biggest; and of hw4/mall.c, where each block is marked and      *)
(* keeps its length.  Memory is numbered by headers; base is unit 0, the   *)
(* break begins at unit 2.  sbrk is external: it moves the break up.       *)
(***************************************************************************)
EXTENDS Integers, SequencesExt

CONSTANTS
  NALLOC,        \* the least that morecore asks for, in units
  Limit,         \* sbrk fails beyond it
  Lengths        \* the lengths of blocks that are asked for, with the header

FitHeapAssumption ==
  {NALLOC, Limit} \subseteq Nat /\ Lengths \subseteq Nat \ {0, 1}

base  == 0
Start == 2
Unit  == 0 .. Limit - 1
RunOf(a, n) == a .. a + n - 1

VARIABLES
  strategy,      \* "best" or "worst": which of the two malloc calls; or "marks"
  list,          \* the free blocks from freep on; the set of those marked available
  size,          \* s.size of each block that is free or lent; 0 elsewhere
  break,
  lent           \* history: the first units of the blocks callers have

vars == <<strategy, list, size, break, lent>>

Init ==
  /\ strategy \in {"best", "worst", "marks"}
  /\ list = IF strategy = "marks" THEN {} ELSE <<base>>
  /\ size = [u \in Unit |-> 0]
  /\ break = Start
  /\ lent = {}

Rotate(l, i) == SubSeq(l, i, Len(l)) \o SubSeq(l, 1, i - 1)

-----------------------------------------------------------------------------
(* Where free finds the place of bp: behind the p of its loop.             *)
Place(l, bp) ==
  SelectInSeq([i \in DOMAIN l |-> <<l[i], l[(i % Len(l)) + 1]>>],
              LAMBDA e : (bp > e[1] /\ bp < e[2]) \/ (e[1] >= e[2] /\ (bp > e[1] \/ bp < e[2])))

(* free of the block bp: the list and the lengths after it.                *)
Freed(l, sz, bp) ==
  LET r  == Rotate(l, Place(l, bp))
      up == Len(r) > 1 /\ bp + sz[bp] = r[2]
      n  == IF up THEN sz[bp] + sz[r[2]] ELSE sz[bp]
      apart == IF up THEN [sz EXCEPT ![bp] = n, ![r[2]] = 0] ELSE sz
      tail == SubSeq(r, IF up THEN 3 ELSE 2, Len(r))
  IN  IF r[1] + sz[r[1]] = bp
      THEN [list |-> <<r[1]>> \o tail, size |-> [apart EXCEPT ![r[1]] = @ + n, ![bp] = 0]]
      ELSE [list |-> <<r[1], bp>> \o tail, size |-> apart]

(* The order in which the searches see the blocks: freep itself last.      *)
Seen(l) == Rotate(l, IF Len(l) > 1 THEN 2 ELSE 1)

(* best_fit and worst_fit: the place of the block they take, or 0.         *)
Choice(l, sz, n) ==
  LET s == Seen(l)
      fit == {i \in DOMAIN s : sz[s[i]] >= n}
      better(i, j) == IF strategy = "best" THEN sz[s[i]] < sz[s[j]] ELSE sz[s[i]] > sz[s[j]]
      chosen == {i \in fit : \A j \in fit \ {i} : better(i, j) \/ (sz[s[i]] = sz[s[j]] /\ i < j)}
  IN  IF fit = {} THEN 0 ELSE Max(chosen)

(* returnblock: an exact block leaves the list, else its tail end is used; *)
(* freep is the block before.                                              *)
Return(l, sz, n) ==
  \E after \in {Rotate(Seen(l), Choice(l, sz, n))} :
  LET ptr == after[1]
      prevp == Last(after)
      exact == sz[ptr] = n
  IN  /\ list' = IF exact THEN <<prevp>> \o SubSeq(after, 2, Len(after) - 1)
                 ELSE <<prevp>> \o SubSeq(after, 1, Len(after) - 1)
      /\ size' = IF exact THEN sz
                 ELSE [sz EXCEPT ![ptr] = @ - n, ![ptr + sz[ptr] - n] = n]
      /\ lent' = lent \cup {ptr + sz[ptr] - n}

malloc(n) ==
  /\ strategy # "marks"
  /\ Choice(list, size, n) # 0
  /\ Return(list, size, n)
  /\ UNCHANGED <<strategy, break>>

Core(n) == IF n < NALLOC THEN NALLOC ELSE n

(* morecore first: the new block is freed, and the search goes on.         *)
mallocMore(n) ==
  /\ strategy # "marks"
  /\ Choice(list, size, n) = 0
  /\ break + Core(n) <= Limit
  /\ break' = break + Core(n)
  /\ \E f \in {Freed(list, [size EXCEPT ![break] = Core(n)], break)} : Return(f.list, f.size, n)
  /\ UNCHANGED strategy

free(bp) ==
  /\ strategy # "marks"
  /\ \E f \in {Freed(list, size, bp)} : list' = f.list /\ size' = f.size
  /\ lent' = lent \ {bp}
  /\ UNCHANGED <<strategy, break>>

-----------------------------------------------------------------------------
(* mall.c: the first available block that is long enough, or else the      *)
(* break, on a walk from block to block by their lengths.                  *)
Walk(n) ==
  LET from[p \in Start .. break] ==
        IF p = break \/ (p \in list /\ size[p] >= n) THEN p ELSE from[p + size[p]]
  IN  from[Start]

(* Bound: sbrk does not fail here, where nothing would look at it.         *)
mallocMarks(n) ==
  /\ strategy = "marks"
  /\ \E p \in {Walk(n)} :
       /\ p = break => break + n <= Limit
       /\ break' = IF p = break THEN break + n ELSE break
       /\ size' = IF p = break THEN [size EXCEPT ![p] = n] ELSE size
       /\ list' = list \ {p}
       /\ lent' = lent \cup {p}
       /\ UNCHANGED strategy

freeMarks(bp) ==
  /\ strategy = "marks"
  /\ list' = list \cup {bp}
  /\ lent' = lent \ {bp}
  /\ UNCHANGED <<strategy, size, break>>

Next ==
  \/ \E n \in Lengths : malloc(n) \/ mallocMore(n) \/ mallocMarks(n)
  \/ \E bp \in lent : free(bp) \/ freeMarks(bp)

Spec == Init /\ [][Next]_vars

-----------------------------------------------------------------------------
(* The memory below the break is tiled by free and lent blocks: the list   *)
(* is in order and its blocks are joined wherever they touch, and nothing  *)
(* is lost or handed out twice, whichever way free blocks are kept.        *)
Tiled(free_blocks) ==
  LET Tile == free_blocks \cup lent
  IN  /\ free_blocks \cap lent = {}
      /\ \A p \in Tile \ {base} : size[p] > 0 /\ (p + size[p] = break \/ p + size[p] \in Tile)
      /\ \A p, q \in Tile : p < q => p + size[p] <= q
      /\ break = Start \/ Start \in Tile
FitExact ==
  IF strategy = "marks" THEN Tiled(list)
  ELSE LET l == Rotate(list, SelectInSeq(list, LAMBDA p : p = base))
       IN  Tiled(ToSet(list)) /\ \A i \in 1 .. Len(l) - 1 : l[i] + size[l[i]] < l[i + 1]
=============================================================================
