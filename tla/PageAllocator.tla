--------------------------- MODULE PageAllocator ---------------------------
(***************************************************************************)
(* What the physical page allocator promises: runs of free pages, always   *)
(* the lowest run that is long enough, refused only when there is none.    *)
(* At first no page is free; page_init frees those that there are.         *)
(***************************************************************************)
EXTENDS Integers

CONSTANTS npage, Pages, NoPage

VARIABLES free, result     \* the free pages; the answer to the last request

Run(p, n)  == p .. p + n - 1
Runs(n)    == {p \in Pages : Run(p, n) \subseteq free}
Lowest(S)  == CHOOSE p \in S : \A q \in S : p <= q

Init == free = {} /\ result = NoPage

Alloc(n) ==
  \/ /\ Runs(n) # {}
     /\ result' = Lowest(Runs(n))
     /\ free' = free \ Run(result', n)
  \/ Runs(n) = {} /\ result' = NoPage /\ UNCHANGED free

Free(p, n) ==
  /\ Run(p, n) \subseteq Pages \ free
  /\ free' = free \cup Run(p, n)
  /\ UNCHANGED result

Next == \E n \in 1 .. npage : Alloc(n) \/ \E p \in Pages : Free(p, n)

Spec == Init /\ [][Next]_<<free, result>>
=============================================================================
