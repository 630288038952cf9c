-------------------------------- MODULE Swap --------------------------------
(***************************************************************************)
(* Page faults and FIFO page replacement of hw15 kern/mm (do_pgfault,      *)
(* pgdir_alloc_page, alloc_pages, swap_out, swap_in, swap_fifo.c) for one  *)
(* address space, as check_swap sets it up.  The slot of a page on disk is *)
(* computed from its address, so the slot of v is v.  A frame is not       *)
(* cleared when it is taken.                                               *)
(***************************************************************************)
EXTENDS Integers, SequencesExt

CONSTANTS
  Vpage,         \* the pages of the area
  Frame,         \* the frames check_swap leaves free
  Value,         \* what a page may hold
  Unknown,       \* the content of a page that was never touched
  Nothing,       \* no page
  SetsVaddr      \* do_pgfault sets pra_vaddr of a page it has swapped in:
                 \* TRUE in hw15, FALSE in hw13

ASSUME SwapAssumption ==
  /\ IsFiniteSet(Frame) /\ Frame # {}
  /\ {"absent", "swapped"} \cap Frame = {}
  /\ Nothing \notin Vpage /\ Unknown \notin Value
  /\ SetsVaddr \in BOOLEAN

VARIABLES
  pte,           \* of each page: its frame, "swapped" or "absent"
  content,       \* of each frame
  disk,          \* of each slot
  free,          \* the free frames
  pra_list,      \* the frames from pra_list_head: the newest first
  pra_vaddr,     \* of each frame
  fault,         \* the page whose fault is being handled, or Nothing
  lost           \* history: the pages that a failed read has spoilt and nobody
                 \* has written since

vars == <<pte, content, disk, free, pra_list, pra_vaddr, fault, lost>>

TypeOK ==
  /\ pte \in [Vpage -> Frame \cup {"absent", "swapped"}]
  /\ content \in [Frame -> Value]
  /\ disk \in [Vpage -> Value \cup {Unknown}]
  /\ free \subseteq Frame
  /\ pra_list \in Seq(Frame)
  /\ pra_vaddr \in [Frame -> Vpage \cup {Nothing}]
  /\ fault \in Vpage \cup {Nothing}
  /\ lost \subseteq Vpage

Init ==
  /\ pte = [v \in Vpage |-> "absent"]
  /\ content \in [Frame -> Value]
  /\ disk = [v \in Vpage |-> Unknown]
  /\ free = Frame
  /\ pra_list = <<>>
  /\ pra_vaddr = [f \in Frame |-> Nothing]
  /\ fault = Nothing
  /\ lost = {}

Present(v) == pte[v] \in Frame
Victim == Last(pra_list)

-----------------------------------------------------------------------------
(* A write to a page that is present.                                      *)
Write(v, x) ==
  /\ fault = Nothing
  /\ Present(v)
  /\ content' = [content EXCEPT ![pte[v]] = x]
  /\ lost' = lost \ {v}
  /\ UNCHANGED <<pte, disk, free, pra_list, pra_vaddr, fault>>

(* Any access to one that is not.                                          *)
Fault(v) ==
  /\ fault = Nothing
  /\ ~Present(v)
  /\ fault' = v
  /\ UNCHANGED <<pte, content, disk, free, pra_list, pra_vaddr, lost>>

(* alloc_pages finds no free frame and calls swap_out, which saves the     *)
(* oldest page ...                                                         *)
SwapOut ==
  LET v == pra_vaddr[Victim]
  IN  /\ fault # Nothing /\ free = {} /\ pra_list # <<>>
      /\ Present(v)
      /\ disk' = [disk EXCEPT ![v] = content[Victim]]
      /\ pte' = [pte EXCEPT ![v] = "swapped"]
      /\ free' = {Victim}
      /\ pra_list' = Front(pra_list)
      /\ UNCHANGED <<content, pra_vaddr, fault, lost>>

(* A slip: the page that could not be saved leaves the list.               *)
SwapOutFails_Drops ==
  /\ fault # Nothing /\ free = {} /\ pra_list # <<>>
  /\ Present(pra_vaddr[Victim])
  /\ pra_list' = Front(pra_list)
  /\ UNCHANGED <<pte, content, disk, free, pra_vaddr, fault, lost>>
(* ... or fails to, and puts it back as the newest; alloc_pages tries again. *)
SwapOutFails ==
  /\ fault # Nothing /\ free = {} /\ pra_list # <<>>
  /\ Present(pra_vaddr[Victim])
  /\ pra_list' = <<Victim>> \o Front(pra_list)
  /\ UNCHANGED <<pte, content, disk, free, pra_vaddr, fault, lost>>

(* A slip: the new page is entered at the other end.                       *)
MapSwappable_Oldest(f) == Append(pra_list, f)
(* _fifo_map_swappable.                                                    *)
MapSwappable(f) == <<f>> \o pra_list

(* The frame before it is mapped: a first touch takes it as it is; swap_in *)
(* fills it from the disk, and goes on in the same way when the read fails, *)
(* with some sectors of the slot in it or none.                            *)
Loaded(f) ==
  \/ pte[fault] = "absent" /\ UNCHANGED <<content, lost>>
  \/ /\ pte[fault] = "swapped"
     /\ content' = [content EXCEPT ![f] = disk[fault]]
     /\ UNCHANGED lost
  \/ /\ pte[fault] = "swapped"
     /\ \E x \in Value : content' = [content EXCEPT ![f] = x]
     /\ lost' = lost \cup {fault}

(* The rest of do_pgfault with a frame from alloc_page.                    *)
MapIn(f) ==
  /\ fault # Nothing
  /\ Loaded(f)
  /\ pra_vaddr' = IF pte[fault] = "swapped" /\ ~SetsVaddr THEN pra_vaddr
                  ELSE [pra_vaddr EXCEPT ![f] = fault]
  /\ pte' = [pte EXCEPT ![fault] = f]
  /\ free' = free \ {f}
  /\ pra_list' = MapSwappable(f)
  /\ fault' = Nothing
  /\ UNCHANGED disk

Next ==
  \/ \E v \in Vpage : Fault(v) \/ \E x \in Value : Write(v, x)
  \/ SwapOut \/ SwapOutFails
  \/ \E f \in free : MapIn(f)

Spec == Init /\ [][Next]_vars

-----------------------------------------------------------------------------
(* The list, the page table and the free frames tell the same story: each  *)
(* frame is free, or in the list once and mapped by the one page that its  *)
(* pra_vaddr names.                                                        *)
ListExact ==
  /\ \A i, j \in DOMAIN pra_list : i # j => pra_list[i] # pra_list[j]
  /\ ToSet(pra_list) = Frame \ free
  /\ \A f \in ToSet(pra_list) : \A v \in Vpage : pte[v] = f <=> pra_vaddr[f] = v
  /\ \A f \in free : \A v \in Vpage : pte[v] # f

(* The assertions of swap_out and of _fifo_swap_out_victim: there is a     *)
(* victim, and the page it is thought to hold is present.                  *)
VictimPresent ==
  fault # Nothing /\ free = {} => pra_list # <<>> /\ Present(pra_vaddr[Victim])

(* No page loses what was written to it, wherever it is kept, but by a read *)
(* that fails, and pages leave in the order in which they came.            *)
Abs == INSTANCE VirtualMemory WITH
  Capacity <- Cardinality(Frame),
  memory   <- [v \in Vpage |-> IF Present(v) THEN content[pte[v]]
                               ELSE IF pte[v] = "swapped" THEN disk[v] ELSE Unknown],
  resident <- Reverse([i \in DOMAIN pra_list |-> pra_vaddr[pra_list[i]]])
KeepsPromise == Abs!Spec
=============================================================================
