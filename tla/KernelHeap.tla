----------------------------- MODULE KernelHeap -----------------------------
(***************************************************************************)
(* What kmalloc and kfree promise: a block as large as it was asked for,   *)
(* of memory that nobody else has, which is given back whole.              *)
(***************************************************************************)
EXTENDS Integers

CONSTANTS Size, SLOB_UNIT

VARIABLES free,      \* the units of memory that nobody has
          held       \* the blocks callers have: [block, size, units]

Init == held = {}

(* The units that size bytes from the unit ptr on reach into.              *)
Span(ptr, size) == ptr .. ptr + (size - 1) \div SLOB_UNIT

Kmalloc(size) ==
  /\ free' \subseteq free
  /\ \E b \in held' :
       /\ b.size = size /\ b.units = free \ free'
       /\ Span(b.block, size) \subseteq b.units
       /\ held' = held \cup {b}

Kfree(b) ==
  /\ held' = held \ {b}
  /\ free' = free \cup b.units

Next == (\E size \in Size : Kmalloc(size)) \/ \E b \in held : Kfree(b)

Spec == Init /\ [][Next]_<<free, held>>
=============================================================================
