--------------------------- MODULE VirtualMemory ---------------------------
(***************************************************************************)
(* What swapping promises: a memory that keeps what is written to it, of   *)
(* which at most Capacity pages are resident; the page evicted is the one  *)
(* that has been resident longest.  A page may be spoilt only when it is   *)
(* brought back, and is then among the lost ones until it is written.      *)
(***************************************************************************)
EXTENDS Integers, Sequences

CONSTANTS Vpage, Value, Capacity, Unknown

VARIABLES memory,      \* of each page; Unknown until it is first brought in
          resident,    \* the pages in memory, the oldest first
          lost         \* the pages that do not hold what was written to them

vars == <<memory, resident, lost>>

Init == memory = [v \in Vpage |-> Unknown] /\ resident = <<>> /\ lost = {}

IsResident(v) == \E i \in DOMAIN resident : resident[i] = v

Write(v, x) ==
  /\ IsResident(v)
  /\ memory' = [memory EXCEPT ![v] = x]
  /\ lost' = lost \ {v}
  /\ UNCHANGED resident

Bring(v) ==
  /\ ~IsResident(v) /\ Len(resident) < Capacity
  /\ resident' = Append(resident, v)
  /\ \/ memory[v] # Unknown /\ UNCHANGED <<memory, lost>>
     \/ /\ \E x \in Value : memory' = [memory EXCEPT ![v] = x]
        /\ lost' = IF memory[v] = Unknown THEN lost ELSE lost \cup {v}

(* The oldest leaves, or counts as new when it could not be saved.         *)
Evict ==
  /\ Len(resident) = Capacity
  /\ \/ resident' = Tail(resident)
     \/ resident' = Append(Tail(resident), Head(resident))
  /\ UNCHANGED <<memory, lost>>

Next == Evict \/ \E v \in Vpage : Bring(v) \/ \E x \in Value : Write(v, x)

Spec == Init /\ [][Next]_vars
=============================================================================
