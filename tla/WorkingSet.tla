----------------------------- MODULE WorkingSet -----------------------------
(***************************************************************************)
(* The two ways of deciding which pages stay in memory in hw8/exchange.py: *)
(* by the last references (get_memory_workplace), and by the distance of   *)
(* the page faults (get_memory).  The program calls one of them all along. *)
(***************************************************************************)
EXTENDS Integers, SequencesExt

CONSTANTS
  Page, window,
  MaxHistory     \* bound of the runs: references between two faults

WorkingSetAssumption == window \in Nat \ {0} /\ MaxHistory \in Nat

VARIABLES
  caller,        \* "workplace" or "faults"
  mem,           \* the pages in memory
  visit_history,
  since          \* current - last_fault

vars == <<caller, mem, visit_history, since>>

Init ==
  /\ caller \in {"workplace", "faults"}
  /\ mem = {}
  /\ visit_history = << >>
  /\ since = -1          \* current begins with -1, last_fault with 0

-----------------------------------------------------------------------------
(* What is in memory when the window is full: the oldest reference leaves  *)
(* it, then the rest are marked again.                                     *)
Kept(visits) == ((mem \cup {Last(visits)}) \ {visits[1]}) \cup ToSet(Tail(visits))

get_memory_workplace(addr) ==
  LET visits == Append(visit_history, addr)
  IN  /\ caller = "workplace"
      /\ IF Len(visits) > window
         THEN mem' = Kept(visits) /\ visit_history' = Tail(visits)
         ELSE mem' = mem \cup {addr} /\ visit_history' = visits
      /\ UNCHANGED <<caller, since>>

(* The last references, window and the present one, when faults are rare;  *)
(* range(-1, -window-2) is empty: what is among them and was visited before *)
(* is lost as well.                                                        *)
get_memory(addr) ==
  LET visits == Append(visit_history, addr)
      now == since + 1
      rare == now > window
      old == {visits[i] : i \in 1 .. Len(visits) - window - 1}
  IN  /\ caller = "faults"
      /\ Len(visits) <= MaxHistory
      /\ IF addr \in mem THEN mem' = mem /\ visit_history' = visits /\ since' = now
         ELSE /\ mem' = (IF rare THEN mem \ old ELSE mem) \cup {addr}
              /\ visit_history' = IF rare THEN SubSeq(visits, Max({1, Len(visits) - window}), Len(visits)) ELSE visits
              /\ since' = 0
      /\ UNCHANGED caller

Next == \E addr \in Page : get_memory_workplace(addr) \/ get_memory(addr)

Spec == Init /\ [][Next]_vars

-----------------------------------------------------------------------------
(* The working set is what the last references reach, no more and no less; *)
(* with the other way, nothing is in memory that the history does not      *)
(* explain.                                                                *)
WorkingSetExact ==
  IF caller = "workplace" THEN mem = ToSet(visit_history) /\ Len(visit_history) <= window
  ELSE mem \subseteq ToSet(visit_history)
=============================================================================
