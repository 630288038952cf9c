----------------------------- MODULE SwapProofs -----------------------------
(***************************************************************************)
(* Theorems about Swap, for any pages, frames and values: the list of      *)
(* swap_fifo.c is exact, swap_out always finds a victim that is present,   *)
(* and the memory keeps what is written to it.  The last three need the    *)
(* do_pgfault of hw15, which names the page in a frame it swaps in.        *)
(***************************************************************************)
EXTENDS Swap, SequenceLemmas

(* A page that is swapped out has something on disk, and the page whose    *)
(* fault do_pgfault handles stays away until it is mapped.                 *)
SwappedKnown == \A v \in Vpage : pte[v] = "swapped" => disk[v] \in Value
FaultAbsent == fault # Nothing => ~Present(fault)
TInv == TypeOK /\ SwappedKnown /\ FaultAbsent

(* The victim is the oldest of the list, and the rest of the list stays.   *)
LEMMA VictimIsLast ==
  ASSUME TypeOK, pra_list # << >>
  PROVE  Victim \in Frame /\ Front(pra_list) \in Seq(Frame)
  BY FrontProperties DEF TypeOK, Victim

(* swap_in finds a value on disk, since the page was saved before, or reads *)
(* it with an error.                                                       *)
LEMMA LoadedType ==
  ASSUME TInv, fault # Nothing, NEW f \in Frame, Loaded(f)
  PROVE  content' \in [Frame -> Value] /\ lost' \subseteq Vpage
  BY DEF TInv, TypeOK, SwappedKnown, Loaded

(* Every step preserves types and the list's frames, with or without       *)
(* pra_vaddr.                                                              *)
LEMMA TInvStep == TInv /\ [Next]_vars => TInv'
<1> SUFFICES ASSUME TInv, [Next]_vars
             PROVE  TInv'
  OBVIOUS
<1> USE SwapAssumption
<1>1. ASSUME NEW v \in Vpage, Fault(v)
      PROVE  TInv'
  BY <1>1 DEF TInv, TypeOK, SwappedKnown, FaultAbsent, Fault, Present
<1>2. ASSUME NEW v \in Vpage, NEW x \in Value, Write(v, x)
      PROVE  TInv'
  BY <1>2 DEF TInv, TypeOK, SwappedKnown, FaultAbsent, Write, Present
<1>3. CASE SwapOut
  <2>1. Victim \in Frame /\ Front(pra_list) \in Seq(Frame)
    BY <1>3, VictimIsLast DEF TInv, SwapOut
  <2>2. content[Victim] \in Value
    BY <2>1 DEF TInv, TypeOK
  <2>3. TypeOK'
    BY <1>3, <2>1, <2>2 DEF TInv, TypeOK, SwapOut
  <2>4. SwappedKnown' /\ FaultAbsent'
    BY <1>3, <2>2 DEF TInv, TypeOK, SwappedKnown, FaultAbsent, SwapOut, Present
  <2>5. QED
    BY <2>3, <2>4 DEF TInv
<1>4. CASE SwapOutFails
  <2>1. <<Victim>> \o Front(pra_list) \in Seq(Frame)
    BY <1>4, VictimIsLast, PrependProperties DEF TInv, SwapOutFails
  <2>2. QED
    BY <1>4, <2>1 DEF TInv, TypeOK, SwappedKnown, FaultAbsent, SwapOutFails, Present
<1>5. ASSUME NEW f \in free, MapIn(f)
      PROVE  TInv'
  <2>1. f \in Frame /\ fault \in Vpage
    BY <1>5 DEF TInv, TypeOK, MapIn
  <2>2. <<f>> \o pra_list \in Seq(Frame)
    BY <2>1, PrependProperties DEF TInv, TypeOK
  <2>3. content' \in [Frame -> Value] /\ lost' \subseteq Vpage
    BY <1>5, <2>1, LoadedType DEF MapIn
  <2>4. TypeOK'
    BY <1>5, <2>1, <2>2, <2>3 DEF TInv, TypeOK, MapIn, MapSwappable
  <2>5. SwappedKnown' /\ FaultAbsent'
    BY <1>5, <2>1 DEF TInv, TypeOK, SwappedKnown, FaultAbsent, MapIn
  <2>6. QED
    BY <2>4, <2>5 DEF TInv
<1>6. CASE UNCHANGED vars
  BY <1>6 DEF TInv, TypeOK, SwappedKnown, FaultAbsent, Present, vars
<1>7. QED
  BY <1>1, <1>2, <1>3, <1>4, <1>5, <1>6 DEF Next

(* The variables keep their types, in hw13 and in hw15: what swap_in reads *)
(* is something that swap_out has written.                                 *)
THEOREM TypeCorrect == Spec => []TInv
<1>1. Init => TInv
  BY SwapAssumption, EmptySeq
  DEF Init, TInv, TypeOK, SwappedKnown, FaultAbsent
<1>2. QED
  BY <1>1, TInvStep, PTL DEF Spec

-----------------------------------------------------------------------------
(* Each frame of the list holds a page.                                    *)
Named == \A f \in ToSet(pra_list) : pra_vaddr[f] \in Vpage
LInv == TInv /\ ListExact /\ Named

(* The page that the oldest frame is thought to hold is present, in it.    *)
LEMMA VictimHolds ==
  ASSUME LInv, pra_list # << >>
  PROVE  /\ Victim \in Frame \ free
         /\ pra_vaddr[Victim] \in Vpage
         /\ pte[pra_vaddr[Victim]] = Victim
<1>1. Victim \in ToSet(pra_list)
  BY ToSetFront DEF LInv, TInv, TypeOK, ListExact, Distinct, Victim
<1>2. QED
  BY <1>1 DEF LInv, ListExact, Named

(* A page that is saved leaves table and list together.                    *)
LEMMA SwapOutKeeps ==
  ASSUME LInv, SwapOut
  PROVE  ListExact' /\ Named'
<1> DEFINE v == pra_vaddr[Victim]
<1>1. v \in Vpage /\ pte[v] = Victim /\ Victim \in Frame \ free
  BY VictimHolds DEF SwapOut
<1>2. /\ Distinct(Front(pra_list))
      /\ ToSet(Front(pra_list)) = ToSet(pra_list) \ {Victim}
  BY ToSetFront DEF LInv, TInv, TypeOK, ListExact, Distinct, Victim, SwapOut
<1>3. pra_list' = Front(pra_list) /\ free' = {Victim} /\ free = {} /\ pra_vaddr' = pra_vaddr
  BY DEF SwapOut
<1>4. pte' = [pte EXCEPT ![v] = "swapped"]
  BY DEF SwapOut
<1>5. /\ \A i, j \in DOMAIN pra_list' : i # j => pra_list'[i] # pra_list'[j]
      /\ ToSet(pra_list') = Frame \ free'
  BY <1>2, <1>3 DEF Distinct, LInv, ListExact
<1>6. ASSUME NEW f \in ToSet(pra_list'), NEW w \in Vpage
      PROVE  pte'[w] = f <=> pra_vaddr'[f] = w
  <2>1. f \in Frame /\ f # Victim /\ f \in ToSet(pra_list) /\ f # "swapped"
    BY <1>2, <1>3, SwapAssumption DEF LInv, ListExact
  <2>2. pte[w] = f <=> pra_vaddr[f] = w
    BY <2>1 DEF LInv, ListExact
  <2>3. QED
    BY <1>1, <1>3, <1>4, <2>1, <2>2 DEF LInv, TInv, TypeOK
<1>7. ASSUME NEW w \in Vpage
      PROVE  pte'[w] # Victim
  <2>1. Victim # "swapped"
    BY <1>1, SwapAssumption
  <2>2. pte[w] = Victim <=> v = w
    BY <1>1 DEF LInv, ListExact
  <2>3. QED
    BY <1>1, <1>4, <2>1, <2>2 DEF LInv, TInv, TypeOK
<1>8. ListExact'
  BY <1>3, <1>5, <1>6, <1>7 DEF ListExact
<1>9. Named'
  BY <1>2, <1>3 DEF LInv, Named
<1>10. QED
  BY <1>8, <1>9

(* A page that cannot be saved goes to the other end of the list; what the *)
(* list names stays.                                                       *)
LEMMA SwapOutFailsKeeps ==
  ASSUME LInv, SwapOutFails
  PROVE  ListExact' /\ Named'
<1>1. pra_list \in Seq(Frame) /\ pra_list # << >> /\ Distinct(pra_list) /\ Victim = Last(pra_list)
  BY DEF LInv, TInv, TypeOK, ListExact, Distinct, SwapOutFails, Victim
<1>2. Front(pra_list) \in Seq(Frame) /\ Victim \in Frame
  BY <1>1, FrontProperties
<1>3. /\ Distinct(Front(pra_list))
      /\ ToSet(Front(pra_list)) = ToSet(pra_list) \ {Victim}
      /\ Victim \in ToSet(pra_list)
  BY <1>1, ToSetFront
<1>4. Victim \notin ToSet(Front(pra_list))
  BY <1>3
<1>5. /\ Distinct(<<Victim>> \o Front(pra_list))
      /\ ToSet(<<Victim>> \o Front(pra_list)) = ToSet(Front(pra_list)) \cup {Victim}
  BY <1>2, <1>3, <1>4, ToSetPrepend
<1>6. Distinct(pra_list') /\ ToSet(pra_list') = ToSet(pra_list)
  BY <1>3, <1>5 DEF SwapOutFails
<1>7. UNCHANGED <<pte, free, pra_vaddr>>
  BY DEF SwapOutFails
<1>8. QED
  BY <1>6, <1>7 DEF LInv, ListExact, Named, Distinct

(* A frame that was free is mapped, named and listed in one step.          *)
LEMMA MapInKeeps ==
  ASSUME SetsVaddr, LInv, NEW f \in free, MapIn(f)
  PROVE  ListExact' /\ Named'
<1>1. f \in Frame /\ fault \in Vpage /\ f \notin ToSet(pra_list) /\ pra_list \in Seq(Frame)
  BY DEF LInv, TInv, TypeOK, ListExact, MapIn
<1>2. /\ pra_list' = <<f>> \o pra_list
      /\ pra_vaddr' = [pra_vaddr EXCEPT ![f] = fault]
      /\ pte' = [pte EXCEPT ![fault] = f]
      /\ free' = free \ {f}
  BY DEF MapIn, MapSwappable
<1>3. Distinct(pra_list') /\ ToSet(pra_list') = ToSet(pra_list) \cup {f}
  BY <1>1, <1>2, ToSetPrepend DEF LInv, ListExact, Distinct
<1>4. \A w \in Vpage : pte[w] # f
  BY DEF LInv, ListExact
<1>5. pte[fault] \notin Frame
  BY <1>1 DEF LInv, TInv, FaultAbsent, Present, MapIn
<1>6. ASSUME NEW g \in ToSet(pra_list'), NEW w \in Vpage
      PROVE  pte'[w] = g <=> pra_vaddr'[g] = w
  <2>1. CASE g = f
    BY <1>1, <1>2, <1>4, <2>1 DEF LInv, TInv, TypeOK
  <2>2. CASE g # f
    <3>1. g \in ToSet(pra_list) /\ g \in Frame
      BY <1>3, <2>2 DEF LInv, ListExact
    <3>2. pte[w] = g <=> pra_vaddr[g] = w
      BY <3>1 DEF LInv, ListExact
    <3>3. QED
      BY <1>1, <1>2, <1>5, <2>2, <3>1, <3>2 DEF LInv, TInv, TypeOK
  <2>3. QED
    BY <2>1, <2>2
<1>7. \A g \in free' : \A w \in Vpage : pte'[w] # g
  BY <1>1, <1>2 DEF LInv, TInv, TypeOK, ListExact
<1>8. ListExact'
  BY <1>1, <1>2, <1>3, <1>6, <1>7 DEF ListExact, Distinct, LInv
<1>9. Named'
  BY <1>1, <1>2, <1>3 DEF Named, LInv, TInv, TypeOK
<1>10. QED
  BY <1>8, <1>9

(* Every step of hw15's paging preserves the agreement of list, table and  *)
(* pra_vaddr.                                                              *)
LEMMA LInvStep ==
  ASSUME SetsVaddr, LInv, [Next]_vars
  PROVE  LInv'
<1>1. TInv'
  BY TInvStep DEF LInv
<1>2. ASSUME UNCHANGED <<pte, free, pra_list, pra_vaddr>>
      PROVE  ListExact' /\ Named'
  BY <1>2 DEF LInv, ListExact, Named
<1>3. ListExact' /\ Named'
  BY <1>2, SwapOutKeeps, SwapOutFailsKeeps, MapInKeeps DEF Next, Fault, Write, vars
<1>4. QED
  BY <1>1, <1>3 DEF LInv

(* The inductive invariant of hw15's paging.                               *)
THEOREM ListInvariant == SetsVaddr => (Spec => []LInv)
<1> SUFFICES ASSUME SetsVaddr
             PROVE  Spec => []LInv
  OBVIOUS
<1>1. Init => LInv
  <2> SUFFICES ASSUME Init
               PROVE  LInv
    OBVIOUS
  <2>1. TInv
    BY SwapAssumption, EmptySeq DEF Init, TInv, TypeOK, SwappedKnown, FaultAbsent
  <2>2. DOMAIN pra_list = {}
    BY DEF Init
  <2>3. ToSet(pra_list) = {}
    BY <2>2 DEF ToSet
  <2>4. QED
    BY <2>1, <2>2, <2>3, SwapAssumption DEF Init, LInv, ListExact, Named
<1>2. LInv /\ [Next]_vars => LInv'
  BY LInvStep
<1>3. QED
  BY <1>1, <1>2, PTL DEF Spec

(* Each frame is free, or in the list once and mapped by the one page that *)
(* its pra_vaddr names (swap_map_swappable, swap_out, do_pgfault).         *)
THEOREM ListStaysExact == SetsVaddr => (Spec => []ListExact)
<1>1. LInv => ListExact
  BY DEF LInv
<1>2. QED
  BY <1>1, ListInvariant, PTL

(* The assertions of swap_out and _fifo_swap_out_victim hold in hw15: when *)
(* memory is full there is a victim and its page is present.  In hw13 TLC  *)
(* finds them violated.                                                    *)
THEOREM VictimIsPresent == SetsVaddr => (Spec => []VictimPresent)
<1>1. LInv => VictimPresent
  <2> SUFFICES ASSUME LInv, fault # Nothing, free = {}
               PROVE  pra_list # << >> /\ Present(pra_vaddr[Victim])
    BY DEF VictimPresent
  <2>1. ToSet(pra_list) # {}
    BY SwapAssumption DEF LInv, ListExact
  <2>2. pra_list # << >>
    BY <2>1 DEF ToSet
  <2>3. QED
    BY <2>2, VictimHolds DEF Present
<1>2. QED
  BY <1>1, ListInvariant, PTL

-----------------------------------------------------------------------------
(* What VirtualMemory calls memory and resident.                           *)
Memory == [v \in Vpage |-> IF Present(v) THEN content[pte[v]]
                           ELSE IF pte[v] = "swapped" THEN disk[v] ELSE Unknown]
ResidentOf(list, vaddr) == Reverse([i \in DOMAIN list |-> vaddr[list[i]]])
Resident == ResidentOf(pra_list, pra_vaddr)

(* The resident pages are those of the list, read from its end.            *)
LEMMA ResidentProperties ==
  ASSUME NEW list \in Seq(Frame), NEW vaddr \in [Frame -> Vpage \cup {Nothing}]
  PROVE  /\ ResidentOf(list, vaddr) \in Seq(Vpage \cup {Nothing})
         /\ Len(ResidentOf(list, vaddr)) = Len(list)
         /\ \A i \in 1 .. Len(list) : ResidentOf(list, vaddr)[i] = vaddr[list[Len(list) - i + 1]]
<1> DEFINE pages == [i \in DOMAIN list |-> vaddr[list[i]]]
<1>1. Len(list) \in Nat /\ DOMAIN list = 1 .. Len(list) /\ \A i \in 1 .. Len(list) : list[i] \in Frame
  BY LenProperties, ElementOfSeq
<1>2. pages \in [1 .. Len(list) -> Vpage \cup {Nothing}]
  BY <1>1
<1>3. Len(pages) = Len(list) /\ \A i \in 1 .. Len(list) : pages[i] = vaddr[list[i]]
  BY <1>1, <1>2
<1> HIDE DEF pages
<1>4. ResidentOf(list, vaddr) = [i \in 1 .. Len(list) |-> pages[(Len(list) - i) + 1]]
  BY <1>3 DEF ResidentOf, Reverse, pages
<1>5. ResidentOf(list, vaddr) \in [1 .. Len(list) -> Vpage \cup {Nothing}]
  BY <1>1, <1>2, <1>4
<1>6. /\ ResidentOf(list, vaddr) \in Seq(Vpage \cup {Nothing})
      /\ Len(ResidentOf(list, vaddr)) = Len(list)
  BY <1>1, <1>5, SeqDef
<1>7. QED
  BY <1>1, <1>3, <1>4, <1>6

(* A page is resident when it is present.                                  *)
LEMMA ResidentIsPresent ==
  ASSUME LInv, NEW v \in Vpage
  PROVE  Abs!IsResident(v) <=> Present(v)
<1>1. /\ pra_list \in Seq(Frame) /\ Len(pra_list) \in Nat /\ DOMAIN pra_list = 1 .. Len(pra_list)
      /\ pra_vaddr \in [Frame -> Vpage \cup {Nothing}]
  BY LenProperties DEF LInv, TInv, TypeOK
<1>2. /\ Resident \in Seq(Vpage \cup {Nothing}) /\ Len(Resident) = Len(pra_list)
      /\ \A i \in 1 .. Len(pra_list) : Resident[i] = pra_vaddr[pra_list[Len(pra_list) - i + 1]]
  BY <1>1, ResidentProperties DEF Resident
<1>3. DOMAIN Resident = 1 .. Len(pra_list)
  BY <1>2, LenProperties
<1>4. Abs!IsResident(v) <=> \E i \in DOMAIN Resident : Resident[i] = v
  BY DEF Abs!IsResident, Resident, ResidentOf
<1>5. ASSUME NEW i \in 1 .. Len(pra_list), Resident[i] = v
      PROVE  Present(v)
  <2>1. Len(pra_list) - i + 1 \in DOMAIN pra_list
    BY <1>1
  <2>2. PICK f \in ToSet(pra_list) : pra_vaddr[f] = v
    BY <1>2, <1>5, <2>1 DEF ToSet
  <2>3. QED
    BY <2>2 DEF LInv, ListExact, Present
<1>6. ASSUME Present(v)
      PROVE  \E i \in 1 .. Len(pra_list) : Resident[i] = v
  <2>1. pte[v] \in ToSet(pra_list)
    BY <1>6 DEF LInv, ListExact, Present
  <2>2. pra_vaddr[pte[v]] = v
    BY <2>1 DEF LInv, ListExact
  <2>3. PICK j \in 1 .. Len(pra_list) : pra_list[j] = pte[v]
    BY <1>1, <2>1 DEF ToSet
  <2>4. Len(pra_list) - j + 1 \in 1 .. Len(pra_list)
        /\ Len(pra_list) - (Len(pra_list) - j + 1) + 1 = j
    BY <1>1
  <2>5. Resident[Len(pra_list) - j + 1] = v
    BY <1>2, <2>2, <2>3, <2>4
  <2>6. QED
    BY <2>4, <2>5
<1>7. QED
  BY <1>3, <1>4, <1>5, <1>6

(* A write to a page that is present is a write of the virtual memory.     *)
LEMMA WriteRefines ==
  ASSUME LInv, NEW v \in Vpage, NEW x \in Value, Write(v, x)
  PROVE  Abs!Write(v, x)
<1>1. Abs!IsResident(v)
  BY ResidentIsPresent DEF Write
<1>2. pte[v] \in Frame /\ content' = [content EXCEPT ![pte[v]] = x] /\ pte' = pte /\ disk' = disk
  BY DEF Write, Present
<1>3. pte[v] \in ToSet(pra_list)
  BY <1>2 DEF LInv, ListExact
<1>4. \A w \in Vpage : pte[w] = pte[v] => w = v
  BY <1>3 DEF LInv, ListExact
<1>5. Memory' = [Memory EXCEPT ![v] = x]
  BY <1>2, <1>4 DEF Memory, Present, LInv, TInv, TypeOK
<1>6. UNCHANGED <<pra_list, pra_vaddr>> /\ lost' = lost \ {v}
  BY DEF Write
<1>7. QED
  BY <1>1, <1>5, <1>6 DEF Abs!Write, Memory

(* When no frame is free the list holds them all.                          *)
LEMMA FullWhenNoneFree ==
  ASSUME LInv
  PROVE  /\ Len(pra_list) \in Nat
         /\ free = {} => Len(pra_list) = Cardinality(Frame)
         /\ free # {} => Len(pra_list) < Cardinality(Frame)
<1>1. Distinct(pra_list) /\ ToSet(pra_list) = Frame \ free /\ pra_list \in Seq(Frame)
  BY DEF LInv, TInv, TypeOK, ListExact, Distinct
<1>2. Len(pra_list) = Cardinality(Frame \ free) /\ Len(pra_list) \in Nat
  BY <1>1, LenIsCardinality, LenProperties
<1>3. /\ Cardinality(Frame \ free) <= Cardinality(Frame)
      /\ Cardinality(Frame) = Cardinality(Frame \ free) => Frame = Frame \ free
  BY SwapAssumption, FS_Subset
<1>4. Cardinality(Frame) \in Nat
  BY SwapAssumption, FS_CardinalityType
<1>5. CASE free = {}
  BY <1>2, <1>5
<1>6. CASE free # {}
  <2>1. Frame # Frame \ free
    BY <1>6 DEF LInv, TInv, TypeOK
  <2>2. QED
    BY <1>2, <1>3, <1>4, <1>6, <2>1
<1>7. QED
  BY <1>5, <1>6

-----------------------------------------------------------------------------
(* How the resident pages change with the list.                            *)
LEMMA OldestLeaves ==
  ASSUME NEW list \in Seq(Frame), NEW vaddr \in [Frame -> Vpage \cup {Nothing}], list # << >>
  PROVE  /\ ResidentOf(list, vaddr) # << >>
         /\ ResidentOf(Front(list), vaddr) = Tail(ResidentOf(list, vaddr))
<1> DEFINE old == ResidentOf(list, vaddr)
           new == ResidentOf(Front(list), vaddr)
           P == Vpage \cup {Nothing}
<1>1. /\ Front(list) \in Seq(Frame) /\ Len(list) \in Nat \ {0} /\ Len(Front(list)) = Len(list) - 1
      /\ \A i \in 1 .. Len(list) - 1 : Front(list)[i] = list[i]
  BY FrontProperties
<1>2. /\ old \in Seq(P) /\ Len(old) = Len(list)
      /\ \A i \in 1 .. Len(list) : old[i] = vaddr[list[Len(list) - i + 1]]
  BY ResidentProperties
<1>3. /\ new \in Seq(P) /\ Len(new) = Len(list) - 1
      /\ \A i \in 1 .. Len(list) - 1 : new[i] = vaddr[Front(list)[Len(list) - 1 - i + 1]]
  <2> DEFINE rest == Front(list)
  <2>1. rest \in Seq(Frame) /\ Len(rest) = Len(list) - 1
    BY <1>1
  <2> HIDE DEF rest
  <2>2. /\ ResidentOf(rest, vaddr) \in Seq(P)
        /\ Len(ResidentOf(rest, vaddr)) = Len(rest)
        /\ \A i \in 1 .. Len(rest) : ResidentOf(rest, vaddr)[i] = vaddr[rest[Len(rest) - i + 1]]
    BY <2>1, ResidentProperties
  <2>3. QED
    BY <2>1, <2>2 DEF rest
<1> HIDE DEF old, new, P
<1>4. old # << >>
  BY <1>1, <1>2, EmptySeq
<1>5. /\ Tail(old) \in Seq(P) /\ Len(Tail(old)) = Len(list) - 1
      /\ \A i \in 1 .. Len(list) - 1 : Tail(old)[i] = old[i + 1]
  BY <1>2, <1>4, HeadTailProperties
<1>6. ASSUME NEW i \in 1 .. Len(list) - 1
      PROVE  new[i] = Tail(old)[i]
  <2>1. i + 1 \in 1 .. Len(list) /\ Len(list) - 1 - i + 1 \in 1 .. Len(list) - 1
        /\ Len(list) - (i + 1) + 1 = Len(list) - 1 - i + 1
    BY <1>1
  <2>2. new[i] = vaddr[list[Len(list) - 1 - i + 1]]
    BY <1>1, <1>3, <2>1
  <2>3. Tail(old)[i] = vaddr[list[Len(list) - (i + 1) + 1]]
    BY <1>2, <1>5, <2>1
  <2>4. QED
    BY <2>1, <2>2, <2>3
<1>7. new = Tail(old)
  BY <1>3, <1>5, <1>6, SeqEqual
<1>8. QED
  BY <1>4, <1>7 DEF old, new

(* What _fifo_map_swappable puts in front of the list is the last to       *)
(* leave.                                                                  *)
LEMMA NewestIsLast ==
  ASSUME NEW list \in Seq(Frame), NEW vaddr \in [Frame -> Vpage \cup {Nothing}],
         NEW f \in Frame, NEW vaddr2 \in [Frame -> Vpage \cup {Nothing}],
         \A g \in ToSet(list) : vaddr2[g] = vaddr[g]
  PROVE  ResidentOf(<<f>> \o list, vaddr2) = Append(ResidentOf(list, vaddr), vaddr2[f])
<1> DEFINE old == ResidentOf(list, vaddr)
           new == ResidentOf(<<f>> \o list, vaddr2)
           P == Vpage \cup {Nothing}
           v == vaddr2[f]
<1>1. /\ <<f>> \o list \in Seq(Frame) /\ Len(<<f>> \o list) = Len(list) + 1
      /\ (<<f>> \o list)[1] = f
      /\ \A i \in 2 .. Len(list) + 1 : (<<f>> \o list)[i] = list[i - 1]
      /\ Len(list) \in Nat /\ DOMAIN list = 1 .. Len(list)
  BY PrependProperties, LenProperties
<1>2. /\ old \in Seq(P) /\ Len(old) = Len(list)
      /\ \A i \in 1 .. Len(list) : old[i] = vaddr[list[Len(list) - i + 1]]
  BY ResidentProperties
<1>3. /\ new \in Seq(P) /\ Len(new) = Len(list) + 1
      /\ \A i \in 1 .. Len(list) + 1 : new[i] = vaddr2[(<<f>> \o list)[Len(list) + 1 - i + 1]]
  <2> DEFINE longer == <<f>> \o list
  <2>1. longer \in Seq(Frame) /\ Len(longer) = Len(list) + 1
    BY <1>1
  <2> HIDE DEF longer
  <2>2. /\ ResidentOf(longer, vaddr2) \in Seq(P)
        /\ Len(ResidentOf(longer, vaddr2)) = Len(longer)
        /\ \A i \in 1 .. Len(longer) : ResidentOf(longer, vaddr2)[i] = vaddr2[longer[Len(longer) - i + 1]]
    BY <2>1, ResidentProperties
  <2>3. QED
    BY <2>1, <2>2 DEF longer
<1> HIDE DEF old, new
<1>4. /\ v \in P /\ Append(old, v) \in Seq(P) /\ Len(Append(old, v)) = Len(list) + 1
      /\ \A i \in 1 .. Len(list) : Append(old, v)[i] = old[i]
      /\ Append(old, v)[Len(list) + 1] = v
  BY <1>2, AppendProperties
<1>5. ASSUME NEW i \in 1 .. Len(list) + 1
      PROVE  new[i] = Append(old, v)[i]
  <2>1. CASE i = Len(list) + 1
    BY <1>1, <1>3, <1>4, <2>1
  <2>2. CASE i # Len(list) + 1
    <3> DEFINE k == Len(list) - i + 1
    <3>1. i \in 1 .. Len(list) /\ k \in 1 .. Len(list) /\ Len(list) + 1 - i + 1 = k + 1
          /\ k + 1 \in 2 .. Len(list) + 1 /\ (k + 1) - 1 = k
      BY <1>1, <2>2
    <3>2. new[i] = vaddr2[list[k]]
      BY <1>1, <1>3, <3>1
    <3>3. list[k] \in ToSet(list)
      BY <1>1, <3>1 DEF ToSet
    <3>4. Append(old, v)[i] = vaddr[list[k]]
      BY <1>2, <1>4, <3>1
    <3>5. QED
      BY <3>2, <3>3, <3>4
  <2>3. QED
    BY <2>1, <2>2
<1>6. new = Append(old, v)
  <2>1. Len(new) = Len(Append(old, v))
    BY <1>3, <1>4
  <2>2. QED
    BY <1>3, <1>4, <1>5, <2>1, SeqEqual
<1>7. QED
  BY <1>6 DEF old, new

(* swap_out is an eviction of the oldest page; the memory keeps what it    *)
(* held.                                                                   *)
LEMMA SwapOutRefines ==
  ASSUME LInv, SwapOut
  PROVE  Abs!Evict
<1> DEFINE v == pra_vaddr[Victim]
<1>1. v \in Vpage /\ pte[v] = Victim /\ Victim \in Frame
  BY VictimHolds DEF SwapOut
<1>2. /\ pra_list \in Seq(Frame) /\ pra_vaddr \in [Frame -> Vpage \cup {Nothing}]
      /\ pra_list # << >> /\ free = {}
      /\ pra_list' = Front(pra_list) /\ pra_vaddr' = pra_vaddr
  BY DEF LInv, TInv, TypeOK, SwapOut
<1>3. Len(Resident) = Cardinality(Frame)
  BY <1>2, FullWhenNoneFree, ResidentProperties DEF Resident
<1>4. Resident' = Tail(Resident)
  BY <1>2, OldestLeaves DEF Resident
<1>5. "swapped" \notin Frame
  BY SwapAssumption
<1>6. Memory' = Memory
  <2>1. content' = content /\ disk' = [disk EXCEPT ![v] = content[Victim]]
        /\ pte' = [pte EXCEPT ![v] = "swapped"]
    BY DEF SwapOut
  <2>2. pte \in [Vpage -> Frame \cup {"absent", "swapped"}] /\ disk \in [Vpage -> Value \cup {Unknown}]
    BY DEF LInv, TInv, TypeOK
  <2>3. QED
    BY <1>1, <1>5, <2>1, <2>2 DEF Memory, Present
<1>7. lost' = lost
  BY DEF SwapOut
<1>8. QED
  BY <1>3, <1>4, <1>6, <1>7 DEF Abs!Evict, Memory, Resident, ResidentOf

(* A failed swap_out sends the oldest page to the end of the order.        *)
LEMMA SwapOutFailsRefines ==
  ASSUME LInv, SwapOutFails
  PROVE  Abs!Evict
<1>1. /\ pra_list \in Seq(Frame) /\ pra_vaddr \in [Frame -> Vpage \cup {Nothing}]
      /\ pra_list # << >> /\ free = {}
      /\ pra_list' = <<Victim>> \o Front(pra_list)
      /\ UNCHANGED <<pte, content, disk, pra_vaddr, lost>>
  BY DEF LInv, TInv, TypeOK, SwapOutFails
<1>2. Front(pra_list) \in Seq(Frame) /\ Victim \in Frame
  BY <1>1, FrontProperties DEF Victim
<1>3. Len(Resident) = Cardinality(Frame)
  BY <1>1, FullWhenNoneFree, ResidentProperties DEF Resident
<1>4. Head(Resident) = pra_vaddr[Victim]
  <2>1. Len(pra_list) \in Nat \ {0} /\ Victim = pra_list[Len(pra_list)]
    BY <1>1, FrontProperties DEF Victim
  <2>2. \A i \in 1 .. Len(pra_list) : Resident[i] = pra_vaddr[pra_list[Len(pra_list) - i + 1]]
    BY <1>1, ResidentProperties DEF Resident
  <2>3. 1 \in 1 .. Len(pra_list) /\ Len(pra_list) - 1 + 1 = Len(pra_list)
    BY <2>1
  <2>4. Resident[1] = pra_vaddr[Victim]
    BY <2>1, <2>2, <2>3
  <2>5. Resident \in Seq(Vpage \cup {Nothing}) /\ Resident # << >>
    BY <1>1, OldestLeaves, ResidentProperties DEF Resident
  <2>6. QED
    BY <2>4, <2>5
<1>5. Resident' = Append(ResidentOf(Front(pra_list), pra_vaddr), pra_vaddr[Victim])
  <2>1. pra_vaddr[Victim] \in Vpage \cup {Nothing}
    BY <1>1, <1>2
  <2>2. QED
    BY <1>1, <1>2, <2>1, NewestIsLast DEF Resident
<1>6. Resident' = Append(Tail(Resident), Head(Resident))
  BY <1>1, <1>4, <1>5, OldestLeaves DEF Resident
<1>7. Memory' = Memory
  BY <1>1 DEF Memory, Present
<1>8. QED
  BY <1>1, <1>3, <1>6, <1>7 DEF Abs!Evict, Memory, Resident, ResidentOf

(* do_pgfault's end brings a page in, with what was last written to it.    *)
LEMMA MapInRefines ==
  ASSUME SetsVaddr, LInv, NEW f \in free, MapIn(f), NEW v \in Vpage, fault = v
  PROVE  Abs!Bring(v)
<1>1. /\ f \in Frame /\ fault \in Vpage /\ f \notin ToSet(pra_list) /\ pra_list \in Seq(Frame)
      /\ pra_vaddr \in [Frame -> Vpage \cup {Nothing}]
  BY DEF LInv, TInv, TypeOK, ListExact, MapIn
<1>2. /\ pra_list' = <<f>> \o pra_list
      /\ pra_vaddr' = [pra_vaddr EXCEPT ![f] = fault]
      /\ pte' = [pte EXCEPT ![fault] = f]
      /\ Loaded(f) /\ disk' = disk
  BY DEF MapIn, MapSwappable
<1>3. ~Present(fault)
  BY <1>1, SwapAssumption DEF LInv, TInv, FaultAbsent
<1>4. ~Abs!IsResident(v)
  BY <1>1, <1>3, ResidentIsPresent
<1>5. Len(Resident) < Cardinality(Frame)
  BY <1>1, FullWhenNoneFree, ResidentProperties DEF Resident
<1>6. Resident' = Append(Resident, v)
  <2>1. pra_vaddr' \in [Frame -> Vpage \cup {Nothing}] /\ pra_vaddr'[f] = fault
    BY <1>1, <1>2
  <2>2. \A g \in ToSet(pra_list) : pra_vaddr'[g] = pra_vaddr[g]
    BY <1>1, <1>2 DEF LInv, ListExact
  <2>3. ResidentOf(<<f>> \o pra_list, pra_vaddr') = Append(ResidentOf(pra_list, pra_vaddr), pra_vaddr'[f])
    BY <1>1, <2>1, <2>2, NewestIsLast
  <2>4. QED
    BY <1>2, <2>1, <2>3 DEF Resident
<1>7. \A w \in Vpage : pte[w] # f
  BY DEF LInv, ListExact
<1>8. /\ pte \in [Vpage -> Frame \cup {"absent", "swapped"}] /\ content \in [Frame -> Value]
      /\ "swapped" \notin Frame /\ Unknown \notin Value
  BY SwapAssumption DEF LInv, TInv, TypeOK
<1>9. ASSUME pte[fault] = "swapped", NEW y \in Value, content' = [content EXCEPT ![f] = y]
      PROVE  Memory[v] \in Value /\ Memory' = [Memory EXCEPT ![v] = y]
  <2>1. Memory[v] = disk[fault] /\ disk[fault] \in Value
    BY <1>1, <1>3, <1>9 DEF Memory, LInv, TInv, SwappedKnown
  <2>2. Memory' = [Memory EXCEPT ![v] = y]
    BY <1>1, <1>2, <1>3, <1>7, <1>8, <1>9 DEF Memory, Present
  <2>3. QED
    BY <2>1, <2>2
<1>10. CASE pte[fault] = "swapped" /\ content' = [content EXCEPT ![f] = disk[fault]] /\ lost' = lost
  <2>1. Memory[v] = disk[fault] /\ disk[fault] \in Value
    BY <1>1, <1>3, <1>10 DEF Memory, LInv, TInv, SwappedKnown
  <2>2. Memory' = [Memory EXCEPT ![v] = disk[fault]]
    BY <1>9, <1>10, <2>1
  <2>3. Memory' = Memory
    BY <2>1, <2>2 DEF Memory
  <2>4. QED
    BY <1>4, <1>5, <1>6, <1>8, <1>10, <2>1, <2>3 DEF Abs!Bring, Memory, Resident, ResidentOf
<1>11. ASSUME pte[fault] = "swapped", NEW y \in Value,
              content' = [content EXCEPT ![f] = y], lost' = lost \cup {fault}
       PROVE  Abs!Bring(v)
  <2>1. Memory[v] \in Value /\ Memory' = [Memory EXCEPT ![v] = y]
    BY <1>9, <1>11
  <2>2. QED
    BY <1>4, <1>5, <1>6, <1>8, <1>11, <2>1 DEF Abs!Bring, Memory, Resident, ResidentOf
<1>12. CASE pte[fault] = "absent" /\ content' = content /\ lost' = lost
  <2>1. pte[fault] # "swapped"
    BY <1>12
  <2>2. Memory[v] = Unknown
    BY <1>1, <1>3, <2>1 DEF Memory
  <2>3. Memory' = [Memory EXCEPT ![v] = content[f]] /\ content[f] \in Value
    BY <1>1, <1>2, <1>3, <1>7, <1>8, <1>12, <2>1 DEF Memory, Present
  <2>4. QED
    BY <1>4, <1>5, <1>6, <1>12, <2>2, <2>3 DEF Abs!Bring, Memory, Resident, ResidentOf
<1>13. QED
  BY <1>2, <1>10, <1>11, <1>12 DEF Loaded

(* Swapping implements the memory of VirtualMemory: no page loses what was *)
(* written to it but by a read of swap_in that fails (the page is then in  *)
(* lost), at most as many pages are resident as there are frames,  *)
(* and they leave in the order in which they came (hw15 kern/mm).          *)
THEOREM SwapKeepsPromise == SetsVaddr => (Spec => KeepsPromise)
<1> SUFFICES ASSUME SetsVaddr
             PROVE  Spec => KeepsPromise
  OBVIOUS
<1>1. Init => Abs!Init
  BY SwapAssumption, EmptySeq DEF Init, Abs!Init, Present, Reverse
<1>2. LInv /\ [Next]_vars => [Abs!Next]_(Abs!vars)
  <2> SUFFICES ASSUME LInv, [Next]_vars
               PROVE  [Abs!Next]_(Abs!vars)
    OBVIOUS
  <2>1. ASSUME NEW v \in Vpage, NEW x \in Value, Write(v, x)
        PROVE  Abs!Next
    BY <2>1, WriteRefines DEF Abs!Next
  <2>2. CASE SwapOut \/ SwapOutFails
    BY <2>2, SwapOutRefines, SwapOutFailsRefines DEF Abs!Next
  <2>3. ASSUME NEW f \in free, MapIn(f)
        PROVE  Abs!Next
    <3>1. PICK v \in Vpage : fault = v
      BY <2>3 DEF MapIn, LInv, TInv, TypeOK
    <3>2. Abs!Bring(v)
      BY <2>3, <3>1, MapInRefines
    <3>3. QED
      BY <3>2 DEF Abs!Next
  <2>4. CASE UNCHANGED <<pte, content, disk, pra_list, pra_vaddr, lost>>
    BY <2>4 DEF Abs!vars, Present
  <2>5. QED
    BY <2>1, <2>2, <2>3, <2>4 DEF Next, Fault, vars
<1>3. QED
  BY <1>1, <1>2, ListInvariant, PTL DEF Spec, KeepsPromise, Abs!Spec
=============================================================================
