------------------------------ MODULE Emulator ------------------------------
(***************************************************************************)
(* The processor of hw3/em.c as far as the kernels that run on it depend   *)
(* on it: the cached translations of virtual pages, page faults, modes and *)
(* interrupts.  The four tables trk, twk, tru and twu hold one value, p,   *)
(* for a page or nothing, so a page's entry in the four is one record      *)
(* here.  The page in which the stack pointer lies is used without any     *)
(* look-up while fsp, the room up to its end, is not zero; while it is,    *)
(* the pointer may lie anywhere here.  The accessed bit, which nothing     *)
(* reads, is left out, as are instructions that only compute.  Kernels     *)
(* change the tables of a directory before they load it.                   *)
(***************************************************************************)
EXTENDS Naturals, Sequences, FiniteSets

CONSTANTS
  Vpages,        \* the virtual pages, numbers
  memsz,         \* the number of physical pages
  TPAGES,        \* how many translations are cached
  NEntry,       \* the number of entries of the page table
  Directories,   \* the page directories of the kernel
  Tables,        \* what each of them and its page table hold at first
  KStack,        \* the page of the kernel's stack
  Slots,         \* the values of 8 bytes that a page holds
  MaxDepth       \* bound: handlers that interrupt each other

VARIABLES
  entry, tpage,                        \* the cached translations
  tables, pdir, paging,                \* page tables in memory
  user, iena, ipend, stack, halted,    \* the state of the processor; the frames on the kernel's stack
  fast                                 \* the page of the stack pointer: its frame, and fsp

vars == <<entry, tpage, tables, pdir, paging, user, iena, ipend, stack, halted, fast>>

Flags == SUBSET {"P", "W", "U", "D"}
PageTable == [0 .. NEntry - 1 -> [frame : Nat, flags : Flags]]

EmulatorAssumption ==
  /\ {memsz, TPAGES, NEntry, Slots} \subseteq Nat \ {0}
  /\ Vpages \subseteq Nat /\ KStack \in Vpages
  /\ Tables \in [Directories -> [pde : [{v \div NEntry : v \in Vpages} -> Flags], pte : PageTable]]

None == [p |-> memsz, writable |-> FALSE, userable |-> FALSE]
Closed == [v |-> KStack, p |-> memsz, room |-> 0]

Init ==
  /\ entry = [v \in Vpages |-> None] /\ tpage = <<>>
  /\ tables = Tables /\ pdir \in Directories /\ paging = FALSE
  /\ user = FALSE /\ iena = FALSE /\ ipend = {} /\ stack = <<>> /\ halted = FALSE
  /\ fast = Closed

(* What a look-up works on and leaves.                                     *)
Cache == [entry |-> entry, tpage |-> tpage, pte |-> tables[pdir].pte, found |-> TRUE]

flush(c) == [c EXCEPT !.entry = [v \in Vpages |-> None], !.tpage = <<>>]

setpage(c, v, p, writable, userable) ==
  IF p >= memsz THEN [c EXCEPT !.found = FALSE]
  ELSE LET new  == c.entry[v] = None
           room == IF new /\ Len(c.tpage) >= TPAGES THEN flush(c) ELSE c
       IN [room EXCEPT !.tpage = IF new THEN Append(@, v) ELSE @,
                       !.entry[v] = [p |-> p, writable |-> writable, userable |-> userable]]

Pde(v) == tables[pdir].pde[v \div NEntry]
Both(c, v) == c.pte[v % NEntry].flags \cap Pde(v)
Allowed(c, v, mode) == "P" \in Both(c, v) /\ (mode => "U" \in Both(c, v))

(* A page becomes writable with the first write only, so that it is marked *)
(* dirty.                                                                  *)
rlook(c, v, mode) ==
  LET pte == c.pte[v % NEntry] IN
  IF ~paging THEN setpage(c, v, v, TRUE, TRUE)
  ELSE IF ~Allowed(c, v, mode) THEN [c EXCEPT !.found = FALSE]
  ELSE setpage(c, v, pte.frame, "D" \in pte.flags /\ "W" \in Both(c, v), "U" \in Both(c, v))

wlook(c, v, mode) ==
  IF ~paging THEN setpage(c, v, v, TRUE, TRUE)
  ELSE IF ~(Allowed(c, v, mode) /\ "W" \in Both(c, v)) THEN [c EXCEPT !.found = FALSE]
  ELSE setpage([c EXCEPT !.pte[v % NEntry].flags = @ \union {"D"}],
               v, c.pte[v % NEntry].frame, TRUE, "U" \in Both(c, v))

Readable(c, v, mode) == c.entry[v] # None /\ (mode => c.entry[v].userable)
Writable(c, v, mode) == c.entry[v].writable /\ (mode => c.entry[v].userable)
ForRead(c, v, mode)  == IF Readable(c, v, mode) THEN c ELSE rlook(c, v, mode)
ForWrite(c, v, mode) == IF Writable(c, v, mode) THEN c ELSE wlook(c, v, mode)

(* fixsp, with the stack pointer at slot o of page v.                      *)
Fixsp(c, v, o) ==
  IF Writable(c, v, user) THEN [v |-> v, p |-> c.entry[v].p, room |-> Slots - o] ELSE Closed

Keep(c) == entry' = c.entry /\ tpage' = c.tpage /\ tables' = [tables EXCEPT ![pdir].pte = c.pte]

(* interrupt: the old mode is pushed; without a kernel stack the processor *)
(* stops.  "from" is the mode it came from, "below" the rest of the stack. *)
Enter(c, from, below) ==
  LET k == ForWrite(c, KStack, FALSE) IN
  /\ Len(below) < MaxDepth
  /\ Keep(k) /\ user' = FALSE /\ fast' = Closed
  /\ stack' = (IF k.found THEN Append(below, from) ELSE below)
  /\ halted' = ~k.found

Exception(c) ==
  /\ UNCHANGED <<iena, ipend, pdir, paging>>
  /\ \/ iena /\ Enter(c, user, stack)
     \/ ~iena /\ halted' = TRUE /\ Keep(c) /\ UNCHANGED <<user, stack, fast>>

Reach(c, window) ==
  \/ /\ c.found /\ Keep(c) /\ fast' = window
     /\ UNCHANGED <<user, iena, ipend, stack, halted, pdir, paging>>
  \/ ~c.found /\ Exception(c)

(* Memory at a given address, and locals outside the fast page.            *)
Load(v)  == ~Readable(Cache, v, user) /\ Reach(rlook(Cache, v, user), fast)
Store(v) == ~Writable(Cache, v, user) /\ Reach(wlook(Cache, v, user), fast)

(* MCPY and MCMP, for a piece of memory that lies in one page on either    *)
(* side: the second look-up may flush what the first has found.  A piece   *)
(* to read whose page is cached leaves a Store or a Load.                  *)
MCPY(a, b) ==
  LET from == rlook(Cache, b, user)
  IN  ~Readable(Cache, b, user) /\ Reach(IF from.found THEN ForWrite(from, a, user) ELSE from, fast)
MCMP(a, b) ==
  LET one == rlook(Cache, b, user)
  IN  ~Readable(Cache, b, user) /\ Reach(IF one.found THEN ForRead(one, a, user) ELSE one, fast)

-----------------------------------------------------------------------------
(* The stack.  Slot o of page v is where an instruction finds the pointer, *)
(* where it is not known from the fast page.                               *)
Move(room) ==
  /\ fast' = IF room = 0 THEN Closed ELSE [fast EXCEPT !.room = room]
  /\ UNCHANGED <<entry, tpage, tables, pdir, paging, user, iena, ipend, stack, halted>>
Await == fast.room = 0

(* A local, while there is no fast page: its page becomes fast, when it is *)
(* also the pointer's.  Arithmetic reads one, and may find that it would   *)
(* divide by zero.                                                         *)
ADDL(v, o) == LET c == ForRead(Cache, v, user) IN Await /\ Reach(c, Fixsp(c, v, o))
SL(v, o) == LET c == ForWrite(Cache, v, user) IN Await /\ Reach(c, Fixsp(c, v, o))
DIVL(v) == LET c == ForRead(Cache, v, user) IN c.found /\ Exception(c)

(* A fast page has no room below its first slot.                           *)
PushFast == fast.room \in 1 .. Slots - 1 /\ Move(fast.room + 1)
Lower(v, o) == Await \/ (fast.room = Slots /\ v + 1 = fast.v /\ o = Slots - 1)
PSHA(v, o) == LET c == ForWrite(Cache, v, user) IN Lower(v, o) /\ Reach(c, Fixsp(c, v, o))
JSR(v) == Lower(v, Slots - 1) /\ Reach(ForWrite(Cache, v, user), Closed)

POPA(v, o) ==
  LET c == ForRead(Cache, v, user)
      up == (v * Slots) + o + 1
  IN  IF Await THEN up \div Slots \in Vpages /\ Reach(c, Fixsp(c, up \div Slots, up % Slots))
      ELSE Move(fast.room - 1)

(* The pointer moves up over the locals and the return address, by any     *)
(* distance, or to any place.                                              *)
LEV(v) ==
  \/ \E left \in 0 .. fast.room - 1 : Move(left)
  \/ Reach(ForRead(Cache, v, user), Closed)
ENT(o) == ~Await /\ Move(Slots - o)
SSP(v, o) ==
  /\ fast' = Fixsp(Cache, v, o)
  /\ UNCHANGED <<entry, tpage, tables, pdir, paging, user, iena, ipend, stack, halted>>

-----------------------------------------------------------------------------
(* A privileged instruction in user mode, a trap, or an illegal one.       *)
Trap == Exception(Cache)

(* What the devices have is looked at between instructions, and by IDLE: a *)
(* character, unless an earlier one waits to be delivered, and the timer,  *)
(* which is taken to run always, with any period.  Either comes in in the  *)
(* same way; the character itself is left out.                             *)
Deliver ==
  /\ iena /\ iena' = FALSE /\ Enter(Cache, user, stack)
  /\ UNCHANGED <<ipend, pdir, paging>>
Pend(key, late) ==
  /\ ~iena
  /\ key => "FKEYBD" \notin ipend
  /\ ipend' = ipend \union (IF key THEN {"FKEYBD"} ELSE {}) \union (IF late THEN {"FTIMER"} ELSE {})
  /\ UNCHANGED <<entry, tpage, tables, pdir, paging, user, iena, stack, halted, fast>>

(* ipend & -ipend                                                          *)
Lowest == IF "FTIMER" \in ipend THEN "FTIMER" ELSE "FKEYBD"

CLI ==
  /\ ~user /\ iena' = FALSE
  /\ UNCHANGED <<entry, tpage, tables, pdir, paging, user, ipend, stack, halted, fast>>
STI ==
  /\ ~user
  /\ \/ /\ ipend # {} /\ ipend' = ipend \ {Lowest} /\ iena' = FALSE
        /\ Enter(Cache, user, stack)
     \/ /\ ipend = {} /\ iena' = TRUE
        /\ UNCHANGED <<entry, tpage, tables, ipend, user, stack, halted, fast>>
  /\ UNCHANGED <<pdir, paging>>

(* Interrupts are enabled again, or the next one that waits is taken.      *)
RTI ==
  LET k    == ForRead(Cache, KStack, FALSE)
      back == stack[Len(stack)]
      rest == SubSeq(stack, 1, Len(stack) - 1) IN
  /\ ~user /\ stack # <<>>
  /\ UNCHANGED <<pdir, paging>>
  /\ IF ~k.found THEN halted' = TRUE /\ Keep(k) /\ fast' = Closed /\ UNCHANGED <<user, iena, ipend, stack>>
     ELSE IF ~iena /\ ipend # {}
       THEN ipend' = ipend \ {Lowest} /\ iena' = FALSE /\ Enter(k, back, rest)
       ELSE Keep(k) /\ user' = back /\ stack' = rest /\ iena' = TRUE /\ fast' = Closed
            /\ UNCHANGED <<ipend, halted>>

(* Another directory, or paging on and off: no translation stays, nor the  *)
(* fast page.                                                              *)
Remap(d, on) ==
  /\ ~user /\ pdir' = d /\ paging' = on
  /\ entry' = flush(Cache).entry /\ tpage' = <<>> /\ fast' = Closed
  /\ UNCHANGED <<tables, user, iena, ipend, stack, halted>>
PDIR(d) == Remap(d, paging)
SPAG(a) == Remap(pdir, a)

(* A kernel begins a user program with a frame that it writes itself.      *)
Begin ==
  /\ ~user /\ stack = <<>> /\ Writable(Cache, KStack, FALSE)
  /\ stack' = <<TRUE>>
  /\ UNCHANGED <<entry, tpage, tables, pdir, paging, user, iena, ipend, halted, fast>>

Next ==
  /\ ~halted
  /\ \/ \E v \in Vpages : Load(v) \/ Store(v)
     \/ Trap \/ Deliver \/ CLI \/ STI \/ RTI \/ Begin
     \/ \E a, b \in Vpages : MCPY(a, b) \/ MCMP(a, b)
     \/ PushFast
     \/ \E v \in Vpages : JSR(v) \/ LEV(v) \/ DIVL(v)
     \/ \E o \in 0..Slots - 1 :
          \/ ENT(o)
          \/ \E v \in Vpages : ADDL(v, o) \/ SL(v, o) \/ PSHA(v, o) \/ POPA(v, o) \/ SSP(v, o)
     \/ \E key, late \in BOOLEAN : Pend(key, late)
     \/ \E d \in Directories : PDIR(d)
     \/ \E a \in BOOLEAN : SPAG(a)

-----------------------------------------------------------------------------
(* Whatever is cached is what the tables say now, with the rights of both  *)
(* levels; a page that can be written without a look-up is marked dirty;   *)
(* flush finds every cached page.                                          *)
TranslationsExact ==
  /\ Len(tpage) <= TPAGES
  /\ Len(tpage) = Cardinality({v \in Vpages : entry[v] # None})
  /\ \A v \in Vpages : entry[v] # None =>
       /\ \E i \in 1..Len(tpage) : tpage[i] = v
       /\ IF paging
          THEN LET pte == tables[pdir].pte[v % NEntry] IN
               /\ entry[v].p = pte.frame /\ "P" \in Both(Cache, v)
               /\ entry[v].userable <=> "U" \in Both(Cache, v)
               /\ entry[v].writable => "W" \in Both(Cache, v) /\ "D" \in pte.flags
          ELSE entry[v] = [p |-> v, writable |-> TRUE, userable |-> TRUE]

(* Through the fast page a program reaches what the tables say now, and    *)
(* may, in its mode, write to it: also when the list of translations has   *)
(* been cleared meanwhile.                                                 *)
FastExact ==
  /\ fast.room \in 0..Slots
  /\ fast.room > 0 =>
       IF paging
       THEN LET pte == tables[pdir].pte[fast.v % NEntry] IN
            /\ fast.p = pte.frame /\ pte.frame < memsz /\ "D" \in pte.flags
            /\ {"P", "W"} \subseteq Both(Cache, fast.v) /\ (user => "U" \in Both(Cache, fast.v))
       ELSE fast.p = fast.v

(* No interrupt waits while interrupts are enabled; a user program runs    *)
(* with interrupts and with nothing left on the kernel's stack.            *)
InterruptsKept ==
  /\ iena => ipend = {}
  /\ user => iena /\ stack = <<>>
  /\ \A i \in 2..Len(stack) : ~stack[i]

EmulatorExact == TranslationsExact /\ FastExact /\ InterruptsKept
=============================================================================
