----------------------------- MODULE KernelParts -----------------------------
(***************************************************************************)
(* The parts of the kernels of hw13 and hw15 that work by themselves, and  *)
(* the processor that hw3 emulates: one of them, chosen at the start,      *)
(* runs, and the variables of the others keep a fixed value.               *)
(***************************************************************************)
EXTENDS Integers, Sequences

CONSTANTS
  npage, Usable, NoPage,                                        \* default_pmm.c
  SLOB_UNIT, PAGE_SIZE, BIGBLOCK, NHeapPage, BlockSize,         \* kmalloc.c
  Modifiers, ModifierBytes,                                     \* console.c, keyboard
  LetterKeys, LetterBytes, CONSBUFSIZE, BUFSIZE, CRT_COLS, CRT_ROWS, Serial, MaxArrived,
  PAGE_NSECT, Slot, Content, MaxOps,                            \* ide.c
  SECTSIZE, MaxOffset, MaxSize, MaxDepth,                       \* bootmain.c, init.c
  Vpages, memsz, TPAGES, NEntry, Directories, Tables, KStack, Slots, Handlers   \* em.c

VARIABLES
  program,
  handed, free_list, nr_free, property, reserved, valid, lent, result,
  heap, pages, bigblocks, given, panicked,
  kbd, shift, rebooted, held, locked,
  com1, irq, cons, monitor, line, crt, arrived, taken,
  device, disk, op, swapped, ops,
  image, memory, step, irq_mask, did_init, hardware, idt, procs, enabled, saved, ready,
  entry, tpage, tables, pdir, paging, user, iena, ipend, stack, halted, fast

Pmm  == INSTANCE FirstFit
Slob == INSTANCE SlobHeap WITH npage <- NHeapPage, Size <- BlockSize, held <- given
Kbd  == INSTANCE Console WITH Key <- Modifiers, MaxWaiting <- ModifierBytes
Con  == INSTANCE Console WITH Key <- LetterKeys, MaxWaiting <- LetterBytes
Ide  == INSTANCE Disk WITH Page <- Content
Up   == INSTANCE Boot WITH taken <- ready, current <- procs
Em   == INSTANCE Emulator WITH MaxDepth <- Handlers

ASSUME KernelPartsAssumption ==
  /\ Pmm!FirstFitAssumption /\ Slob!SlobHeapAssumption /\ Kbd!KeyboardAssumption /\ Con!ConsoleAssumption
  /\ Ide!DiskAssumption /\ Up!BootAssumption /\ Em!EmulatorAssumption

Idle(v) == v = "idle"

PartsInit ==
  /\ program \in {"firstfit", "slob", "keyboard", "console", "disk", "boot", "emulator"}
  /\ Pmm!Init
  /\ IF program = "slob" THEN Slob!Init
     ELSE Idle(heap) /\ Idle(pages) /\ Idle(bigblocks) /\ Idle(given) /\ Idle(panicked)
  /\ IF program \in {"keyboard", "console"} THEN Kbd!Init
     ELSE Idle(kbd) /\ Idle(shift) /\ Idle(rebooted) /\ Idle(held) /\ Idle(locked)
  /\ IF program = "console" THEN Con!ScreenInit
     ELSE /\ Idle(com1) /\ Idle(irq) /\ Idle(cons) /\ Idle(monitor)
          /\ Idle(line) /\ Idle(crt) /\ Idle(arrived) /\ Idle(taken)
  /\ IF program = "disk" THEN Ide!Init
     ELSE Idle(device) /\ Idle(disk) /\ Idle(op) /\ Idle(swapped) /\ Idle(ops)
  /\ IF program = "boot" THEN Up!Init
     ELSE /\ Idle(image) /\ Idle(memory) /\ Idle(step) /\ Idle(irq_mask) /\ Idle(did_init) /\ Idle(hardware)
          /\ Idle(idt) /\ Idle(procs) /\ Idle(enabled) /\ Idle(saved) /\ Idle(ready)
  /\ IF program = "emulator" THEN Em!Init
     ELSE /\ Idle(entry) /\ Idle(tpage) /\ Idle(tables) /\ Idle(pdir) /\ Idle(paging) /\ Idle(user)
          /\ Idle(iena) /\ Idle(ipend) /\ Idle(stack) /\ Idle(halted) /\ Idle(fast)

pmmvars  == <<handed, free_list, nr_free, property, reserved, valid, lent, result>>
slobvars == <<heap, pages, bigblocks, given, panicked>>
kbdvars  == <<kbd, shift, rebooted, held, locked>>
consvars == <<com1, irq, cons, monitor, line, crt, arrived, taken>>
diskvars == <<device, disk, op, swapped, ops>>
bootvars == <<image, memory, step, irq_mask, did_init, hardware, idt, procs, enabled, saved, ready>>
emvars   == <<entry, tpage, tables, pdir, paging, user, iena, ipend, stack, halted, fast>>
allvars  == <<program, pmmvars, slobvars, kbdvars, consvars, diskvars, bootvars, emvars>>

PartsNext ==
  \/ /\ program = "firstfit" /\ Pmm!Next
     /\ UNCHANGED <<program, slobvars, kbdvars, consvars, diskvars, bootvars, emvars>>
  \/ /\ program = "slob" /\ Slob!Next
     /\ UNCHANGED <<program, pmmvars, kbdvars, consvars, diskvars, bootvars, emvars>>
  \/ /\ program = "keyboard" /\ Kbd!Next
     /\ UNCHANGED <<program, pmmvars, slobvars, consvars, diskvars, bootvars, emvars>>
  \/ /\ program = "console" /\ Con!ConsoleNext
     /\ UNCHANGED <<program, pmmvars, slobvars, diskvars, bootvars, emvars>>
  \/ /\ program = "disk" /\ Ide!Next
     /\ UNCHANGED <<program, pmmvars, slobvars, kbdvars, consvars, bootvars, emvars>>
  \/ /\ program = "boot" /\ Up!Next
     /\ UNCHANGED <<program, pmmvars, slobvars, kbdvars, consvars, diskvars, emvars>>
  \/ /\ program = "emulator" /\ Em!Next
     /\ UNCHANGED <<program, pmmvars, slobvars, kbdvars, consvars, diskvars, bootvars>>

PartsSpec == PartsInit /\ [][PartsNext]_allvars

-----------------------------------------------------------------------------
(* default_pmm.c: the free list is exact and free blocks are joined; no    *)
(* page is lost or owned twice.                                            *)
PagesExact == Pmm!TypeOK /\ Pmm!ListExact /\ Pmm!BlocksJoined

(* default_pmm.c: the manager is an allocator of the lowest runs, and      *)
(* refuses only what cannot be had.                                        *)
KeepsPromise == Pmm!KeepsPromise

(* kmalloc.c: no unit is lost or owned twice, the heap takes pages only     *)
(* when it must, and it keeps its promise.                                 *)
HeapPromise ==
  /\ [](program = "slob" => Slob!HeapExact)
  /\ [][program = "slob" => Slob!Thrifty /\ Slob!KeepsPromise]_allvars

(* console.c: modifiers follow the keys, characters come in order, and the *)
(* screen shows what readline holds.                                       *)
ConsoleExact == /\ program = "keyboard" => Kbd!ModifiersExact
                /\ program = "console" => Con!InputInOrder /\ Con!EchoExact

(* ide.c, bootmain.c, init.c: what the disk delivers, to the swapper and   *)
(* to the loader, and when interrupts come; em.c: translations that are    *)
(* cached are those of the page tables, and interrupts that wait come in.  *)
DevicesExact ==
  /\ program = "disk" => Ide!ReadExact
  /\ program = "boot" => Up!BootExact
  /\ program = "emulator" => Em!EmulatorExact
=============================================================================
