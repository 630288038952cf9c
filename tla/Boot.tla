-------------------------------- MODULE Boot --------------------------------
(***************************************************************************)
(* How hw15 comes up: boot/bootmain.c reads the kernel from the disk,      *)
(* kern_init (kern/init/init.c) prepares the devices one after another,    *)
(* and then interrupts come: masked by the interrupt controller            *)
(* (kern/driver/picirq.c) and by local_intr_save (kern/sync/sync.h), whose *)
(* sections may be nested, as in wakeup_proc within do_exit.               *)
(***************************************************************************)
EXTENDS Integers, Sequences

CONSTANTS
  SECTSIZE,
  MaxOffset,     \* of a segment in the image
  MaxSize,       \* of a segment
  MaxDepth       \* of nested sections

BootAssumption == SECTSIZE \in Nat \ {0} /\ {MaxOffset, MaxSize, MaxDepth} \subseteq Nat

IRQ == {"timer", "kbd", "slave", "com1", "ide1", "ide2"}
NoByte == -1

(* Two segments of an image, as the linker lays them out: upwards, and      *)
(* those that may share a sector at the same distance from their place in  *)
(* the image.  memsz counts the bss as well.                               *)
Segment == [off : 0 .. MaxOffset, gap : {0, SECTSIZE}, filesz : 1 .. MaxSize, bss : 0 .. 1]
Images == {s \in Segment \X Segment : s[1].off + s[1].filesz <= s[2].off /\ s[1].gap <= s[2].gap
                                      /\ s[1].bss = 0}
Place(s) == SECTSIZE + s.off + s.gap

VARIABLES
  image,         \* the program headers
  memory,        \* of each address the byte of the image it holds
  step,          \* the steps of kern_init made
  irq_mask,      \* the lines that are to be open
  did_init,
  hardware,      \* the lines that are open
  idt, current,  \* idt_init, and proc_init, are over
  enabled,       \* FL_IF of eflags
  saved,         \* the intr_flag of each section the kernel is in
  taken          \* the last interrupt came at a place where it may

vars == <<image, memory, step, irq_mask, did_init, hardware, idt, current, enabled, saved, taken>>

Init ==
  /\ image \in Images
  /\ memory = [a \in 0 .. MaxOffset + MaxSize + 4 * SECTSIZE |-> NoByte]
  /\ step = 0
  /\ irq_mask = {"slave"}
  /\ did_init = FALSE /\ hardware = {}
  /\ idt = FALSE /\ current = FALSE /\ enabled = FALSE
  /\ saved = << >>
  /\ taken = TRUE

-----------------------------------------------------------------------------
Start(va, offset) == va - (offset % SECTSIZE)
(* readseg: whole sectors from the one that holds offset on.               *)
Readseg(m, va, count, offset) ==
  LET start == Start(va, offset)
      sectors == (va + count - start + SECTSIZE - 1) \div SECTSIZE
      first == (offset \div SECTSIZE) * SECTSIZE
  IN  [a \in DOMAIN m |->
         IF a \in start .. start + sectors * SECTSIZE - 1 THEN first + a - start ELSE m[a]]

Bootmain ==
  /\ step = 0
  /\ memory' = Readseg(Readseg(memory, Place(image[1]), image[1].filesz + image[1].bss, image[1].off),
                       Place(image[2]), image[2].filesz + image[2].bss, image[2].off)
  /\ step' = 1
  /\ UNCHANGED <<image, irq_mask, did_init, hardware, idt, current, enabled, saved, taken>>

(* pic_setmask and pic_enable.                                             *)
PicEnable(lines) ==
  /\ irq_mask' = irq_mask \cup lines
  /\ hardware' = IF did_init THEN irq_mask' ELSE hardware

At(n) == step = n /\ step' = n + 1

(* cons_init: without a serial port its line stays shut.                   *)
ConsInit ==
  /\ At(1)
  /\ \E lines \in {{"kbd"}, {"kbd", "com1"}} : PicEnable(lines)
  /\ UNCHANGED <<image, memory, did_init, idt, current, enabled, saved, taken>>
(* pic_init opens the lines asked for before.                              *)
PicInit ==
  /\ At(2) /\ did_init' = TRUE /\ hardware' = irq_mask
  /\ UNCHANGED <<image, memory, irq_mask, idt, current, enabled, saved, taken>>
IdtInit ==
  /\ At(3) /\ idt' = TRUE
  /\ UNCHANGED <<image, memory, irq_mask, did_init, hardware, current, enabled, saved, taken>>
ProcInit ==
  /\ At(4) /\ current' = TRUE
  /\ UNCHANGED <<image, memory, irq_mask, did_init, hardware, idt, enabled, saved, taken>>
IdeInit ==
  /\ At(5) /\ PicEnable({"ide1", "ide2"})
  /\ UNCHANGED <<image, memory, did_init, idt, current, enabled, saved, taken>>
ClockInit ==
  /\ At(6) /\ PicEnable({"timer"})
  /\ UNCHANGED <<image, memory, did_init, idt, current, enabled, saved, taken>>
IntrEnable ==
  /\ At(7) /\ enabled' = TRUE
  /\ UNCHANGED <<image, memory, irq_mask, did_init, hardware, idt, current, saved, taken>>

(* local_intr_save, in kern_init too, and local_intr_restore.              *)
LocalIntrSave ==
  /\ step > 0 /\ Len(saved) < MaxDepth
  /\ saved' = <<enabled>> \o saved
  /\ enabled' = FALSE
  /\ UNCHANGED <<image, memory, step, irq_mask, did_init, hardware, idt, current, taken>>
(* A slip: the end of a section always lets interrupts in.                 *)
Restored_Always(flag) == TRUE
Restored(flag) == IF flag THEN TRUE ELSE enabled
LocalIntrRestore ==
  /\ saved # << >>
  /\ saved' = Tail(saved)
  /\ enabled' = Restored(Head(saved))
  /\ UNCHANGED <<image, memory, step, irq_mask, did_init, hardware, idt, current, taken>>

(* A line that is open interrupts (and the handler returns).               *)
Interrupt ==
  /\ enabled /\ hardware # {}
  /\ taken' = (idt /\ current /\ saved = << >> /\ step = 8)
  /\ UNCHANGED <<image, memory, step, irq_mask, did_init, hardware, idt, current, enabled, saved>>

Next ==
  \/ Bootmain \/ (saved = << >> /\ (ConsInit \/ PicInit \/ IdtInit \/ ProcInit \/ IdeInit \/ ClockInit \/ IntrEnable))
  \/ LocalIntrSave \/ LocalIntrRestore \/ Interrupt

Spec == Init /\ [][Next]_vars

-----------------------------------------------------------------------------
(* The kernel is in memory as it is in the image, although readseg copies  *)
(* whole sectors; interrupts come only when the kernel is ready for them   *)
(* and outside of all sections; in the end every line asked for is open.   *)
BootExact ==
  /\ step > 0 => \A i \in 1 .. 2 : \A b \in 0 .. image[i].filesz - 1 :
                   memory[Place(image[i]) + b] = image[i].off + b
  /\ taken
  /\ step = 8 => hardware = irq_mask /\ IRQ \ {"com1"} \subseteq hardware
  /\ step = 8 /\ saved = << >> => enabled
=============================================================================
