-------------------------------- MODULE Disk --------------------------------
(***************************************************************************)
(* The IDE disk of hw15, kern/driver/ide.c, polled a sector at a time, and *)
(* its users: swapfs_write and swapfs_read (kern/fs/swapfs.c).  The disk   *)
(* works by itself: it is busy for a while after a command and after each  *)
(* sector, and may fail.  The interrupts it sends are not used.            *)
(***************************************************************************)
EXTENDS Integers, Sequences, FiniteSets

CONSTANTS
  PAGE_NSECT,    \* sectors of a page
  Slot,          \* the places of pages on the swap device, from 0 on
  Page,          \* what a page may hold
  MaxOps         \* a bound: the transfers made

DiskAssumption == PAGE_NSECT \in Nat \ {0} /\ MaxOps \in Nat /\ Slot \subseteq Nat

VARIABLES
  device,        \* the sectors: of which page and which part of it
  disk,          \* the controller: busy, err, the sector it is at, how many are left,
                 \* and the data on the way to that sector
  op,            \* the driver: the transfer under way, and where it is
  swapped,       \* history: what the page of each slot held when a write returned 0
  ops            \* transfers made

vars == <<device, disk, op, swapped, ops>>

Blank == [page |-> "blank", part |-> 0]
Sectors == UNION {s * PAGE_NSECT .. (s + 1) * PAGE_NSECT - 1 : s \in Slot}
Quiet == [busy |-> FALSE, err |-> FALSE, secno |-> 0, left |-> 0, data |-> Blank]
NoOp == [pc |-> "idle", cmd |-> "none", slot |-> 0, page |-> << >>, nsecs |-> 0, ret |-> 0]

Init ==
  /\ device = [s \in Sectors |-> Blank]
  /\ disk = Quiet
  /\ op = NoOp
  /\ swapped = [s \in Slot |-> "none"]
  /\ ops = 0

PageOf(v) == [i \in 1 .. PAGE_NSECT |-> [page |-> v, part |-> i]]

(* swapfs_write and swapfs_read begin a transfer.                          *)
Begin(cmd, slot, page) ==
  /\ op.pc = "idle" /\ ops < MaxOps
  /\ op' = [pc |-> "setup", cmd |-> cmd, slot |-> slot, page |-> page, nsecs |-> PAGE_NSECT, ret |-> 0]
  /\ ops' = ops + 1
  /\ UNCHANGED <<device, disk, swapped>>
SwapfsWrite(slot, v) == Begin("write", slot, PageOf(v))
SwapfsRead(slot) == swapped[slot] # "none" /\ Begin("read", slot, << >>)

(* ide_wait_ready: the loop ends when the disk is not busy.                *)
WaitReady == ~disk.busy

(* The registers and the command.  To a disk that is still busy they are   *)
(* lost.                                                                   *)
Command ==
  /\ op.pc = "setup" /\ WaitReady
  /\ op' = [op EXCEPT !.pc = "transfer"]
  /\ disk' = IF disk.busy THEN disk
             ELSE [busy |-> op.cmd = "read", err |-> FALSE, data |-> Blank,
                   secno |-> op.slot * PAGE_NSECT, left |-> PAGE_NSECT]
  /\ UNCHANGED <<device, swapped, ops>>

(* The disk has the next sector ready, or has stored one; or it fails, and *)
(* what it was to store is lost.                                           *)
DiskReady ==
  /\ disk.busy
  /\ device' = IF disk.data = Blank THEN device ELSE [device EXCEPT ![disk.secno] = disk.data]
  /\ disk' = [disk EXCEPT !.busy = FALSE, !.data = Blank, !.secno = IF disk.data = Blank THEN @ ELSE @ + 1]
  /\ UNCHANGED <<op, swapped, ops>>
DiskFails ==
  /\ disk.busy
  /\ disk' = [disk EXCEPT !.busy = FALSE, !.data = Blank, !.err = TRUE]
  /\ UNCHANGED <<device, op, swapped, ops>>

Transferring == op.pc = "transfer" /\ WaitReady

Reported == disk.err
GivesUp ==
  /\ Transferring /\ op.nsecs > 0 /\ Reported
  /\ op' = [op EXCEPT !.pc = "over", !.ret = -1]
  /\ UNCHANGED <<device, disk, swapped, ops>>

(* insl of a sector, or outsl.  After the last sector that is read the     *)
(* disk has nothing to do.                                                 *)
ReadSector ==
  /\ Transferring /\ op.cmd = "read" /\ op.nsecs > 0 /\ ~Reported
  /\ op' = [op EXCEPT !.nsecs = @ - 1, !.page = Append(@, IF disk.err THEN Blank ELSE device[disk.secno])]
  /\ disk' = IF disk.left > 1 THEN [disk EXCEPT !.left = @ - 1, !.secno = @ + 1, !.busy = TRUE] ELSE Quiet
  /\ UNCHANGED <<device, swapped, ops>>
WriteSector ==
  /\ Transferring /\ op.cmd = "write" /\ op.nsecs > 0 /\ ~Reported
  /\ op' = [op EXCEPT !.nsecs = @ - 1]
  /\ disk' = [disk EXCEPT !.left = @ - 1, !.busy = TRUE, !.data = op.page[PAGE_NSECT - op.nsecs + 1]]
  /\ UNCHANGED <<device, swapped, ops>>

Finished ==
  /\ op.pc = "transfer" /\ op.nsecs = 0
  /\ op' = [op EXCEPT !.pc = "over"]
  /\ UNCHANGED <<device, disk, swapped, ops>>

(* Back in the caller.  Nobody looks at the slot of a write that failed.   *)
Return ==
  /\ op.pc = "over"
  /\ op' = NoOp
  /\ swapped' = IF op.cmd = "write"
                THEN [swapped EXCEPT ![op.slot] = IF op.ret = 0 THEN op.page[1].page ELSE "none"]
                ELSE swapped
  /\ UNCHANGED <<device, disk, ops>>

Next ==
  \/ \E s \in Slot : SwapfsRead(s) \/ \E v \in Page : SwapfsWrite(s, v)
  \/ Command \/ DiskReady \/ DiskFails \/ GivesUp \/ ReadSector \/ WriteSector \/ Finished \/ Return

Spec == Init /\ [][Next]_vars

-----------------------------------------------------------------------------
(* A read that returns 0 delivers what was written to the slot by a write  *)
(* that returned 0: all of it but the last sector, whose error nobody      *)
(* would see (ide_write_secs does not wait for it).                        *)
ReadExact ==
  op.pc = "over" /\ op.cmd = "read" /\ op.ret = 0 =>
    /\ Len(op.page) = PAGE_NSECT
    /\ \A i \in 1 .. PAGE_NSECT - 1 : op.page[i] = PageOf(swapped[op.slot])[i]
=============================================================================
