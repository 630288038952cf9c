# TLA+ models and proofs for OS_SPOC_hw

The repository holds the answers of one student to the homework of an operating
systems course: two trees of the teaching kernel ucore (`hw13/lab5-spoc-discuss`
and `hw15/lab6_result`), single kernel files of other labs (`hw9`, `hw12`), and
small programs that each simulate one mechanism (allocators in `hw4`, page
replacement in `hw8`, scheduling in `hw10`, `hw11`, `hw14`, a condition variable in
`hw17`, the banker's algorithm in `hw19`, a file system in `hw20`, a processor in
`hw3`). There is no README; the comments of the source, its assertions and
self-tests, and the questions of the homework say what it should do.

The kernel of `hw15` is the main subject. `hw13` is the same kernel one lab
earlier; most of its files are identical, and where they differ this is said.

## 1. The system and its parts

### 1.1 The kernel (hw15, and hw13 where it is the same)

| part | state | operations | talks to | what is hard, and what makes it correct | modules |
|---|---|---|---|---|---|
| processes (`process/proc.c`, `schedule/sched.c`, `trap/trap.c`, `syscall/`) | per process: state, wait_state, flags, need_resched, parent; current, initproc, idleproc, nr_process | fork, exit, wait, yield, kill, wakeup_proc, schedule, the way out of a trap, init_main, cpu_idle | the scheduling class; the address spaces through copy_mm and exit_mmap | interleavings of exit, wait, kill and adoption: no wake-up is lost, orphans are adopted and reaped, the run queue is exact, the tree stays a tree, the kernel never idles for ever, its own assertions hold | ProcLife |
| links and pids (`process/proc.c`) | proc_list, cptr, yptr, optr, hash_list; last_pid, next_safe (static) | get_pid, set_links, remove_links, hash_proc, unhash_proc, find_proc, the adoption loop | do_fork, do_exit, do_wait, do_kill | a bound remembered from an earlier list is used for a later one; lists are changed while they are walked: pids stay unique, the scan ends, the pointers say who is whose child | ProcTable |
| stride scheduling (`schedule/default_sched.c`, `libs/skew_heap.h`) | lab6_run_pool, proc_num, stride and priority of each process | init, enqueue, dequeue, pick_next, set_priority; heap merge, insert, remove | schedule, wakeup_proc | strides wrap and are compared by the sign of a difference; newcomers start at stride 0 however far the others have gone: the order of the heap agrees with the strides, the minimum is picked where there is one, nobody in the queue starves once nobody enters | Stride, StrideSched |
| round-robin scheduling (hw13 `schedule/sched.c`) | proc_list, need_resched | a walk from the current process; the timer | fork, exit, wait | the list changes under the walk: nobody is passed over for ever | RoundRobin, RoundRobinTurns |
| physical pages (`mm/default_pmm.c`) | free_list, nr_free, flags and property of each page | init_memmap, alloc_pages, free_pages | everything that takes pages | splitting and joining of blocks: no page is lost or given twice, a refusal is justified | FirstFit |
| swapping (`mm/swap.c`, `mm/swap_fifo.c`, do_pgfault in `mm/vmm.c`, `fs/swapfs.c`) | page table entries, pra_list_head, pra_vaddr, slots on disk | page fault, swap_out, swap_in, map_swappable, victim selection | alloc_pages, the disk | a frame finds its page through pra_vaddr; disk errors: nothing written is lost, FIFO order | Swap |
| page tables (`mm/pmm.c`) | two-level tables, reference counts of frames, the TLB | get_pte, page_insert, page_remove, copy_range, unmap_range, exit_range, pgdir_alloc_page | address spaces, page faults | counts equal the number of entries; a failure half way; stale translations | PageTables, AddressSpace |
| address spaces and program loading (`mm/vmm.c`, `process/proc.c`) | sorted list of areas, mmap_cache, mm_count | mm_create, mm_map, insert_vma_struct, find_vma, dup_mmap, exit_mmap, user_mem_check, do_execve, load_icode | fork, exec, exit, page faults | areas stay sorted and disjoint, the cache is never stale, every failure gives back what was taken | AddressSpace |
| kernel heap (`mm/kmalloc.c`) | circular list of free units, list of big blocks | slob_alloc, slob_free, kmalloc, kfree | pages | joining round the wrap of the list; a block keeps its length | SlobHeap |
| console (`driver/console.c`, `libs/readline.c`) | ring buffer with rpos and wpos, keyboard shift state, screen | interrupt handlers, cons_getc, readline, cga_putc | interrupts, the monitor | overrun of the ring; order of what is read | Console |
| disk (`driver/ide.c`, `fs/swapfs.c`) | sectors, status | ide_read_secs, ide_write_secs | the swapper | a sector fails in the middle of a page | Disk |
| interrupts and start (`sync/sync.h`, `trap/trap.c`, `init/init.c`, `driver/picirq.c`, `boot/bootmain.c`) | the interrupt flag and mask, what is initialised | local_intr_save, local_intr_restore, pic_enable, kern_init, bootmain | all sections that are protected | nesting; the order of initialisation | Boot |
| red-black tree, strings, printing, symbol search (`libs/`, `debug/kdebug.c`) | their data | | | boundaries: bad widths and buffer sizes, empty regions, sentinels | RbTree, Text, StabSearch |
| user programs (`user/`) | | the programs of the course as tests | system calls | their asserts, wherever the clock interrupts | UserPrograms |

### 1.2 The programs

| part | state | operations | what is hard, and what makes it correct | module |
|---|---|---|---|---|
| `hw20` file system | inode and data bitmaps, inodes, blocks, the generator's names | unlink, link, creat, mkdir, append | inodes and blocks are freed and used again, a mkdir fails half way: counts, bitmaps and names agree | Sfs |
| `hw19` banker's algorithm | max, allocated, need, available, finished | SignProcesses, Execute | the verdict must not depend on the order of the scan | Bankers |
| `hw17` customers and clerks | a counter, a condition variable | deliver, call, wait | missed wake-ups, woken threads that find nothing | CallQueue |
| `hw10`, `hw11` process simulators | process states, clock, I/O finish times | move_to_*, next_proc, run | I/O finishes in other orders; a search that never ends | CpuIo |
| `hw14` scheduling policies | run list, times | FIFO, SJF, RR | jobs that end just with a quantum | JobSched |
| `hw4` allocators | a buddy tree; a circular free list; marks in each block | alloc and free; malloc, free, morecore | splitting and joining, finding a block by its offset | Buddy, FitHeap |
| `hw8` working set | pages in memory, history | a reference | windows at their limits | WorkingSet |
| `hw12` kernel threads | process states, list, stacks | fork, exit, wait, idle | a parent that sleeps and a child that exits | KernelThreads |
| `hw3` processor emulator | four tables of cached translations, modes, pending interrupts | look-ups, interrupts, CLI, STI, RTI, PDIR, SPAG | translations that outlive what they were made from | Emulator |
| `hw6`, `hw7` small kernels | | a start-up sequence that prints | how they use the emulator's processor is part of Emulator | |
| `hw5`, `hw7` translation exercises, `hw9`, `hw1`, `hw2`, `hw16`, `hw18`, `hw21` | | | see section 5 | |

`PROJECT.json` lists every part under `components` with what is modelled of it, and
under `hazards` what is hard to test, at its line, with the properties that cover it.

## 2. Modules

### 2.1 Plan

The order put first what most of the kernel depends on. All models of the plan are
written:

1. ProcLife and ProcTable: processes, their pids and their links.
2. Stride and StrideSched: stride scheduling; RoundRobin and UserPrograms:
   hw13's scheduler and the programs it runs.
3. FirstFit, Swap, PageTables, AddressSpace, SlobHeap: memory.
4. Console, Disk, Boot and the libraries.
5. The programs of the homework directories.

What the plan has left is a proof that the provers could find: that the ring of Console
gives characters in order. Section 4 says what is out of the prover's reach.

### 2.2 Conventions

One action is one stretch of code that nothing can interrupt or observe. Slips are
definitions named after the one they change, as `Room_Always` for `Room`: each is a
plausible bug, used nowhere in the specification, with which a property of a run
fails. `PROJECT.json` pairs them under `mutants`. An abstract specification is a
module of its own (Stride, PageAllocator, VirtualMemory, ProcessMemory, KernelHeap);
the detailed module instantiates it as `Abs` and has `KeepsPromise == Abs!Spec` as a
property.

Programs that do not touch each other are checked together: `Homework`,
`KernelParts` and `KernelLibs` choose one of their programs at the start, instantiate its
module and hold the variables of the others fixed. The properties of such a run are
implications from the program chosen. KernelLibs has the parts that call themselves, with
RECURSIVE operators; KernelParts has those without, so that it can be proved about.

### 2.3 Processes and scheduling

**ProcLife** (kern/process/proc.c, kern/schedule/sched.c, kern/trap/trap.c). The
kernel cannot be preempted, so a step is what the current process does until it
calls schedule() or returns to its program; `pc` says where it continues. User
programs are arbitrary: at any time they may fork, exit, yield, wait for any child,
kill any process, fault, or be interrupted. The state of a process, wait_state,
PF_EXITING, need_resched, parent, the run queue, nr_process and current are the
variables; the structure pool Proc is finite and reused, so a pid that do_wait kept
across schedule() may mean another process. do_exit, do_kill and do_fork are whole:
waking, adopting, the reschedule that follows. Abstracted: which process pick_next
takes (any of the queue), the order within child lists (the first matching zombie
becomes any), pids other than "some structure", exit codes, memory. Left out: failure
of memory allocation in fork (the pool being empty stands for it; init_main's own fork
is taken to succeed, as it comes before any user process), the assertion on
nr_free_pages in init_main, and exec, whose effect on control is a
continuation in the program or an exit. proc_tick and time_slice have no caller.

**ProcTable** (get_pid, set_links, remove_links, the hash list, the loop of do_exit).
get_pid: the list of processes is a sequence, the scan a position in it, one element a
step; the two static variables keep their values between calls. Beside it are the
pointers cptr, yptr and optr as functions from processes to processes, assigned in the
code's order, and the hash lists; which pids share a list is a parameter (`Buckets`),
since hash32 promises nothing. do_exit gives its children to initproc one by one, newest
first: `DoExit` begins, each `GiveUpChild` is one round of the loop, `Exited` ends it,
and meanwhile (`exiting`) nothing else runs, as interrupts are off. `children` is a
history: whom each process got and has, the last first. LinksExact says that the pointers
encode just these lists, that they are the children by `parent`, and that a process
with children lives or is giving them up.

**Stride**: the promise. Each process has a stride in `0 .. SPACE - 1` and a priority,
enters at any time with stride 0 (do_fork) or with the stride it had (wakeup_proc), and
leaves by sleeping or exiting. A stride that wraps does not say how many turns a process
is behind, and strides that lie further apart than BIG_STRIDE compare in a circle. What
the class keeps nevertheless is a lead of each process over the first of the queue
(`ahead`), learnt when the process enters from the comparison with the first one
(`Entered`); `Laid` says how leads and strides agree. pick_next takes a first one. Two
processes exactly half the numbers apart each come before the other (a difference of
-2^31 is negative both ways); then the code's order depends on the shape of its heap, and
the promise allows any leads that agree with the strides. A priority above BIG_STRIDE
makes the pass 0. **StrideSched** has the heap as the code has it: nodes with
left, right and parent, merge, insert and remove as in skew_heap.h, and the class over
that heap with schedule, wakeup_proc and do_fork; processes fork, sleep, wake, exit and
set priorities at any time. Its `ahead` is the sum of the differences along the links of
the heap. schedule() removes only the root of the heap, so the branch of
skew_heap_remove for an inner node is translated but no behaviour of the class reaches
it. **KernelLibs** has the promise and the class side by side, each with strides of its
own.

**RoundRobin** (hw13's kern/schedule/sched.c with what changes proc_list and
need_resched). schedule() walks proc_list from the process that calls it, or from the
head when idleproc does; fork puts processes in front, do_wait takes them out of
anywhere, also the one the walk would start from. The clock interrupts user programs
and asks for a reschedule; it is taken to run always, also in idleproc, whose loop the
request ends. **RoundRobinTurns** adds a history: who has had the
processor while a process waited for it.

**UserPrograms** extends RoundRobin by the programs of `user/`, as sequences of
system calls, faults and tests of what calls returned; init_main makes two kernel
threads that each execute the program the kernel was built for (USER_PROCESS), and
the clock may come anywhere. What a program prints, sleeps or computes is left out;
forktree's depth, forktest's number of children and the yields are parameters.

### 2.4 Memory

**FirstFit**: free_list is a sequence of page numbers, with property, PG_reserved and
PG_property of each page. page_init hands over the usable blocks of memory one by one, in
address order, each through init_memmap; there are unusable pages between them, and all
pages are reserved before. Then callers take blocks, and free whole blocks or parts of
them, as default_check does. **PageAllocator** is the promise: at first nothing is free;
a request gets the lowest run of free pages that is long enough, and is refused only when
there is none.

**Swap**: one access is a Write when the page is present, else a Fault, which needs a
frame: while none is free swap_out moves the oldest page to disk, or fails to and
puts it back, until MapIn can finish. swap_in may meet a read error, which it ignores:
the page is then mapped with anything in its frame, and the history variable `lost` has
it until it is written again. **VirtualMemory** is the promise: a memory
that keeps what is written but for the pages in `lost`, and a FIFO of resident pages.
`SetsVaddr` tells hw15 from
hw13. The address space is the one of check_swap: the kernel queues pages only while
check_mm_struct is set.

**AddressSpace** puts areas, page tables, directories and counts of hw15 under fork
(copying or, with CLONE_VM, sharing), execve, exit, wait and page faults. An operation
is one step, since the kernel is not preempted, but inside it every call is an operator
from a state of the memory to the next with an error code, so that each allocation can
fail and the code's own clean-up runs. Memory is counted in pages and frames; segments
begin at page boundaries; every area can be read, as in load_icode; the heap is the
number of pages it has taken, and grows as long as there are any. swap_init_ok has both
values: with 1, as after the boot, alloc_pages passes the null check_mm_struct to
swap_out when memory is short, the kernel faults and stops, and the model ends there;
with 0 allocations fail and the errors are handled. A fault that do_pgfault refuses is a
panic, as trap_dispatch has it. vmm_init's own tests, check_vma_struct and
check_pgfault, run first, with what they assert. **ProcessMemory** is the promise: a
space holds what was written to it, and only its users, fork and execve change it.

**PageTables** has hw13's pmm.c below that: directories and tables as frames with
entries, the counts, and the translations the TLB may hold. It begins with
pmm_init's self checks (check_pgdir, check_boot_pgdir), then processes fork, fault,
load programs, exit and switch, until memory runs out. The kernel's own part, the
same in all directories, is left out. print_pgdir shows the items that
get_pgtable_items finds. alloc_pages is that of swap_init_ok = 0; AddressSpace has
both values. PageTables is checked as a part of KernelLibs.

**SlobHeap**: memory is numbered in units; the free list is a sequence in address order
with slobfree a position in it, and each block knows its length as the code has it in
the header, or in the descriptor for whole pages. All callers pass align 0. An
allocation that the assertion of slob_alloc refuses is an outcome of its own. The
assumptions are about the constants of the code (a page has more than two units, a
descriptor more than one and fewer than a page) and about the sizes asked for: not 0, for
which arena would be handed out, and none for which find_order is too small.
**KernelHeap** is the promise: a block as long as asked for, of units nobody else has.

### 2.5 Devices and libraries

**Console**: keys go down, repeat and come up, the controller sends their bytes, and
kbd_proc_data turns them into characters with the modifiers of the moment; then come the
serial port, the ring, the two interrupt handlers, getchar and readline in the
monitor, and the screen. A
handler puts what waits into the ring and reads one character; the monitor polls with
interrupts off.

**Disk**: ide_read_secs and ide_write_secs sector by sector, with a disk that is busy
for a while and may fail at any sector. **Boot**: bootmain copies segments from
sectors, kern_init calls its parts in order, and from intr_enable on interrupts come,
except where the controller masks them or a section is protected, also nested.

**RbTree** has nodes with pointers and both sentinels, rotations, insertion, deletion
both neighbours, and check_rb_tree for every order of its nodes. **Text** is vprintfmt
with every conversion but long long, snprintf's buffer and strtol, and the routines of
string.c and x86.h on a few cells. **StabSearch** writes any small symbol table that
compiler and linker could and looks addresses up; what debuginfo_eip reports is kept
with the file, the function, its arguments and the line, the name of an included file and
a memory that cannot be read. A backtrace in user mode, which reads the table of the
program, is the same search.

### 2.6 The homework programs

**CallQueue** (hw17): the lock, the queue's length, the clerks that wait and those that
were notified and have not got the lock back. `MaxProducts` bounds the queue in the
guard of a customer's Acquire. **Bankers** (hw19): SignProcesses is Init, for every
input; ExecuteProcess and ReleasingProcess are two steps, so that the state between
them is seen. Each scan takes the processes in any order. `Held` counts units as a set of
pairs, so that it needs no sum. **Sfs** (hw20): the
requests of the generator in `hw20/sfs-homework.py`. Requests that fail change nothing
and are left out, but for the mkdir that has taken an inode when it finds no block. A
name is a sequence of components.

**CpuIo** (hw10, hw11): a step is one tick of run(), for every choice of programs
up to `MaxCode` instructions. **JobSched** (hw14): a step is one turn of a job.
**Buddy** and **FitHeap** (hw4): the binary tree of mfree.c; malloc and free with
the best or the worst fit (best-worst-fit.c), or with a mark in each block and a walk over
all of them (mall.c). **WorkingSet** (hw8): a step is a reference.

**KernelThreads** (hw12): idleproc creates threads that give way to each other, exit
and are cleaned up. schedule and wakeup_proc are not in hw12's file and are modelled
from how it calls them; only idleproc forks, and pids do not wrap in so short a life.

**Emulator** (hw3): the four tables of cached translations as one record per page,
setpage, flush, rlook and wlook, exceptions and interrupts with the stack they push,
CLI, STI, RTI, PDIR, SPAG and the timer, and the stack: the page in which the stack
pointer lies is used without a look-up while `fast` says so. Accessed bits, which nobody
reads, the value of a character, instructions that only compute and the debugger are
left out. Tables are changed only before their directory is loaded, which is what the
kernels of hw6 and hw7 do; `Begin` is the frame with which they enter a user program.
Their tables are any (`Tables`): each entry has a set of flags and, in a page table, the
number of a frame, which need not be in memory.

## 3. Runs

`pass` runs are exhaustive over their instance.

| run | shows | bounds, and why they are enough |
|---|---|---|
| ProcLifeSafety | IInv, SleepersAwaited, NeverIdleAgain, DeathIsFinal of ProcLife | three user structures: a parent, its child and a grandchild that is orphaned, or a parent with two children; structures are reused. MAX_PROCESS is 5, so forks fail at the limit and for want of a structure at once. The users are symmetric |
| ProcTable | PidsUnique, TableExact, PidFound | six pids for at most five processes: the list may leave one pid free, so scans wrap and restart; two hash lists of three pids; a parent's oldest, middle and newest child go; up to three children are given up one by one |
| KernelLibs | MinimumPicked of the promise; KeepsPromise: the class implements Stride and its heap is exact; EveryonePicked; RbExact, TextExact, BacktraceExact, TablesExact, TlbExact | three processes that come and go; strides modulo 6 and passes 0, 1 and 2 for promise and class: they wrap after a few picks, newcomers enter far behind, strides lie half the numbers apart and form circles, and a priority is above BIG_STRIDE; a tree of seven nodes, two of them equal; formats of three characters, numbers at the limits of eight bits, buffers that are too small; four cells of memory; eight stabs; six frames, tables and directories of two entries, two user directories beside the boot directory: allocations fail in the middle of a load |
| StrideMinimum (violation) | PicksMinimum: pick_next promises the minimum and picks another | three processes; strides modulo 10 and passes 4 and 2, so that none are exactly half the numbers apart |
| BacktraceLine (violation) | LineIsRight: the line reported is not that of the line found | the same symbol tables |
| Swap | ListExact, KeepsPromise | four pages, three frames, two values: one page is always out, victims of every age; each write to disk and each read may fail |
| SwapHw13 (violation) | the stale pra_vaddr | the same |
| AddressSpace | FramesExact, AreasExact, KeepsPromise | two processes, four pages and 15 frames, which two full processes with their stacks, tables and heap exceed, so that each allocation can be the one that fails; five images, of which three are refused |
| RoundRobin | NobodyTwice, EveryoneRuns, KilledExits, InitReaps | initproc and three users: one walks, one joins in front, one is taken out; a parent with a child that initproc inherits, dead or alive |
| UserPrograms | ProgramsPass, ProgramsEnd | eight structures: two copies of forktest with two children each, or two trees of depth one; waitkill's three processes twice |
| Homework | EnoughAwake (hw17), Verdict (hw19), TreeExact and StepsExact (hw20), TakesTurns (hw10, hw11), StatsExact and StepsExact (hw14), MemoryExact (hw4, hw8), ThreadsExact (hw12), Ends | two customers and three clerks; three processes, two resources of two units and one, every input; five inodes and three blocks: both bitmaps fill up; three simulated processes or jobs; a tree of eight units; a heap that grows twice; four pages, a window of three; three threads |
| KernelParts | PagesExact, KeepsPromise (pages), HeapPromise (heap), ConsoleExact, DevicesExact | six usable pages in blocks of two and four with a hole: blocks join below, above and on both sides; a heap of three pages of four units; a ring and a line of three, four characters from two devices: both overflow; pages and sectors of three units; sections nested three deep; three pages over page tables of two entries, with every kind of right and of absence, and two cached translations: a third flushes |

Configurations with CHECK_DEADLOCK FALSE are those of programs that end: the homework
programs, memory that runs out, a kernel that stops as its tests want.

**Fairness.** RoundRobin, hw13's kernel, assumes that the kernel does not stop and that
the clock ticks (weak fairness of `Kernel` and `Timer`), and nothing of the programs: the
clock takes the processor from them, and the walk of proc_list passes over nobody, which
EveryoneRuns checks. KilledExits and InitReaps are stated there. initproc reaps the newest
child first, so one old zombie may wait for ever while newer ones come: InitReaps says only
that initproc goes on reaping. hw15's kernel gives no such ground, so ProcLife has no
liveness: its timer never takes the processor away, newcomers at stride 0 can be
preferred for ever, two processes that sleep and wake in turn too, and a priority above
BIG_STRIDE makes a process first for ever. Of its class EveryonePicked says what is left,
without any fairness of the specification: if schedule() is called again and again, and
from some time on nobody enters and no priority is above BIG_STRIDE, whoever is in the
queue gets the processor. ProcTable assumes that a scan of get_pid goes on; Homework
that the program chosen runs. UserPrograms
assumes, besides what RoundRobin does, that the clock leaves time for an instruction
between its ticks (strong
fairness of the programs' steps). CallQueue has no liveness: Python's locks promise none.

**Disagreements found.** Three are shown by runs (`findings`): hw13's page fault handler
forgets pra_vaddr, so that swap_out saves pages under the wrong address until its
assertion fails (VictimPresent); pick_next promises the minimum of the strides, but when a
process enters late, with stride 0, strides lie further apart than the comparison can
tell, and it picks one that another in the queue precedes (PicksMinimum); debuginfo_eip
takes the line number from the right end of the region it finds, which may be a stab of
another kind (LineIsRight). The others were met while reading and are noted here;
the models follow the code in all of them.

- The timer handler of hw15 (trap.c:231-233) never asks for a reschedule, which the
  comment above it demands. hw13's does.
- default_free_pages sets PG_property of the first page only; default_check and
  check_swap assert it of every page of the list.
- kmalloc of 4080 to 4087 bytes takes the branch for small blocks and fails
  slob_alloc's assertion. find_order drops the remainder at every halving, so that
  some sizes get too few pages; the model's assumption excludes those sizes.
- The heap never gives pages back, so init_main's assertion that nr_free_pages is what
  it was cannot hold once the heap has grown.
- stab_binsearch goes on above a match one address further and takes a stab there for a
  match too: of lines that follow each other byte by byte it may stop at a later one.
- printf has a '-' flag that pads on the right only for strings; numbers print it as
  padding.
- check_boot_pgdir frees the page it has mapped and clears the directory entry without
  an invalidation, which is sound only since the translations it leaves are not used
  again before cr3 is loaded.
- ide_write_secs does not wait after the last sector: an error there goes unnoticed.
- hw13 and hw15: copy_range asserts that it got a page, so that a fork that meets the end of
  memory there stops the kernel, while its callers would handle the error.
- cons_intr stores without a test for a full ring, and an interrupt puts all characters
  that wait into the ring but reads one, so that the others stay until the next.
- hw4: mall.c never splits or joins its blocks, and asks for more memory without a look at
  whether it got it.
- hw20: createFile enters "." and ".." the other way round than the run printed
  in sfs.md, and writeFile replaces the data although the request it prints opens the
  file with O_APPEND.
- hw11 ignores the option -L, and hw10's run() searches for ever for a ready process when
  all are done.
- hw3: the emulator keeps one character; another that arrives while the handler of the
  first has not read it takes its place ("use a small queue instead", em.c:245).
- hw6 and hw7: setup_user_paging takes the sixteenth of the kernel's tables
  for its own, so that the user's pages are the first of memory rather than USRPHY's.

## 4. Proofs

TLAPS checks these for every value of the constants, from the assumptions named
in the modules.

**ProcLifeProofs.** `IInv` is the conjunction of the safety properties of ProcLife;
together they are inductive, none is alone. RunQueueExact needs that a sleeping
process is woken once (SleepersAwaited) and that the picked one leaves the queue.
SleepersAwaited needs Forest and ParentsLive: a process sleeps only while a child it
waits for is not a zombie, and when that child exits, its parent is alive and is the
one that is woken; when a parent exits, its children go to initproc, which is woken
if one of them is a zombie. NeverIdleAgain follows by a walk down the tree: if
nothing were runnable all processes would sleep or be zombies, each sleeper would
have a sleeping child, and a finite tree has a lowest node. Its step is in Forest's
third part, which says of every set of processes that one of them has no child in
the set. InitEndsAlone and NoAssertFails need NrProcessExact. The module proves IInv
of Init, one lemma per action, and each property as a theorem; DeathIsFinal is an
action property from the same invariant.

**TableHeapProofs, processes.** PidsUnique needs `Window`: no pid strictly between last_pid and
next_safe is in use. It is kept by a scan because each process the scan has passed
is outside the window as it then is, by Link because the new pid is the lower end,
and by Unlink because fewer pids are in use. EveryPidFound: the hash list of a pid is the
pids of its bucket that are in use, for any hash function. TableStaysExact adds
`LinkInv` = LinkTypes, Rows, Members, Living. `Row` says of one parent that cptr, optr
and yptr spell its history list `children[p]`, except that in do_exit's loop the first
child's yptr may be stale (the loop never clears it, and sets it when initproc adopts
the child). LinkTypes names initproc, the last of the list, which exists
before anybody can give up a child. The lemmas about a row (one in front, the first one
off, one out of the middle) say which pointers a list operation may touch; the rows
of all other parents are unchanged because no process is the child of two (Members).

**TableHeapProofs, heap.** HeapInvariant: `HeapInv` is inductive. The free list is circular
by address (`Circular`: any three of its places are in cyclic order), its blocks do not
even touch (`Apart`), and arena, of one unit, is among them. Every unit is free, or in
exactly one block that a caller has, or on a page that the heap has not taken
(`Accounted`); every block that callers have begins one unit behind a header with its
length, or begins pages that exactly one descriptor names (`Described`). So kfree finds
out which kind a block is even if a small one begins a page: the place that callers know a
block by lies in its units (`BlockInside`), and no unit is in two blocks. slob_free's
search ends, since a circular list has a gap for every address, above its highest block
and below its lowest one too (`SlobPlace`); what is freed joins one neighbour, both or
none (`FreedIsFreed`, `BlocksJoin`). slob_alloc's search sees every block, so that a page
is taken only when none would do (`SlobFit`), and one page is enough for what is asked of
it. HeapKeepsPromise has this in the words of HeapExact (seen from arena on, the list
goes up, `ListGoesUp`) and adds the two action properties: each step is one of KernelHeap
or changes nothing that it can see, and pages are taken thriftily. Of find_order, a
recursive function, only what the assumption says is used.

**KernelPartsProofs, stride scheduling.** For every width, all priorities and whoever
enters late, `Laid` is inductive with types (LeadsAgree). The hard step is a process that
enters: its place is found from the first one alone, but its lead over all others, up to
half the numbers away from it on both sides, has to agree with the strides.
`FromFirst` shows that strides and leads agree up to a whole round, by taking the least
lead above half a round; sums that wrap are sums (`PlusPlus`). When the first one leaves,
the next is at most half a round behind it (`ClosedLaid`). MinimumIsPicked: a process that
no other precedes has lead 0, as whoever has a lead is preceded by the one it has it over
(`LeastIsFirst`), and all with lead 0 have one stride; strides that lie within BIG_STRIDE
have such a process, and a pass of at most BIG_STRIDE keeps them so
(`PickStaysTogether`).

**SwapProofs.** ListExact is inductive with types, `SwappedKnown` (what is swapped out is
on disk), `FaultAbsent` (a page whose fault is being handled is mapped by nobody else)
and `Named` (each frame of the list has a pra_vaddr). VictimIsPresent is its consequence
that fails in hw13. SwapKeepsPromise is the refinement of VirtualMemory, action by
action, a failed read being a page that joins `lost`: the queue of resident pages is the frame list seen through pra_vaddr
(`ResidentProperties`), so that the oldest frame is the oldest page. These three assume
SetsVaddr, that is hw15's do_pgfault; TypeCorrect holds in both.

**RoundRobinProofs.** NobodyTwice needs that a walk meets the runnable processes in the
order of the list, from the current process on (`WalkOrder`, `PickedIsFirst`), and that
forks and reaped processes do not change the order of the others (`ForkKeepsOrder`,
`WaitKeepsOrder`). `Turns` is the invariant of the history: whoever has had the
processor since p began to wait lies between p and the current process, backwards, and
will be met again only after p.

**SfsProofs** (hw20, as a part of Homework). TreeExact is inductive with what `FsInv` adds:
the names of directories are one to one, every inode of a directory has a name and a
block. References and entries are counted as sets of pairs (`RefsOf`), and each request
changes the count of one inode by the pairs it adds or takes. The hard step is unlink: an
inode that is freed has no name left, and a path is the name of one file
(`PathUnique`).

**HomeworkProofs.** EnoughAwake (hw17) is inductive by itself given types: a delivery
adds one number and wakes one clerk if one sleeps; a clerk falls asleep only with the
queue empty. ThreadsExact (hw12) needs `ThreadsInv`: idleproc sleeps only flagged as
waiting and while there is no zombie, so that whoever exits next wakes it. Verdict
(hw19): `SafeCanRun` and `CanRunSafe` show that an order in which all can finish exists
exactly when among any who are left one can run once the others have given back what
they hold (`CanRun`); this form is kept when a process that fits is run, and an unsafe
state stays unsafe, so the order of the scan does not matter; a safe state finishes a
process in each scan, so that as many scans as processes suffice (`Scanned`).
TurnsAreTaken (hw10, hw11): the search begins behind the process that gives way and
takes the first one, so that everyone chosen while p is ready is nearer to p, round the
ring, than the one before (`Approach`); two of them are never the same. The invariant
`SimInv` holds between ticks, OneRuns and History between the parts of a tick.
StepsExact has two halves: what an hw20 step may lose follows from FsInv; for hw14,
`JobInv` bounds the time since a job last ran by its place in the run list, and has the
answer time of a job that has not run yet bounded by its number.

**KernelPartsProofs, pages.** FirstFitInvariant: `PmmInv` is inductive. It says that the
list is increasing and nr_free its length; that the free pages are those handed over that
no caller holds (`InBlocks`); that what callers hold does not overlap, is reserved, and
has property 0 but for its first page (`LentExact`), which is what lets a part of a block
be freed as if it were one; and `Blocks`: a free page has as its property the length of
the run it begins, and 0 if it does not begin one. An allocation takes a run from the
front of a block (`TakesRun`), free_pages and init_memmap give a run back (`GivesRun`):
the place in the list is found, the run below is found by the search backwards for a mark
(`LastMarkFound`), and joining on one side, both or neither leaves `Blocks`
(`MarksJoined`). PagesStayExact is the invariant in the words of default_check, and
FirstFitKeepsPromise the refinement of PageAllocator: the first block in the list that is
long enough begins with the lowest page at which so many pages are free.

**KernelPartsProofs, devices.** DevicesStayExact has one invariant for each part.
`DiskInv`: in the middle of a transfer the sectors that have gone over are those of the
page, one is on its way, and the only sector that may still be on its way when the driver
has returned is the last of a page that was written, which ReadExact excepts.
`BootInv`: what kern_init has prepared at each step, and `SectionsNest`: of the nested
sections without interrupts only the outermost has found them on. For bootmain the hard
step is that readseg, which copies whole sectors, may overwrite what lies before a
segment: it puts there what lies there in the image, so that the segment loaded before
is not damaged (`ReadsegCopies`, `BothLoaded`). `EmInv`: every cached translation is
given by the tables (`Justified`), which the look-ups change by dirty bits only
(`Marks`); the page of the stack pointer that is used without a look-up can be written to in
the mode of the moment (`WindowOK`); interrupts that wait and the modes on the stack fit.
Arithmetic on sectors and entries of tables is nonlinear where it multiplies by a
parameter; those steps are lemmas of their own.

**SequenceLemmas** has what these proofs need about lists: front, a new head, removal at
a place or of an element, rotation, the least element of a set of numbers, that a
list without repetition is as long as its set; and about blocks of neighbouring numbers:
a run cut out of an increasing list or put into its place, and the marks of the blocks
that are shortened or joined. Its last part is about circular lists of blocks: turning
one, the gap for a new block, joining it, and cutting one (`HeapFrees`, `HeapTakes`).

**Only model-checked**, and why:

- All liveness properties: KilledExits, InitReaps, PidFound, EveryonePicked, EveryoneRuns,
  ProgramsEnd, Ends. TLAPS has no support for ENABLED as fairness needs it.
- KeepsPromise of KernelLibs (the class over its heap, whose merge is recursive), RbExact,
  TextExact and BacktraceExact: their modules have RECURSIVE operators (the heap, the tree,
  the conversions, the binary search), about which nothing can be proved here.
- ConsoleExact: characters are put into the ring, and lines on the screen, by folds; what
  they compute needs the same induction as the next.
- FramesExact, AreasExact and KeepsPromise of AddressSpace, TablesExact and TlbExact: an
  operation of these models is a fold over the pages or areas of a process; what a fold
  computes needs induction with an operator parameter, which the installed provers do
  not have.
- MemoryExact: the buddy tree is a recursive function, and FitHeap rotates and selects by
  folds. StatsExact: averages are sums, and SJF's order is a sort.
- ProgramsPass: UserPrograms runs fixed programs, so that there is nothing to generalise.

## 5. What is not modelled

- hw9 (clock replacement) does not compile: it uses p and head without declaring them,
  so that it has no behaviour.
- hw5's and hw7's translation exercises search constant tables once. hw6's and hw7's
  kernels are start-up sequences without choice; their use of the processor is in
  Emulator.
- rand and hash32 are 64-bit and 32-bit products that TLC's integers do not hold, and
  promise nothing but a value.
- The commands of the kernel monitor, the identification of disks, the programming of
  the controllers and the printer port are input and output. The assembly that saves
  registers and switches stacks is below the level of the models. Of user programs,
  matrix and priority compute and print; the grading scripts are not part of the system.
- hw1, hw2, hw16, hw18, hw21 and the remaining written answers are text.

Behaviour that the models have, or leave out, without a property, because no text of
the repository promises anything for it: a process killed after its last test of
PF_EXITING goes on until it enters the kernel again; programs that never enter the
kernel keep hw15's processor; hw17's queue has no limit, since the test is commented out.
