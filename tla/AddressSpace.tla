---------------------------- MODULE AddressSpace ----------------------------
(***************************************************************************)
(* User memory of hw15: the areas, page tables, page directories and       *)
(* reference counts of kern/mm/vmm.c and pmm.c, as do_fork, do_execve,     *)
(* do_exit and page faults (kern/process/proc.c) change them.  Memory is   *)
(* counted in pages; the kernel is not preempted, so that each operation   *)
(* is one step.  In C an operation is a sequence of calls of which each    *)
(* may fail: here each call is an operator from a state of the memory to   *)
(* the next, and M.err says how the last one went.                         *)
(***************************************************************************)
EXTENDS Integers, SequencesExt

CONSTANTS
  NFrame,        \* the frames of the machine
  NPage,         \* the pages a user may have; a stack ends at the last one
  PTPages,       \* the pages that a page table maps (PTSIZE / PGSIZE)
  StackPages,    \* USTACKPAGE
  StackReady,    \* the pages of the stack that load_icode maps at once
  KSTACKPAGE,    \* the adjacent frames of a kernel stack
  PerPage,       \* the structures for which a page of the heap has room
  NProc,         \* the process structures in use at most (MAX_PROCESS)
  Program,       \* the images that may be executed
  Value,         \* what a page may hold: "bss" is all zeros, "old" is what
                 \* the last user of the frame has left in it
  Written,       \* the values that users write
  NamePage       \* the pages where the name given to execve may lie

ASSUME AddressSpaceAssumption ==
  /\ {NFrame, NPage, PTPages, KSTACKPAGE, PerPage, NProc} \subseteq Nat \ {0}
  /\ StackReady \in 0 .. StackPages /\ StackPages \in 1 .. NPage
  /\ {"bss", "old"} \subseteq Value /\ Written \subseteq Value
  /\ NamePage \subseteq 0 .. NPage - 1

Frame == 1 .. NFrame
Page  == 0 .. NPage - 1
Proc  == 1 .. NProc
NULL  == 0
PDX(v) == v \div PTPages
PTX(v) == v % PTPages
Table == {PDX(v) : v \in Page}

VARIABLES
  mem,           \* the memory, see TypeOK
  proc,          \* of each process structure: its state, mm and kernel stack
  swap_init_ok   \* swap_init has succeeded

vars == <<mem, proc, swap_init_ok>>

Entry == [page : Frame \cup {NULL}, w : BOOLEAN]
NoEntry == [page |-> NULL, w |-> FALSE]
Area == [start : 0 .. NPage, end : 0 .. NPage, w : BOOLEAN, stack : BOOLEAN]
NoArea == [start |-> 0, end |-> 0, w |-> FALSE, stack |-> FALSE]
NoMm == [live |-> FALSE, count |-> 0, areas |-> << >>, cache |-> NoArea,
         pgdir |-> NULL, pde |-> [t \in Table |-> NULL]]
NoProc == [state |-> "none", mm |-> NULL, kstack |-> NULL]

TypeOK ==
  /\ mem.free \subseteq Frame /\ mem.heap \subseteq Frame
  /\ mem.ref \in [Frame -> Nat]
  /\ mem.content \in [Frame -> Value]
  /\ mem.pte \in [Frame -> [0 .. PTPages - 1 -> Entry]]
  /\ mem.room \in Nat
  /\ mem.page \in Frame \cup {NULL}
  /\ mem.err \in {"boot", "ok", "panic"}
  /\ \A m \in Proc :
       /\ mem.mm[m].live \in BOOLEAN /\ mem.mm[m].count \in 0 .. NProc
       /\ mem.mm[m].areas \in Seq(Area) /\ mem.mm[m].cache \in Area
       /\ mem.mm[m].pgdir \in Frame \cup {NULL}
       /\ mem.mm[m].pde \in [Table -> Frame \cup {NULL}]
  /\ proc \in [Proc -> [state : {"none", "live", "zombie"}, mm : Proc \cup {NULL},
                        kstack : Frame \cup {NULL}]]
  /\ swap_init_ok \in BOOLEAN

-----------------------------------------------------------------------------
(* Calls in sequence: the next one is made only if the last one succeeded. *)
Then(M, Op(_)) == IF M.err = "ok" THEN Op(M) ELSE M
Fail(M, e) == [M EXCEPT !.err = e]
Asserts(M, a) == IF M.err = "ok" /\ ~a THEN Fail(M, "panic") ELSE M

(* alloc_page.  Without a free frame, a kernel that may swap goes through  *)
(* check_mm_struct, which is NULL, and faults.  The frame is not cleared.  *)
AllocPage(M) ==
  IF M.free # {} THEN [M EXCEPT !.page = Min(M.free), !.free = @ \ {Min(M.free)}]
  ELSE Fail(M, IF swap_init_ok THEN "panic" ELSE "no_mem")

(* free_page clears the count, whatever it is.                             *)
FreePage(M, f) == [M EXCEPT !.free = @ \cup {f}, !.ref[f] = 0, !.content[f] = "old"]
Fill(M, x) == [M EXCEPT !.content[M.page] = x]

(* kmalloc and kfree of one structure: the heap takes pages for them and   *)
(* never gives one back.                                                   *)
Kmalloc(M) ==
  IF M.room > 0 THEN [M EXCEPT !.room = @ - 1]
  ELSE Then(AllocPage(M), LAMBDA N : [N EXCEPT !.heap = @ \cup {N.page}, !.room = PerPage - 1])
Kfree(M, n) == [M EXCEPT !.room = @ + n]

-----------------------------------------------------------------------------
(* Page tables.                                                            *)
Pte(M, m, v) ==
  LET t == M.mm[m].pde[PDX(v)] IN IF t = NULL THEN NoEntry ELSE M.pte[t][PTX(v)]
SetPte(M, m, v, e) == [M EXCEPT !.pte[M.mm[m].pde[PDX(v)]][PTX(v)] = e]

(* get_pte with create: makes the page table of v if there is none.        *)
GetPte(M, m, v) ==
  IF M.mm[m].pde[PDX(v)] # NULL THEN M
  ELSE Then(AllocPage(M), LAMBDA N :
         [N EXCEPT !.ref[N.page] = 1, !.mm[m].pde[PDX(v)] = N.page,
                   !.pte[N.page] = [i \in 0 .. PTPages - 1 |-> NoEntry]])

(* page_remove_pte.                                                        *)
PageRemove(M, m, v) ==
  LET f == Pte(M, m, v).page
      N == SetPte([M EXCEPT !.ref[f] = @ - 1], m, v, NoEntry)
  IN  IF f = NULL THEN M ELSE IF N.ref[f] = 0 THEN FreePage(N, f) ELSE N

(* page_insert of frame f.                                                 *)
PageInsert(M, m, v, f, w) ==
  Then(GetPte(M, m, v), LAMBDA N :
    SetPte(IF Pte(N, m, v).page = f THEN N
           ELSE PageRemove([N EXCEPT !.ref[f] = @ + 1], m, v),
           m, v, [page |-> f, w |-> w]))

(* pgdir_alloc_page of a page that holds x.                                *)
PgdirAlloc(M, m, v, w, x) ==
  Then(AllocPage(M), LAMBDA N :
    LET f == N.page
        R == PageInsert(Fill(N, x), m, v, f, w)
    IN  IF R.err = "no_mem" THEN FreePage(R, f) ELSE R)

Pages(a) == [i \in 1 .. a.end - a.start |-> a.start + i - 1]

(* unmap_range and exit_range of an area.                                  *)
UnmapRange(M, m, a) == FoldLeft(LAMBDA N, v : PageRemove(N, m, v), M, Pages(a))
ExitTable(M, m, t) ==
  LET f == M.mm[m].pde[t]
  IN  IF f = NULL THEN M
      ELSE FreePage([M EXCEPT !.mm[m].pde[t] = NULL,
                              !.pte[f] = [i \in 0 .. PTPages - 1 |-> NoEntry]], f)
ExitRange(M, m, a) == FoldSet(LAMBDA t, N : ExitTable(N, m, t), M, {PDX(v) : v \in a.start .. a.end - 1})

(* A slip: the child maps the parent's frame.                              *)
CopyPage_Shared(M, to, from, v) ==
  IF M.err # "ok" \/ Pte(M, from, v) = NoEntry THEN M
  ELSE PageInsert(M, to, v, Pte(M, from, v).page, Pte(M, from, v).w)
(* One round of copy_range: a frame that cannot be had fails an assertion. *)
CopyPage(M, to, from, v) ==
  IF M.err # "ok" \/ Pte(M, from, v) = NoEntry THEN M
  ELSE Then(GetPte(M, to, v), LAMBDA N :
    LET e == Pte(N, from, v)
        A == AllocPage(N)
    IN  IF A.err # "ok" THEN Fail(A, "panic")
        ELSE PageInsert(Fill(A, A.content[e.page]), to, v, A.page, e.w))
CopyRange(M, to, from, a) == FoldLeft(LAMBDA N, v : CopyPage(N, to, from, v), M, Pages(a))

-----------------------------------------------------------------------------
(* Areas.                                                                  *)
Within(a, v) == a.start <= v /\ v < a.end

(* find_vma, and the cache it leaves.                                      *)
FindVma(mm, v) ==
  IF Within(mm.cache, v) THEN mm.cache
  ELSE IF \E i \in DOMAIN mm.areas : Within(mm.areas[i], v)
       THEN SelectSeq(mm.areas, LAMBDA a : Within(a, v))[1] ELSE NoArea
Look(M, m, v) ==
  IF FindVma(M.mm[m], v) = NoArea THEN M
  ELSE [M EXCEPT !.mm[m].cache = FindVma(M.mm[m], v)]

(* insert_vma_struct: behind the last area that does not start later.      *)
InsertVma(M, m, a) ==
  LET s == M.mm[m].areas
      n == Cardinality({i \in DOMAIN s : s[i].start <= a.start})
  IN  IF \/ n > 0 /\ s[n].end > a.start
         \/ n < Len(s) /\ a.end > s[n + 1].start
      THEN Fail(M, "panic")
      ELSE [M EXCEPT !.mm[m].areas = InsertAt(s, n + 1, a)]

(* mm_map: only the area in which the new one starts is looked for.        *)
MmMap(M, m, a) ==
  LET N == Look(M, m, a.start)
  IN  IF FindVma(M.mm[m], a.start) # NoArea THEN Fail(N, "inval")
      ELSE Then(Kmalloc(N), LAMBDA R : InsertVma(R, m, a))

(* dup_mmap walks the list from its end.                                   *)
DupMmap(M, to, from) ==
  FoldRight(LAMBDA a, N :
      Then(Then(Then(N, Kmalloc), LAMBDA R : InsertVma(R, to, a)),
           LAMBDA R : CopyRange(R, to, from, a)),
    M.mm[from].areas, M)

(* A slip: the tables of an area go before the pages of the next.          *)
ExitMmap_OneLoop(M, m) ==
  FoldLeft(LAMBDA N, a : ExitRange(UnmapRange(N, m, a), m, a), M, M.mm[m].areas)
(* exit_mmap: first the pages of all areas, then the tables.               *)
ExitMmap(M, m) ==
  FoldLeft(LAMBDA N, a : ExitRange(N, m, a),
           FoldLeft(LAMBDA N, a : UnmapRange(N, m, a), M, M.mm[m].areas), M.mm[m].areas)

PutPgdir(M, m) == FreePage([M EXCEPT !.mm[m].pgdir = NULL], M.mm[m].pgdir)
MmDestroy(M, m) == Kfree([M EXCEPT !.mm[m] = NoMm], Len(M.mm[m].areas) + 1)
FreeMm(M, m) == MmDestroy(PutPgdir(ExitMmap(M, m), m), m)

(* mm_create of m, an mm that is not in use, and then setup_pgdir.         *)
NewMm(M) == Min({m \in Proc : ~M.mm[m].live})
MmNew(M, m) == Then(Kmalloc(M), LAMBDA N : [N EXCEPT !.mm[m] = [NoMm EXCEPT !.live = TRUE]])
MmCreate(M, m) ==
  Then(MmNew(M, m), LAMBDA N :
    LET A == AllocPage(N)
    IN  IF A.err = "no_mem" THEN MmDestroy(A, m) ELSE Then(A, LAMBDA R : [R EXCEPT !.mm[m].pgdir = R.page]))

(* do_exit and do_execve leave the old address space.                      *)
PutMm(M, m) ==
  IF m = NULL THEN M
  ELSE LET N == [M EXCEPT !.mm[m].count = @ - 1]
       IN  IF N.mm[m].count = 0 THEN FreeMm(N, m) ELSE N

-----------------------------------------------------------------------------
(* Outcomes: after a panic nothing matters, any other error was returned.  *)
Done(M) == mem' = IF M.err = "panic" THEN [mem EXCEPT !.err = "panic"]
                  ELSE [M EXCEPT !.page = NULL, !.err = "ok"]
Running(p) == mem.err = "ok" /\ proc[p].state = "live"

(* The lowest frames for a kernel stack.                                   *)
KStack(f) == f .. f + KSTACKPAGE - 1
KStacks(M) == {f \in Frame : KStack(f) \subseteq M.free}

(* copy_mm of a process with an address space.  A failure of dup_mmap      *)
(* undoes what it has copied.                                              *)
CopyMm(M, from, to, share) ==
  IF share THEN [M EXCEPT !.mm[from].count = @ + 1]
  ELSE LET N == MmCreate(M, to)
           R == DupMmap(N, to, from)
       IN  IF N.err # "ok" THEN N
           ELSE IF R.err = "no_mem" THEN FreeMm(R, to)
           ELSE Then(R, LAMBDA S : [S EXCEPT !.mm[to].count = 1])

(***************************************************************************)
(* do_fork.  clone_flags has CLONE_VM in share.                            *)
(***************************************************************************)
Fork(p, share) ==
  LET c == Min({q \in Proc : proc[q].state = "none"})
      P == Kmalloc(mem)
      k == Min(KStacks(P))
      K == [P EXCEPT !.free = @ \ KStack(k)]
      from == proc[p].mm
      to == IF share THEN from ELSE NewMm(K)
      R == IF from = NULL THEN K ELSE CopyMm(K, from, to, share)
  IN  /\ Running(p) /\ \E q \in Proc : proc[q].state = "none"
      /\ IF P.err # "ok" THEN Done(P) /\ UNCHANGED proc
         ELSE IF KStacks(P) = {} THEN Done(Kfree(P, 1)) /\ UNCHANGED proc
         ELSE IF R.err = "no_mem"
         THEN Done(Kfree([R EXCEPT !.free = @ \cup KStack(k)], 1)) /\ UNCHANGED proc
         ELSE /\ Done(R)
              /\ proc' = IF R.err # "ok" THEN proc
                         ELSE [proc EXCEPT ![c] = [state |-> "live", kstack |-> k,
                                  mm |-> IF from = NULL THEN NULL ELSE to]]
      /\ UNCHANGED swap_init_ok

(* do_exit, as far as memory goes.                                         *)
Exit(p) ==
  /\ Running(p)
  /\ Done(PutMm(mem, proc[p].mm))
  /\ proc' = [proc EXCEPT ![p].state = "zombie", ![p].mm = NULL]
  /\ UNCHANGED swap_init_ok

(* do_wait has found a zombie: put_kstack and kfree.                       *)
Reap(p) ==
  /\ mem.err = "ok" /\ proc[p].state = "zombie"
  /\ Done(Kfree([mem EXCEPT !.free = @ \cup KStack(proc[p].kstack)], 1))
  /\ proc' = [proc EXCEPT ![p] = NoProc]
  /\ UNCHANGED swap_init_ok

(* load_icode: one segment of the image, its pages with and without data.  *)
LoadSegment(M, m, s) ==
  IF M.err # "ok" \/ s.filesz = 0 THEN M
  ELSE IF s.filesz > s.memsz THEN Fail(M, "inval")
  ELSE LET a == [start |-> s.start, end |-> s.start + s.memsz, w |-> s.w, stack |-> FALSE]
       IN  FoldLeft(LAMBDA N, v :
              Then(N, LAMBDA R : PgdirAlloc(R, m, v, s.w,
                                   IF v < s.start + s.filesz THEN s.data ELSE "bss")),
            MmMap(M, m, a), Pages(a))

(* The stack: a page that cannot be had fails an assertion.                *)
LoadStack(M, m) ==
  LET a == [start |-> NPage - StackPages, end |-> NPage, w |-> TRUE, stack |-> TRUE]
      N == MmMap(M, m, a)
      R == FoldLeft(LAMBDA S, i : Then(S, LAMBDA T : PgdirAlloc(T, m, NPage - i, TRUE, "old")),
                    N, [i \in 1 .. StackReady |-> i])
  IN  IF N.err = "ok" /\ R.err # "ok" THEN Fail(R, "panic") ELSE R

(* load_icode into a new mm, with what it undoes when it fails.            *)
LoadIcode(M, m, prog) ==
  LET N == MmCreate(M, m)
      R == FoldLeft(LAMBDA S, s : LoadSegment(S, m, s), N, prog.segs)
      T == Then(R, LAMBDA S : LoadStack(S, m))
  IN  IF N.err # "ok" THEN N
      ELSE IF ~prog.magic THEN Fail(MmDestroy(PutPgdir(N, m), m), "inval")
      ELSE IF T.err \in {"no_mem", "inval"} THEN FreeMm(T, m)
      ELSE Then(T, LAMBDA S : [S EXCEPT !.mm[m].count = 1])

(* user_mem_check of the pages from v up to e, area by area.               *)
Refused(mm, v, wr) ==
  LET a == FindVma(mm, v)
  IN  a = NoArea \/ (wr /\ ~a.w) \/ (wr /\ a.stack /\ v < a.start + 1)
(* A slip: only the first page is looked at.                               *)
UserMemCheck_First(mm, v, e, wr) == e <= NPage /\ ~Refused(mm, v, wr)
UserMemCheck(mm, v, e, wr) ==
  LET Starts == {v} \cup {u \in v .. e - 1 : \E i \in DOMAIN mm.areas : mm.areas[i].end = u}
  IN  e <= NPage /\ \A u \in Starts : ~Refused(mm, u, wr)

(***************************************************************************)
(* do_execve: the name lies in page v of the caller.  When the image       *)
(* cannot be loaded the old address space is gone and the process exits.   *)
(***************************************************************************)
Exec(p, v, prog) ==
  LET m == proc[p].mm
      C == IF m = NULL THEN mem ELSE Look(mem, m, v)
      D == PutMm(C, m)
      n == NewMm(D)
      R == LoadIcode(D, n, prog)
  IN  /\ Running(p)
      /\ IF m # NULL /\ ~UserMemCheck(mem.mm[m], v, v + 1, FALSE)
         THEN Done(C) /\ UNCHANGED proc
         ELSE /\ Done(R)
              /\ proc' = IF R.err = "panic" THEN proc
                         ELSE [proc EXCEPT ![p].mm = IF R.err = "ok" THEN n ELSE NULL,
                                           ![p].state = IF R.err = "ok" THEN @ ELSE "zombie"]
      /\ UNCHANGED swap_init_ok

(* A user writes to a page it may write to.                                *)
Write(p, v, x) ==
  LET m == proc[p].mm
  IN  /\ Running(p) /\ m # NULL /\ Pte(mem, m, v).w
      /\ mem' = [mem EXCEPT !.content[Pte(mem, m, v).page] = x]
      /\ UNCHANGED <<proc, swap_init_ok>>

(***************************************************************************)
(* do_pgfault on any other access.  A fault that is refused, and one on a  *)
(* page that is present in an area one may write to, end in panic.         *)
(***************************************************************************)
Fault(p, v, wr) ==
  LET m == proc[p].mm
      a == FindVma(mem.mm[m], v)
      e == Pte(mem, m, v)
      L == Look(mem, m, v)
  IN  /\ Running(p) /\ m # NULL
      /\ e = NoEntry \/ (wr /\ ~e.w)
      /\ Done(IF a = NoArea \/ (wr /\ ~a.w) \/ e # NoEntry THEN Fail(L, "panic")
              ELSE LET R == Then(GetPte(L, m, v), LAMBDA N : PgdirAlloc(N, m, v, a.w, "old"))
                   IN  IF R.err = "ok" THEN R ELSE Fail(R, "panic"))
      /\ UNCHANGED <<proc, swap_init_ok>>

-----------------------------------------------------------------------------
(* check_vmm, with what it asserts.  check_vma_struct puts in small areas  *)
(* with gaps, the first of them downwards, and looks for every address, of *)
(* which any area may be in the cache; bound here: fewer areas.            *)
Step1 == 3
Step2 == 5
VmaAt(i) == [start |-> 5 * i, end |-> (5 * i) + 2, w |-> FALSE, stack |-> FALSE]
VmaCreate(M, m, a) == Then(Then(M, Kmalloc), LAMBDA N : InsertVma(N, m, a))

CheckVmaStruct(M, m) ==
  LET order == [i \in 1 .. Step2 |-> IF i <= Step1 THEN Step1 + 1 - i ELSE i]
      built == FoldLeft(LAMBDA N, i : VmaCreate(N, m, VmaAt(i)), MmNew(M, m), order)
      s == built.mm[m].areas
      Finds(v, c) == FindVma([built.mm[m] EXCEPT !.cache = c], v)
                       = IF v >= 5 /\ v % 5 < 2 THEN VmaAt(v \div 5) ELSE NoArea
  IN  MmDestroy(Asserts(built, /\ s = [i \in 1 .. Step2 |-> VmaAt(i)]
                               /\ \A v \in 0 .. (5 * Step2) + 4 : \A c \in ToSet(s) : Finds(v, c)), m)

(* check_pgfault: a write to a page of an area brings in a page and a page *)
(* table; with both freed by hand there are as many free pages as before.  *)
CheckPgfault(M, m) ==
  LET a == [start |-> 0, end |-> PTPages, w |-> TRUE, stack |-> FALSE]
      area == VmaCreate(MmNew(M, m), m, a)
      found == Look(Asserts(area, FindVma(area.mm[m], 0) = a), m, 0)
      fault == Then(GetPte(found, m, 0), LAMBDA N : PgdirAlloc(N, m, 0, a.w, "old"))
      done == MmDestroy(ExitTable(PageRemove(fault, m, 0), m, 0), m)
  IN  Asserts(done, Cardinality(done.free) = Cardinality(M.free))

(* vmm_init; then init_main forks user_main, which runs in the kernel.     *)
VmmInit ==
  LET M == Kmalloc(CheckPgfault(CheckVmaStruct([mem EXCEPT !.err = "ok"], 1), 1))
      k == Min(KStacks(M))
  IN  /\ mem.err = "boot"
      /\ Done([M EXCEPT !.free = @ \ KStack(k)])
      /\ proc' = IF M.err = "ok" THEN [proc EXCEPT ![1] = [state |-> "live", mm |-> NULL, kstack |-> k]]
                 ELSE proc
      /\ UNCHANGED swap_init_ok

Init ==
  /\ mem = [free |-> Frame, heap |-> {},
            ref |-> [f \in Frame |-> 0],
            content |-> [f \in Frame |-> "old"],
            pte |-> [f \in Frame |-> [i \in 0 .. PTPages - 1 |-> NoEntry]],
            room |-> PerPage,
            page |-> NULL, err |-> "boot", mm |-> [m \in Proc |-> NoMm]]
  /\ proc = [p \in Proc |-> NoProc]
  /\ swap_init_ok \in BOOLEAN

Next ==
  \/ VmmInit
  \/ \E p \in Proc :
       \/ Exit(p) \/ Reap(p)
       \/ \E share \in BOOLEAN : Fork(p, share)
       \/ \E v \in Page :
            \/ \E x \in Written : Write(p, v, x)
            \/ \E wr \in BOOLEAN : Fault(p, v, wr)
       \/ \E v \in IF proc[p].mm = NULL THEN {NULL} ELSE NamePage, prog \in Program :
            Exec(p, v, prog)

Spec == Init /\ [][Next]_vars

-----------------------------------------------------------------------------
Live == {m \in Proc : mem.mm[m].live}
Users(m) == {p \in Proc : proc[p].mm = m}

(* The uses of a frame, each of which would free it by itself.             *)
Uses(f) ==
  LET One(b) == IF b THEN 1 ELSE 0
  IN  One(f \in mem.free) + One(f \in mem.heap)
      + Cardinality({m \in Live : mem.mm[m].pgdir = f})
      + Cardinality({x \in Live \X Table : mem.mm[x[1]].pde[x[2]] = f})
      + Cardinality({x \in Live \X Page : Pte(mem, x[1], x[2]).page = f})
      + Cardinality({p \in Proc : proc[p].state # "none" /\ f \in KStack(proc[p].kstack)})

(* mm_count is the number of processes that run in an address space, and   *)
(* one without a process is gone.                                          *)
CountsExact ==
  mem.err = "ok" =>
    /\ \A m \in Proc : mem.mm[m].count = Cardinality(Users(m)) /\ (m \in Live <=> Users(m) # {})
    /\ \A p \in Proc : proc[p].mm # NULL => proc[p].state = "live"

(* No frame is leaked, freed twice or freed in use, however an operation   *)
(* ended: each has exactly one use, and page->ref counts the entries that  *)
(* hold it.  Of the heap, every structure is in use or free; and the       *)
(* counts of the address spaces, on which their end depends, are exact.    *)
(* A panic is a process's doing: the assertions of check_vmm hold.         *)
FramesExact ==
  TypeOK /\ CountsExact /\ (mem.err = "panic" => \E p \in Proc : proc[p].state = "live") /\ (mem.err = "ok" =>
    /\ \A f \in Frame : Uses(f) = 1
    /\ \A f \in Frame : mem.ref[f] =
         Cardinality({x \in Live \X Table : mem.mm[x[1]].pde[x[2]] = f})
         + Cardinality({x \in Live \X Page : Pte(mem, x[1], x[2]).page = f})
    /\ mem.room + Cardinality({p \in Proc : proc[p].state # "none"})
         + FoldSet(LAMBDA m, n : n + 1 + Len(mem.mm[m].areas), 0, Live)
       = PerPage * (1 + Cardinality(mem.heap)))

(* What user_mem_check has approved the kernel may touch: an access to any *)
(* page of the range hits, or faults in a way that do_pgfault serves as    *)
(* long as there is memory.                                                *)
CheckedIsServed ==
  mem.err = "ok" => \A m \in Live, v \in Page, wr \in BOOLEAN : \A e \in v + 1 .. NPage :
    UserMemCheck(mem.mm[m], v, e, wr) =>
      \A u \in v .. e - 1 :
        LET a == FindVma(mem.mm[m], u)
        IN  /\ a # NoArea /\ (wr => a.w)
            /\ wr /\ Pte(mem, m, u) # NoEntry => Pte(mem, m, u).w

(* The areas are in order and apart; find_vma, which asks its cache first, *)
(* answers with the one area a page lies in; a page is mapped only inside  *)
(* an area, with its right to write; and every page table belongs to an    *)
(* area, for exit_range would not find it otherwise.  What is checked      *)
(* against the areas is served from them.                                  *)
AreasExact ==
  CheckedIsServed /\ (mem.err = "ok" => \A m \in Live :
    LET s == mem.mm[m].areas
    IN  /\ \A i \in DOMAIN s : s[i].start < s[i].end /\ s[i].end <= NPage
        /\ \A i, j \in DOMAIN s : i < j => s[i].end <= s[j].start
        /\ \A v \in Page :
             LET a == FindVma(mem.mm[m], v)
             IN  /\ a \in ToSet(s) \cup {NoArea}
                 /\ \A i \in DOMAIN s : Within(s[i], v) <=> a = s[i]
                 /\ Pte(mem, m, v) # NoEntry => a # NoArea /\ Pte(mem, m, v).w = a.w
        /\ \A t \in Table : mem.mm[m].pde[t] # NULL =>
             \E i \in DOMAIN s : t \in PDX(s[i].start) .. PDX(s[i].end - 1))

(* Each process has a memory of its own: a child starts with a copy of its *)
(* parent's, execve with the image, and nobody else's writes show.         *)
Abs == INSTANCE ProcessMemory WITH
  Space  <- Proc,
  space  <- [p \in Proc |-> proc[p].mm],
  memory <- [m \in Proc |-> [v \in Page |->
               IF Users(m) = {} \/ Pte(mem, m, v) = NoEntry THEN "none"
               ELSE mem.content[Pte(mem, m, v).page]]]
KeepsPromise == Abs!Spec
=============================================================================
