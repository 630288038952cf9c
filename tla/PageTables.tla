----------------------------- MODULE PageTables -----------------------------
(***************************************************************************)
(* The page directories and tables of hw13 as the processor sees them:     *)
(* kern/mm/pmm.c, with the calls that do_fork, do_execve, do_exit, page    *)
(* faults and proc_run (kern/process/proc.c) make, and the translations    *)
(* the TLB keeps.  The TLB may keep any translation it has used until the  *)
(* entry is invalidated or cr3 is loaded.  Addresses are counted in pages; *)
(* the kernel's own part, the same in every directory, is left out.        *)
(***************************************************************************)
EXTENDS Integers, SequencesExt

CONSTANTS
  NFrame,        \* frames, the boot directory's included
  NPTEENTRY,     \* entries of a page table
  NPDEENTRY,     \* entries of a page directory
  NDir           \* directories of users

Frame == 1 .. NFrame
Boot  == 0             \* boot_pgdir
User  == 1 .. NDir
Dir   == {Boot} \cup User
Page  == 0 .. (NPTEENTRY * NPDEENTRY) - 1
NULL  == 0
Perm  == {"ur-", "urw", "-rw", "-r-"}

PageTablesAssumption == {NFrame, NPTEENTRY, NPDEENTRY, NDir} \subseteq Nat \ {0}

PDX(la) == la \div NPTEENTRY
PTX(la) == la % NPTEENTRY
NoEntry == [frame |-> NULL, perm |-> "-r-"]
Entry(f, perm) == [frame |-> f, perm |-> perm]
EmptyTable == [x \in 0 .. NPTEENTRY - 1 |-> NoEntry]
EmptyDir == [x \in 0 .. NPDEENTRY - 1 |-> NULL]

VARIABLES
  mem,           \* the frames, directories and tables, and the processor: see TypeOK
  booted         \* pmm_init is over

vars == <<mem, booted>>

TypeOK ==
  /\ mem.free \subseteq Frame
  /\ mem.got \in Frame \cup {NULL}                  \* of the last alloc_page
  /\ mem.ref \in [Frame -> Nat]
  /\ mem.root \in [Dir -> Frame \cup {NULL}]        \* the directory's own frame
  /\ mem.dir \in [Dir -> [0 .. NPDEENTRY - 1 -> Frame \cup {NULL}]]
  /\ mem.table \in [Frame -> [0 .. NPTEENTRY - 1 -> [frame : Frame \cup {NULL}, perm : Perm]]]
  /\ mem.cr3 \in Dir
  /\ mem.tlb \in [Page -> [frame : Frame \cup {NULL}, perm : Perm]]
  /\ mem.err \in {"ok", "no_mem", "panic"}
  /\ booted \in BOOLEAN

(* page_init, and boot_alloc_page for boot_pgdir.                          *)
Init ==
  /\ mem = [free |-> Frame \ {1}, got |-> NULL, ref |-> [f \in Frame |-> 0],
            root |-> [d \in Dir |-> IF d = Boot THEN 1 ELSE NULL],
            dir |-> [d \in Dir |-> EmptyDir],
            table |-> [f \in Frame |-> EmptyTable],
            cr3 |-> Boot, tlb |-> [la \in Page |-> NoEntry], err |-> "ok"]
  /\ booted = FALSE

-----------------------------------------------------------------------------
(* Calls in sequence: each maps the memory to the next, unless one failed. *)
Then(M, Op(_)) == IF M.err = "ok" THEN Op(M) ELSE M
Asserts(M, A) == IF M.err = "ok" /\ ~A THEN [M EXCEPT !.err = "panic"] ELSE M

(* alloc_page and free_page, which clears the count whatever it is; what   *)
(* was in the frame does not matter, a table is cleared when it is made.   *)
AllocPage(M) ==
  IF M.free = {} THEN [M EXCEPT !.err = "no_mem"]
  ELSE [M EXCEPT !.got = Min(M.free), !.free = @ \ {Min(M.free)}]
FreePage(M, f) == [M EXCEPT !.free = @ \cup {f}, !.ref[f] = 0, !.table[f] = EmptyTable]

(* get_pte without create, and get_page.                                   *)
Pte(M, d, la) ==
  IF M.dir[d][PDX(la)] = NULL THEN NoEntry ELSE M.table[M.dir[d][PDX(la)]][PTX(la)]
GetPage(M, d, la) == Pte(M, d, la).frame
SetPte(M, d, la, e) == [M EXCEPT !.table[M.dir[d][PDX(la)]][PTX(la)] = e]

(* get_pte with create.                                                    *)
GetPte(M, d, la) ==
  IF M.dir[d][PDX(la)] # NULL THEN M
  ELSE Then(AllocPage(M), LAMBDA N :
         [N EXCEPT !.ref[N.got] = 1, !.table[N.got] = EmptyTable, !.dir[d][PDX(la)] = N.got])

TlbInvalidate(M, d, la) == IF M.cr3 = d THEN [M EXCEPT !.tlb[la] = NoEntry] ELSE M

(* A slip: the TLB keeps what it has.                                      *)
Lcr3_KeepsTlb(M, d) == [M EXCEPT !.cr3 = d]
Lcr3(M, d) == [M EXCEPT !.cr3 = d, !.tlb = [la \in Page |-> NoEntry]]

PageRemove(M, d, la) ==
  LET f == GetPage(M, d, la)
      N == SetPte([M EXCEPT !.ref[f] = @ - 1], d, la, NoEntry)
  IN  IF f = NULL THEN M
      ELSE TlbInvalidate(IF N.ref[f] = 0 THEN FreePage(N, f) ELSE N, d, la)

(* A slip: a page that is mapped there is overwritten and stays counted.   *)
PageInsert_Overwrites(M, d, f, la, perm) ==
  Then(GetPte(M, d, la), LAMBDA N :
    TlbInvalidate(SetPte([N EXCEPT !.ref[f] = @ + 1], d, la, Entry(f, perm)), d, la))
PageInsert(M, d, f, la, perm) ==
  Then(GetPte(M, d, la), LAMBDA N :
    LET R == [N EXCEPT !.ref[f] = @ + 1]
        S == IF GetPage(N, d, la) = f THEN N ELSE PageRemove(R, d, la)
    IN  TlbInvalidate(SetPte(S, d, la, Entry(f, perm)), d, la))

PgdirAllocPage(M, d, la, perm) ==
  Then(AllocPage(M), LAMBDA N :
    LET R == PageInsert(N, d, N.got, la, perm)
    IN  IF R.err = "no_mem" THEN FreePage(R, N.got) ELSE R)

Sorted(S) == SetToSortSeq(S, <)
(* copy_range of everything: it asserts that a frame can be had, but       *)
(* returns when a table cannot.                                            *)
CopyRange(M, to, from) ==
  FoldLeft(LAMBDA N, la :
      IF GetPage(N, from, la) = NULL THEN N
      ELSE Then(Then(N, LAMBDA R : GetPte(R, to, la)), LAMBDA R :
             LET A == AllocPage(R)
             IN  IF A.err = "no_mem" THEN Asserts(R, FALSE)
                 ELSE PageInsert(A, to, A.got, la, Pte(A, from, la).perm)),
    M, Sorted(Page))

(* exit_mmap: unmap_range of everything, then exit_range.                  *)
UnmapRange(M, d) == FoldLeft(LAMBDA N, la : PageRemove(N, d, la), M, Sorted(Page))
FreeTable(M, d, x) ==
  IF M.dir[d][x] = NULL THEN M ELSE FreePage([M EXCEPT !.dir[d][x] = NULL], M.dir[d][x])
ExitRange(M, d) == FoldLeft(LAMBDA N, x : FreeTable(N, d, x), M, Sorted(DOMAIN M.dir[d]))

SetupPgdir(M, d) == Then(AllocPage(M), LAMBDA N : [N EXCEPT !.root[d] = N.got])
PutPgdir(M, d) ==
  LET N == ExitRange(UnmapRange(M, d), d)
  IN  FreePage([N EXCEPT !.root[d] = NULL], N.root[d])

-----------------------------------------------------------------------------
(* The checks of pmm_init, with what they assert.                          *)
Refs(M, p, n) == Asserts(M, M.ref[p] = n)
Maps(M, la, p, perm) == Asserts(M, Pte(M, Boot, la) = Entry(p, perm))

CheckPgdir(M) ==
  LET A == AllocPage(Asserts(M, GetPage(M, Boot, 0) = NULL))
      p1 == A.got
      B == Refs(Maps(PageInsert(A, Boot, p1, 0, "-r-"), 0, p1, "-r-"), p1, 1)
      C == AllocPage(B)
      p2 == C.got
      D == Refs(Maps(PageInsert(C, Boot, p2, 1, "urw"), 1, p2, "urw"), p2, 1)
      E == Refs(Refs(Maps(PageInsert(D, Boot, p1, 1, "-r-"), 1, p1, "-r-"), p1, 2), p2, 0)
      F == Refs(Refs(PageRemove(E, Boot, 0), p1, 1), p2, 0)
      G == Refs(Refs(PageRemove(F, Boot, 1), p1, 0), p2, 0)
  IN  FreeTable(Refs(G, G.dir[Boot][0], 1), Boot, 0)

(* The processor translates la.                                            *)
Translate(M, la) == IF M.tlb[la] # NoEntry THEN M.tlb[la] ELSE Pte(M, M.cr3, la)
Access(M, la) == [M EXCEPT !.tlb[la] = Translate(M, la)]

(* The page is freed with two entries that map it, and the table with it;  *)
(* the translations used for strcpy and strcmp stay in the TLB.            *)
CheckBootPgdir(M) ==
  LET A == AllocPage(Asserts(M, M.dir[Boot][0] = NULL))
      p == A.got
      B == Refs(PageInsert(A, Boot, p, 0, "-rw"), p, 1)
      C == Refs(PageInsert(B, Boot, p, 1, "-rw"), p, 2)
      D == Access(Access(C, 0), 1)
      E == Asserts(D, Translate(D, 0).frame = Translate(D, 1).frame)
  IN  FreeTable(FreePage(E, p), Boot, 0)

-----------------------------------------------------------------------------
(* get_pgtable_items from start on: the next run of equal permissions, "no" *)
(* where nothing is present.                                               *)
Stops(t, left) == {x \in DOMAIN t : x > left /\ t[x] # t[left]}
Items(t, right) ==
  LET items[start \in 0 .. right] ==
        LET present == {x \in DOMAIN t : x >= start /\ t[x] # "no"}
            left == Min(present)
            stop == Min(Stops(t, left) \cup {right})
        IN  IF present = {} THEN << >>
            ELSE << [left |-> left, right |-> stop, perm |-> t[left]] >> \o items[stop]
  IN  items

(* print_pgdir: for each run of tables the runs of pages in it.            *)
PermOf(M, d, la) == IF GetPage(M, d, la) = NULL THEN "no" ELSE Pte(M, d, la).perm
PrintPgdir(M, d) ==
  LET pde == [x \in DOMAIN M.dir[d] |-> IF M.dir[d][x] = NULL THEN "no" ELSE "urw"]
      Ptes(i) == LET t == [la \in i.left * NPTEENTRY .. (i.right * NPTEENTRY) - 1 |-> PermOf(M, d, la)]
                 IN  Items(t, i.right * NPTEENTRY)[i.left * NPTEENTRY]
      tables == Items(pde, NPDEENTRY)[0]
  IN  [i \in DOMAIN tables |-> Ptes(tables[i])]

-----------------------------------------------------------------------------
Done(M) == mem' = [M EXCEPT !.got = NULL, !.err = IF @ = "panic" THEN @ ELSE "ok"]
Running == booted /\ mem.err = "ok"

PmmInit ==
  /\ ~booted /\ booted' = TRUE
  /\ Done(CheckBootPgdir(CheckPgdir(mem)))

(* The program's text is in page 0, its data elsewhere.                    *)
AreaPerm(la) == IF la = 0 THEN "ur-" ELSE "urw"

(* proc_run.                                                               *)
Switch(d) == Running /\ mem.root[d] # NULL /\ Done(Lcr3(mem, d)) /\ UNCHANGED booted

(* A user, or the kernel for it, uses a page.                              *)
Use(la) ==
  /\ Running /\ mem.cr3 # Boot /\ Translate(mem, la) # NoEntry
  /\ Done(Access(mem, la)) /\ UNCHANGED booted

(* do_pgfault of a page that is not there.                                 *)
Fault(la) ==
  /\ Running /\ mem.cr3 # Boot /\ GetPage(mem, mem.cr3, la) = NULL
  /\ Done(PgdirAllocPage(mem, mem.cr3, la, AreaPerm(la))) /\ UNCHANGED booted

(* copy_mm for a child.                                                    *)
Fork(d) ==
  /\ Running /\ mem.cr3 # Boot /\ mem.root[d] = NULL
  /\ LET N == SetupPgdir(mem, d)
         R == CopyRange(N, d, mem.cr3)
     IN  Done(IF N.err # "ok" THEN N ELSE IF R.err = "no_mem" THEN PutPgdir(R, d) ELSE R)
  /\ UNCHANGED booted

(* do_exit and the first half of do_execve.                                *)
Leave ==
  /\ Running /\ mem.cr3 # Boot
  /\ Done(PutPgdir(Lcr3(mem, Boot), mem.cr3)) /\ UNCHANGED booted

(* load_icode: a directory, pages (one where two segments meet is replaced), *)
(* and at the end it is loaded.                                            *)
NewDir(d) == Running /\ mem.cr3 = Boot /\ mem.root[d] = NULL /\ Done(SetupPgdir(mem, d)) /\ UNCHANGED booted
Load(d, la) ==
  /\ Running /\ mem.cr3 = Boot /\ mem.root[d] # NULL
  /\ Done(PgdirAllocPage(mem, d, la, AreaPerm(la))) /\ UNCHANGED booted

Next ==
  \/ PmmInit \/ Leave
  \/ \E d \in Dir : Switch(d)
  \/ \E d \in User : Fork(d) \/ NewDir(d)
  \/ \E la \in Page : Use(la) \/ Fault(la)
  \/ \E d \in User, la \in Page : Load(d, la)

Spec == Init /\ [][Next]_vars

-----------------------------------------------------------------------------
(* Every frame is free or has one use, and its count is the number of      *)
(* entries that lead to it (page_remove_pte frees at 0); users share none. *)
Mappings(f) == {x \in Dir \X Page : GetPage(mem, x[1], x[2]) = f}
Tables(f) == {x \in Dir \X DOMAIN EmptyDir : mem.dir[x[1]][x[2]] = f}
Roots(f) == {d \in Dir : mem.root[d] = f}
FramesExact ==
  /\ TypeOK
  /\ \A f \in Frame :
       LET uses == Cardinality(Mappings(f)) + Cardinality(Tables(f))
       IN  /\ mem.ref[f] = uses
           /\ uses + Cardinality(Roots(f)) + (IF f \in mem.free THEN 1 ELSE 0) = 1

(* A user never gets at memory by a translation that its tables no longer  *)
(* hold: the TLB agrees with the tables in use.                            *)
TlbExact ==
  mem.cr3 # Boot => \A la \in Page : mem.tlb[la] \in {NoEntry, Pte(mem, mem.cr3, la)}

(* print_pgdir shows each page that is present, once, with its permissions, *)
(* and joins pages wherever it can.                                        *)
PrintExact ==
  \A d \in {e \in Dir : mem.root[e] # NULL} :
    LET lines == PrintPgdir(mem, d)
        all == FlattenSeq(lines)
    IN  /\ \A la \in Page :
             {all[i].perm : i \in {j \in DOMAIN all : la \in all[j].left .. all[j].right - 1}}
               = {PermOf(mem, d, la)} \ {"no"}
        /\ \A i, j \in DOMAIN all : i < j => all[i].right <= all[j].left
        /\ \A k \in DOMAIN lines : \A i \in 1 .. Len(lines[k]) - 1 :
             lines[k][i].right = lines[k][i + 1].left => lines[k][i].perm # lines[k][i + 1].perm

(* The tables are what the frames' counts and print_pgdir make of them; the *)
(* checks of pmm_init find them so, and of the assertions only those of    *)
(* copy_range fail, which take it for granted that there is memory.        *)
TablesExact == FramesExact /\ PrintExact /\ (mem.err = "panic" => mem.free = {})
=============================================================================
