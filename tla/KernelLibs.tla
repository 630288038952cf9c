----------------------------- MODULE KernelLibs -----------------------------
(***************************************************************************)
(* The parts of the kernels of hw13 and hw15 that stand by themselves,     *)
(* side by side: one of them, chosen at the start, goes on.  They are what *)
(* stride scheduling promises, Stride; the scheduling class with its skew  *)
(* heap, which implements it with its own number of strides; the red-black *)
(* tree; printing and strings; the symbol table; the page tables.          *)
(***************************************************************************)
EXTENDS Stride

CONSTANTS
  NoProc, ClassHalf, ClassPriority,                             \* default_sched.c
  Node, nil, treeroot, NodeKey,                                 \* rb_tree.c
  Width, Alphabet, MaxFormat, Num, Str, BufferSize,             \* printfmt.c
  Cells, Char, WORD,                                            \* string.c
  MaxStabs, MaxAddr,                                            \* kdebug.c
  NFrame, NPTEENTRY, NPDEENTRY, NDir                            \* pmm.c

VARIABLES
  goes_on,
  state, class_stride, class_priority, heap, root, proc_num, class_current,
  t, members,
  format, num, str, size, printed, count, buf,
  before, after, call, answer,
  table, at, sought, info,
  mem, booted

Class == INSTANCE StrideSched WITH
  HALF <- ClassHalf, Priority <- ClassPriority, NULL <- NoProc,
  stride <- class_stride, priority <- class_priority, current <- class_current
Rb   == INSTANCE RbTree WITH Key <- NodeKey, root <- treeroot
Lib  == INSTANCE Text WITH Size <- BufferSize
Stab == INSTANCE StabSearch
Tab  == INSTANCE PageTables

ASSUME KernelLibsAssumption ==
  /\ Class!SchedAssumption /\ Rb!RbTreeAssumption /\ Lib!TextAssumption
  /\ Stab!StabSearchAssumption /\ Tab!PageTablesAssumption

Idle(v) == v = "idle"

LibsInit ==
  /\ goes_on \in {"promise", "class", "rbtree", "text", "strings", "stabs", "tables"}
  /\ Init /\ Class!Init
  /\ IF goes_on = "rbtree" THEN Rb!Init ELSE Idle(t) /\ Idle(members)
  /\ IF goes_on = "text" THEN Lib!Init
     ELSE /\ Idle(format) /\ Idle(num) /\ Idle(str) /\ Idle(size)
          /\ Idle(printed) /\ Idle(count) /\ Idle(buf)
  /\ IF goes_on = "strings" THEN Lib!MemoryInit ELSE Idle(before) /\ Idle(after) /\ Idle(call) /\ Idle(answer)
  /\ IF goes_on = "stabs" THEN Stab!Init ELSE Idle(table) /\ Idle(at) /\ Idle(sought) /\ Idle(info)
  /\ IF goes_on = "tables" THEN Tab!Init ELSE Idle(mem) /\ Idle(booted)

classvars == <<state, class_stride, class_priority, heap, root, proc_num, class_current>>
rbvars    == <<t, members>>
textvars  == <<format, num, str, size, printed, count, buf>>
memvars   == <<before, after, call, answer>>
stabvars  == <<table, at, sought, info>>
tabvars   == <<mem, booted>>
allvars   == <<goes_on, vars, classvars, rbvars, textvars, memvars, stabvars, tabvars>>

LibsNext ==
  /\ UNCHANGED goes_on
  /\ \/ /\ goes_on = "promise" /\ Next
        /\ UNCHANGED <<classvars, rbvars, textvars, memvars, stabvars, tabvars>>
     \/ /\ goes_on = "class" /\ Class!Next
        /\ UNCHANGED <<vars, rbvars, textvars, memvars, stabvars, tabvars>>
     \/ /\ goes_on = "rbtree" /\ Rb!Next
        /\ UNCHANGED <<vars, classvars, textvars, memvars, stabvars, tabvars>>
     \/ /\ goes_on = "text" /\ Lib!Next
        /\ UNCHANGED <<vars, classvars, rbvars, memvars, stabvars, tabvars>>
     \/ /\ goes_on = "strings" /\ Lib!MemoryNext
        /\ UNCHANGED <<vars, classvars, rbvars, textvars, stabvars, tabvars>>
     \/ /\ goes_on = "stabs" /\ Stab!Next
        /\ UNCHANGED <<vars, classvars, rbvars, textvars, memvars, tabvars>>
     \/ /\ goes_on = "tables" /\ Tab!Next
        /\ UNCHANGED <<vars, classvars, rbvars, textvars, memvars, stabvars>>

LibsSpec == LibsInit /\ [][LibsNext]_allvars

(* The scheduling class of hw15 keeps its pool exact and the promise of    *)
(* stride scheduling, whoever comes and goes.                              *)
KeepsPromise ==
  /\ Class!Abs!Init /\ [][goes_on = "class" => Class!KeepsPromise]_allvars
  /\ [](goes_on = "class" => Class!PoolExact)

(* Under that class a process in the queue gets the processor, whatever    *)
(* strides the others had when they entered, as long as schedule() goes on *)
(* being called, nobody enters any more and no priority is above           *)
(* BIG_STRIDE.  The processes are alike: one of them stands for all.       *)
Someone == CHOOSE p \in Proc : TRUE
EveryonePicked ==
  /\ []<><<goes_on = "class" /\ Class!Schedule>>_classvars
  /\ <>[][goes_on = "class" => Class!Present' \subseteq Class!Present]_classvars
  /\ <>[](goes_on = "class" => \A p \in Class!Present : class_priority[p] < ClassHalf)
  => (goes_on = "class" /\ Someone \in Class!queue) ~> (class_current = Someone)

(* rb_tree.c: the tree is a red-black tree of the nodes put into it.       *)
RbExact == goes_on = "rbtree" => Rb!RbExact

(* printfmt.c, string.c: what is printed, and what the routines on memory  *)
(* and strings answer and write.                                           *)
TextExact == (goes_on = "text" => Lib!PrintExact) /\ (goes_on = "strings" => Lib!StringsExact)

(* kdebug.c: an address is found in the file and the function it is in,    *)
(* and which stab the line reported for it comes from.                     *)
BacktraceExact == goes_on = "stabs" => Stab!BacktraceExact

(* pmm.c: every frame has one use and is counted right, and print_pgdir    *)
(* shows what the tables hold.                                             *)
TablesExact == goes_on = "tables" => Tab!TablesExact

(* pmm.c, proc.c: no translation in use is stale.                          *)
TlbExact == goes_on = "tables" => Tab!TlbExact

-----------------------------------------------------------------------------
(* Values for TLC: nodes with equal data; numbers of eight bits at their   *)
(* limits, a short text and no text.                                       *)
K == <<1, 2, 3, 4, 5, 6, 6>>
Numbers == {0, 5, -3, 100, -128}
Texts == {<<"a", "b">>, <<"NULL">>}
=============================================================================
