------------------------------ MODULE ProcLife ------------------------------
(***************************************************************************)
(* The life cycle of ucore processes (hw15/lab6_result, kern/process/      *)
(* proc.c, kern/schedule/sched.c, kern/trap/trap.c, kern/syscall): fork,   *)
(* exit, wait, kill, yield, the wake-ups between them and the switch of    *)
(* the processor.                                                          *)
(*                                                                         *)
(* The kernel is not preemptible: code in the kernel runs until it calls   *)
(* schedule() or returns to user mode, so one action is one such stretch   *)
(* of the current process.  pc[p] is where p continues when it runs next:  *)
(*   "user"       in its user program                                      *)
(*   "ret"        in trap(), after trap_dispatch()                         *)
(*   "wait"       at the label repeat of do_wait()                         *)
(*   "woken"      in do_wait(), behind its call of schedule()              *)
(*   "user_main"  at the start of the kernel thread user_main()            *)
(*   "init_main"  at the start of init_main(); "init_loop" in the body of  *)
(*                its while, "init_end" behind the while                   *)
(*   "idle"       in cpu_idle()                                            *)
(* A process is named by its pid; the pool Proc is the process structures  *)
(* that kmalloc can give out, and is reused.  The run queue is a set: which *)
(* of its members pick_next returns is left open (the class of sched.c is  *)
(* replaceable), and the order of a child list is left out.                *)
(***************************************************************************)
EXTENDS Integers, FiniteSets

CONSTANTS
  Proc,          \* every process structure, idleproc and initproc included
  idleproc,      \* pid 0
  initproc,      \* pid 1
  NULL,          \* no process: a null pointer, and the pid 0 given to do_wait
  MAX_PROCESS    \* the limit that do_fork puts on nr_process

ASSUME ProcAssumption ==
  /\ idleproc \in Proc /\ initproc \in Proc /\ idleproc # initproc
  /\ NULL \notin Proc
  /\ IsFiniteSet(Proc)
  /\ MAX_PROCESS \in Nat
  /\ MAX_PROCESS > 2

VARIABLES
  state,         \* proc->state; "FREE" when the structure is not allocated
  wait_state,    \* proc->wait_state: is it WT_CHILD
  exiting,       \* proc->flags & PF_EXITING
  need_resched,  \* proc->need_resched
  parent,        \* proc->parent; the child lists are its inverse
  pc,            \* where the process continues
  waitpid,       \* the first argument of the do_wait it is in
  current,       \* the process on the processor
  runq,          \* the run queue
  nr_process,    \* the number of processes
  panic          \* "none", or why the kernel stopped

vars == <<state, wait_state, exiting, need_resched, parent, pc, waitpid,
          current, runq, nr_process, panic>>

User      == Proc \ {idleproc, initproc}
Allocated == {p \in Proc : state[p] # "FREE"}

(* The list from p->cptr along optr. *)
Children(p) == {c \in Allocated : parent[c] = p}

UserLabels == {"user", "ret", "wait", "woken", "user_main"}
InitLabels == {"init_main", "init_loop", "init_end", "wait", "woken"}

TypeOK ==
  /\ state \in [Proc -> {"FREE", "RUNNABLE", "SLEEPING", "ZOMBIE"}]
  /\ wait_state \in [Proc -> BOOLEAN]
  /\ exiting \in [Proc -> BOOLEAN]
  /\ need_resched \in [Proc -> BOOLEAN]
  /\ parent \in [Proc -> Proc \cup {NULL}]
  /\ pc \in [Proc -> UserLabels \cup InitLabels \cup {"idle"}]
  /\ pc[idleproc] = "idle"
  /\ pc[initproc] \in InitLabels
  /\ \A p \in User : pc[p] \in UserLabels
  /\ waitpid \in [Proc -> Proc \cup {NULL}]
  /\ current \in Proc
  /\ runq \subseteq Proc
  /\ nr_process \in Int
  /\ panic \in {"none", "initproc exit", "user fault", "assert"}

(***************************************************************************)
(* proc_init has made idleproc by hand and initproc with kernel_thread;    *)
(* cpu_idle is about to look at need_resched.                              *)
(***************************************************************************)
Init ==
  /\ state = [p \in Proc |-> IF p \in User THEN "FREE" ELSE "RUNNABLE"]
  /\ wait_state = [p \in Proc |-> FALSE]
  /\ exiting = [p \in Proc |-> FALSE]
  /\ need_resched = [p \in Proc |-> p = idleproc]
  /\ parent = [p \in Proc |-> IF p = initproc THEN idleproc ELSE NULL]
  /\ pc = [p \in Proc |-> IF p = idleproc THEN "idle"
                          ELSE IF p = initproc THEN "init_main" ELSE "user"]
  /\ waitpid = [p \in Proc |-> NULL]
  /\ current = idleproc
  /\ runq = {initproc}
  /\ nr_process = 2
  /\ panic = "none"

-----------------------------------------------------------------------------
(* The processes among W that wakeup_proc makes runnable and enqueues; one *)
(* that is runnable already is left alone with a warning.                  *)
Woken(W) == {w \in W : state[w] # "RUNNABLE"}

(***************************************************************************)
(* schedule(), called by the current process with its state s and the run  *)
(* queue q: a runnable caller goes back to the queue (idleproc never does),*)
(* the picked process leaves it, and idleproc runs if there is none.       *)
(***************************************************************************)
Schedule(s, q) ==
  LET ready == IF s = "RUNNABLE" /\ current # idleproc THEN q \cup {current} ELSE q
  IN  /\ need_resched' = [need_resched EXCEPT ![current] = FALSE]
      /\ \E next \in IF ready = {} THEN {idleproc} ELSE ready :
           /\ current' = next
           /\ runq' = ready \ {next}

(* Slips: initproc sleeps on when it inherits a zombie; only initproc is    *)
(* ever woken.                                                             *)
ExitWakes_ParentOnly(p) == {w \in {parent[p]} : wait_state[w]}
ExitWakes_InitOnly(p)   ==
  {w \in {initproc} : wait_state[w] /\ \E c \in Children(p) : state[c] = "ZOMBIE"}

(* The processes do_exit wakes: a waiting parent, and initproc when it is  *)
(* waiting and inherits a zombie.                                          *)
ExitWakes(p) ==
  {w \in {parent[p]} : wait_state[w]}
    \cup {w \in {initproc} : wait_state[w] /\ \E c \in Children(p) : state[c] = "ZOMBIE"}

(* A slip: idleproc inherits.                                              *)
Reparented_ToIdle(p) == [c \in Proc |-> IF c \in Children(p) THEN idleproc ELSE parent[c]]

(* initproc inherits the children of p. *)
Reparented(p) == [c \in Proc |-> IF c \in Children(p) THEN initproc ELSE parent[c]]

(***************************************************************************)
(* do_exit() of the current process p.                                     *)
(***************************************************************************)
DoExit(p) ==
  \/ /\ p = initproc
     /\ panic' = "initproc exit"
     /\ UNCHANGED <<state, wait_state, exiting, need_resched, parent, pc, waitpid,
                    current, runq, nr_process>>
  \/ /\ p # initproc
     /\ LET W == ExitWakes(p)
            R == Woken(W)
        IN  /\ state' = [q \in Proc |-> IF q = p THEN "ZOMBIE"
                                        ELSE IF q \in R THEN "RUNNABLE" ELSE state[q]]
            /\ wait_state' = [q \in Proc |-> wait_state[q] /\ q \notin R]
            /\ panic' = IF \E w \in W : state[w] = "ZOMBIE" THEN "assert" ELSE panic
            /\ Schedule("ZOMBIE", runq \cup R)
     /\ parent' = Reparented(p)
     /\ UNCHANGED <<exiting, pc, waitpid, nr_process>>

(***************************************************************************)
(* The part of do_fork that makes the child c of the current process,      *)
(* which will start at label l.                                            *)
(***************************************************************************)
MakeChild(p, c, l) ==
  /\ nr_process < MAX_PROCESS
  /\ c \in User \ Allocated
  /\ panic' = IF wait_state[p] THEN "assert" ELSE panic
  /\ state' = [state EXCEPT ![c] = "RUNNABLE"]
  /\ wait_state' = [wait_state EXCEPT ![c] = FALSE]
  /\ exiting' = [exiting EXCEPT ![c] = FALSE]
  /\ need_resched' = [need_resched EXCEPT ![c] = FALSE]
  /\ parent' = [parent EXCEPT ![c] = p]
  /\ waitpid' = [waitpid EXCEPT ![c] = NULL]
  /\ runq' = runq \cup {c}
  /\ nr_process' = nr_process + 1
  /\ pc' = [pc EXCEPT ![c] = l, ![p] = IF p = initproc THEN "wait" ELSE "ret"]
  /\ UNCHANGED current

-----------------------------------------------------------------------------
(* The current process is p and continues at l.                            *)
At(p, l) == panic = "none" /\ current = p /\ pc[p] = l

Goto(p, l) == pc' = [pc EXCEPT ![p] = l]

(* A system call that makes a child.                                       *)
SysFork(p) == At(p, "user") /\ \E c \in User : MakeChild(p, c, "user")

(* A trap whose handler changes none of the state here: the timer, getpid, *)
(* putc, gettime, set_priority, a fork, exec or kill that returns an error,*)
(* an exec that succeeds.                                                  *)
Trap(p) ==
  /\ At(p, "user")
  /\ Goto(p, "ret")
  /\ UNCHANGED <<state, wait_state, exiting, need_resched, parent, waitpid,
                 current, runq, nr_process, panic>>

(* A page fault of a user program that do_pgfault refuses.                 *)
UserFault(p) ==
  /\ At(p, "user")
  /\ panic' = "user fault"
  /\ UNCHANGED <<state, wait_state, exiting, need_resched, parent, pc, waitpid,
                 current, runq, nr_process>>

(* sys_exit, an unknown trap, and an exec whose load_icode fails.          *)
SysExit(p) == At(p, "user") /\ DoExit(p)

SysYield(p) ==
  /\ At(p, "user")
  /\ need_resched' = [need_resched EXCEPT ![p] = TRUE]
  /\ Goto(p, "ret")
  /\ UNCHANGED <<state, wait_state, exiting, parent, waitpid, current, runq,
                 nr_process, panic>>

(* do_kill: find_proc never finds idleproc, which is not in hash_list.     *)
SysKill(p, q) ==
  /\ At(p, "user")
  /\ q \in Allocated \ {idleproc}
  /\ ~exiting[q]
  /\ exiting' = [exiting EXCEPT ![q] = TRUE]
  /\ LET W == {w \in {q} : wait_state[w]}
         R == Woken(W)
     IN  /\ state' = [w \in Proc |-> IF w \in R THEN "RUNNABLE" ELSE state[w]]
         /\ wait_state' = [w \in Proc |-> wait_state[w] /\ w \notin R]
         /\ runq' = runq \cup R
         /\ panic' = IF \E w \in W : state[w] = "ZOMBIE" THEN "assert" ELSE panic
  /\ Goto(p, "ret")
  /\ UNCHANGED <<need_resched, parent, waitpid, current, nr_process>>

(* sys_wait for the child w, or for any child when w is NULL.              *)
SysWait(p, w) ==
  /\ At(p, "user")
  /\ waitpid' = [waitpid EXCEPT ![p] = w]
  /\ Goto(p, "wait")
  /\ UNCHANGED <<state, wait_state, exiting, need_resched, parent, current, runq,
                 nr_process, panic>>

(***************************************************************************)
(* do_wait().  Awaited(p): the children its scan looks at.                 *)
(***************************************************************************)
Awaited(p) == {c \in Children(p) : waitpid[p] \in {NULL, c}}

(* do_wait returns: to init_main at label l, or to the end of the trap.     *)
DoWaitReturns(p, l) ==
  /\ pc' = [pc EXCEPT ![p] = IF p = initproc THEN l ELSE "ret"]
  /\ waitpid' = [waitpid EXCEPT ![p] = NULL]

(* A slip: a zombie with the pid is freed whoever its parent is.           *)
WaitReaps_AnyParent(p) ==
  /\ At(p, "wait")
  /\ \E z \in Awaited(p) \cup ({waitpid[p]} \cap Allocated) :
       state[z] = "ZOMBIE" /\ state' = [state EXCEPT ![z] = "FREE"]
  /\ nr_process' = nr_process - 1
  /\ DoWaitReturns(p, "init_loop")
  /\ UNCHANGED <<wait_state, exiting, need_resched, parent, current, runq, panic>>

(* A zombie is found: its structure is unlinked and freed.                 *)
WaitReaps(p) ==
  /\ At(p, "wait")
  /\ \E z \in Awaited(p) :
       /\ state[z] = "ZOMBIE"
       /\ state' = [state EXCEPT ![z] = "FREE"]
  /\ nr_process' = nr_process - 1
  /\ DoWaitReturns(p, "init_loop")
  /\ UNCHANGED <<wait_state, exiting, need_resched, parent, current, runq, panic>>

(* There are children to wait for and none is a zombie.                    *)
WaitSleeps(p) ==
  /\ At(p, "wait")
  /\ Awaited(p) # {}
  /\ \A c \in Awaited(p) : state[c] # "ZOMBIE"
  /\ state' = [state EXCEPT ![p] = "SLEEPING"]
  /\ wait_state' = [wait_state EXCEPT ![p] = TRUE]
  /\ Goto(p, "woken")
  /\ Schedule("SLEEPING", runq)
  /\ UNCHANGED <<exiting, parent, waitpid, nr_process, panic>>

(* There is no such child: -E_BAD_PROC.                                    *)
WaitFails(p) ==
  /\ At(p, "wait")
  /\ Awaited(p) = {}
  /\ DoWaitReturns(p, "init_end")
  /\ UNCHANGED <<state, wait_state, exiting, need_resched, parent, current, runq,
                 nr_process, panic>>

(* Behind schedule() in do_wait: a killed process exits, another one scans *)
(* its children again.                                                     *)
WaitResumes(p) ==
  /\ At(p, "woken")
  /\ \/ exiting[p] /\ DoExit(p)
     \/ /\ ~exiting[p]
        /\ Goto(p, "wait")
        /\ UNCHANGED <<state, wait_state, exiting, need_resched, parent, waitpid,
                       current, runq, nr_process, panic>>

-----------------------------------------------------------------------------
(* The end of trap() for a trap from user mode.                            *)
TrapReturn(p) ==
  /\ At(p, "ret")
  /\ \/ exiting[p] /\ DoExit(p)
     \/ /\ ~exiting[p]
        /\ Goto(p, "user")
        /\ IF need_resched[p] THEN Schedule("RUNNABLE", runq)
                              ELSE UNCHANGED <<need_resched, current, runq>>
        /\ UNCHANGED <<state, wait_state, exiting, parent, waitpid, nr_process, panic>>

(* user_main executes a program from kernel mode: trap() then looks at     *)
(* neither PF_EXITING nor need_resched.  load_icode may fail.              *)
UserMain(p) ==
  /\ At(p, "user_main")
  /\ \/ DoExit(p)
     \/ /\ Goto(p, "user")
        /\ UNCHANGED <<state, wait_state, exiting, need_resched, parent, waitpid,
                       current, runq, nr_process, panic>>

(* init_main: start user_main and wait for all children, giving the        *)
(* processor away after each; then check and return, into do_exit.         *)
InitMain == At(initproc, "init_main") /\ \E c \in User : MakeChild(initproc, c, "user_main")

InitLoop ==
  /\ At(initproc, "init_loop")
  /\ Goto(initproc, "wait")
  /\ Schedule("RUNNABLE", runq)
  /\ UNCHANGED <<state, wait_state, exiting, parent, waitpid, nr_process, panic>>

FinalAsserts == /\ Children(initproc) = {}
                /\ nr_process = 2
                /\ Allocated = {idleproc, initproc}

InitEnd ==
  /\ At(initproc, "init_end")
  /\ panic' = IF FinalAsserts THEN "initproc exit" ELSE "assert"
  /\ UNCHANGED <<state, wait_state, exiting, need_resched, parent, pc, waitpid,
                 current, runq, nr_process>>

(* cpu_idle spins until somebody sets its need_resched.                    *)
CpuIdle ==
  /\ At(idleproc, "idle")
  /\ need_resched[idleproc]
  /\ Schedule("RUNNABLE", runq)
  /\ UNCHANGED <<state, wait_state, exiting, parent, pc, waitpid, nr_process, panic>>

(* A kernel that has panicked stays in its monitor.                        *)
Halted == panic # "none" /\ UNCHANGED vars

UserStep(p) ==
  \/ SysFork(p) \/ Trap(p) \/ UserFault(p) \/ SysExit(p) \/ SysYield(p)
  \/ \E q \in Proc : SysKill(p, q)
  \/ \E w \in Proc \cup {NULL} : SysWait(p, w)

KernelStep(p) ==
  \/ WaitReaps(p) \/ WaitSleeps(p) \/ WaitFails(p) \/ WaitResumes(p)
  \/ TrapReturn(p) \/ UserMain(p)

Next ==
  \/ \E p \in Proc : UserStep(p) \/ KernelStep(p)
  \/ InitMain \/ InitLoop \/ InitEnd \/ CpuIdle
  \/ Halted

Spec == Init /\ [][Next]_vars

-----------------------------------------------------------------------------
(* The run queue holds the runnable processes but the current one and      *)
(* idleproc, each once: schedule() and wakeup_proc() neither lose a process *)
(* nor leave a sleeping or dead one where it could be picked.              *)
RunQueueExact ==
  /\ runq = {p \in Proc \ {idleproc} : state[p] = "RUNNABLE" /\ p # current}
  /\ state[current] = "RUNNABLE"

(* No wake-up is lost between do_wait, do_exit, do_kill and the adoption of *)
(* orphans: a process sleeps only in do_wait, and only while it has a child *)
(* that it waits for and none of those children is a zombie already.       *)
SleepersAwaited ==
  \A p \in Proc :
    /\ wait_state[p] <=> state[p] = "SLEEPING"
    /\ state[p] = "SLEEPING" =>
         /\ pc[p] = "woken"
         /\ Awaited(p) # {}
         /\ \A c \in Awaited(p) : state[c] # "ZOMBIE"

(* The parent that do_exit will wake, and that must reap, is allocated and  *)
(* has not exited: adoption by initproc leaves no process behind.          *)
ParentsLive ==
  \A p \in Allocated \ {idleproc} :
    parent[p] \in Proc /\ state[parent[p]] \in {"RUNNABLE", "SLEEPING"}

(* The kernel never hangs in cpu_idle: after the boot, every call of        *)
(* schedule() finds a process to run, for whatever processes wait for.      *)
NeverIdleAgain == current = idleproc => need_resched[idleproc]

(* The assertions of wakeup_proc, do_fork and init_main hold, whatever the  *)
(* user programs do.                                                       *)
NoAssertFails == panic # "assert"

(* nr_process, by which do_fork refuses to fork, counts the processes.      *)
NrProcessExact == nr_process = Cardinality(Allocated) /\ nr_process <= MAX_PROCESS

(* The processes are a tree under idleproc and initproc, and stay one as    *)
(* orphans are adopted: in every set of them one has no child in the set,   *)
(* and in every set of user processes one has its parent outside.           *)
Forest ==
  /\ parent[idleproc] = NULL /\ state[idleproc] = "RUNNABLE"
  /\ parent[initproc] = idleproc /\ state[initproc] \in {"RUNNABLE", "SLEEPING"}
  /\ \A p \in User \cap Allocated : parent[p] # idleproc
  /\ \A S \in SUBSET (Allocated \ {idleproc}) :
        S # {} => \E p \in S : Children(p) \cap S = {}
  /\ \A S \in SUBSET (Allocated \cap User) : S # {} => \E p \in S : parent[p] \notin S

(* init_main leaves its loop only when no process but its own is left.      *)
InitEndsAlone ==
  /\ waitpid[initproc] = NULL
  /\ pc[initproc] = "init_end" => current = initproc /\ Children(initproc) = {}

(* The inductive invariant: what fork, exit, wait, kill, wake-up and the   *)
(* switch keep true together.  None of its parts is kept by the code       *)
(* without the others: a sleeping parent has no zombie only because a      *)
(* child's parent is alive and the child that exits finds its wait_state;  *)
(* the assertions of schedule() hold only because the run queue agrees     *)
(* with the states, and init_main ends alone only because orphans are      *)
(* adopted and nr_process counts them.                                     *)
IInv ==
  /\ TypeOK /\ RunQueueExact /\ SleepersAwaited /\ ParentsLive /\ NeverIdleAgain
  /\ NoAssertFails /\ NrProcessExact /\ Forest /\ InitEndsAlone

(* A dead process stays dead and is freed once, by its own parent at that   *)
(* time and in do_wait; it never runs again.                               *)
DeathIsFinal ==
  [][\A p \in Proc : state[p] = "ZOMBIE" =>
       /\ state'[p] \in {"ZOMBIE", "FREE"}
       /\ state'[p] = "FREE" => current = parent[p] /\ pc[current] = "wait"
       /\ current' # p]_vars

-----------------------------------------------------------------------------
(* Exchanging the structures of two user processes changes nothing (a      *)
(* symmetry of the safety properties, for TLC).                            *)
Symmetry ==
  {[p \in User |-> IF p = q THEN r ELSE IF p = r THEN q ELSE p] : q, r \in User}
=============================================================================
