----------------------------- MODULE RoundRobin -----------------------------
(***************************************************************************)
(* The scheduler of hw13 (lab5-spoc-discuss, kern/schedule/sched.c): there *)
(* is no run queue, schedule() walks proc_list from the current process    *)
(* on.  The timer asks for a new decision (kern/trap/trap.c), fork puts    *)
(* processes into the list, do_wait takes them out (kern/process/proc.c).  *)
(* The kernel is not preempted: a step is a stretch of the current process *)
(* up to a return to user mode or a call of schedule(), or an interrupt.   *)
(* pc[p] is where p goes on:                                               *)
(*   "user"  in its program           "ret"    at the end of trap()        *)
(*   "wait"  at repeat in do_wait     "woken"  in do_wait, after schedule() *)
(*   "main"  at the start of init_main                                     *)
(***************************************************************************)
EXTENDS Integers, SequencesExt

CONSTANT MAX_PROCESS   \* the process structures, idleproc and initproc included

ASSUME RoundRobinAssumption == MAX_PROCESS \in Nat /\ MAX_PROCESS > 3

idleproc == 0
initproc == 1
Proc == 1 .. MAX_PROCESS - 1
User == Proc \ {initproc}
ANY  == 0              \* the pid with which do_wait waits for any child

VARIABLES
  proc_list,     \* the processes, the newest first
  state, parent,
  wait_state,    \* is it WT_CHILD
  exiting,       \* PF_EXITING of each process
  pc, pid,       \* where each process goes on, and the argument of its do_wait
  current,
  need_resched,  \* of the current process; it is FALSE for all others
  halted         \* initproc is gone: the kernel has stopped

vars == <<proc_list, state, parent, wait_state, exiting, pc, pid, current,
          need_resched, halted>>

Init ==
  /\ proc_list = <<initproc>>
  /\ state = [p \in Proc |-> IF p = initproc THEN "RUNNABLE" ELSE "FREE"]
  /\ parent = [p \in Proc |-> idleproc]
  /\ wait_state = [p \in Proc |-> FALSE]
  /\ exiting = [p \in Proc |-> FALSE]
  /\ pc = [p \in Proc |-> IF p = initproc THEN "main" ELSE "user"]
  /\ pid = [p \in Proc |-> ANY]
  /\ current = idleproc
  /\ need_resched = TRUE
  /\ halted = FALSE

Children(p) == {c \in ToSet(proc_list) : parent[c] = p}

-----------------------------------------------------------------------------
(* A slip: the walk always begins at the head of the list.                 *)
Walk_FromHead(l) == l
(* The order in which schedule() looks at the processes: those behind the  *)
(* current one, from the head up to it, itself last.                       *)
Walk(l) ==
  LET i == CHOOSE j \in 0 .. Len(l) : IF j = 0 THEN current = idleproc ELSE l[j] = current
  IN  SubSeq(l, i + 1, Len(l)) \o SubSeq(l, 1, i)

(* schedule(), when the states are st.                                     *)
FirstReady(w, st) ==
  LET ready == {i \in DOMAIN w : st[w[i]] = "RUNNABLE"}
  IN  IF ready = {} THEN idleproc ELSE w[Min(ready)]
Schedule(st) ==
  /\ \E w \in {Walk(proc_list)} : current' = FirstReady(w, st)
  /\ need_resched' = FALSE

(* wakeup_proc of the processes in W that sleep.                           *)
Wake(st, W) == [p \in Proc |-> IF p \in W THEN "RUNNABLE" ELSE st[p]]
Awake(W) == [p \in Proc |-> wait_state[p] /\ p \notin W]

(* Slips: only initproc is woken; initproc sleeps on when it adopts a zombie. *)
ExitWakes_ParentOnly(p) == {q \in Proc : wait_state[q] /\ q = parent[p]}
ExitWakes_Init(p) == {q \in {initproc} : wait_state[q]}
(* Who is woken when p exits: its parent, and initproc if it adopts a zombie. *)
ExitWakes(p) ==
  {q \in Proc : wait_state[q] /\ (\/ q = parent[p]
                                  \/ q = initproc /\ \E c \in Children(p) : state[c] = "ZOMBIE")}

(* do_exit, which never comes back; of initproc it is a panic.             *)
DoExit(p) ==
  IF p = initproc
  THEN halted' = TRUE
       /\ UNCHANGED <<proc_list, state, parent, wait_state, exiting, pc, pid, current, need_resched>>
  ELSE LET st == Wake([state EXCEPT ![p] = "ZOMBIE"], ExitWakes(p))
       IN  /\ state' = st
           /\ wait_state' = Awake(ExitWakes(p))
           /\ parent' = [c \in Proc |-> IF c \in Children(p) THEN initproc ELSE parent[c]]
           /\ Schedule(st)
           /\ UNCHANGED <<proc_list, exiting, pc, pid, halted>>

In(p, label) == ~halted /\ current = p /\ pc[p] = label
Goto(p, label) == pc' = [pc EXCEPT ![p] = label]

(* do_fork of c by p: set_links and wakeup_proc.                           *)
MakeChild(p, c) ==
  /\ state[c] = "FREE"
  /\ proc_list' = <<c>> \o proc_list
  /\ state' = [state EXCEPT ![c] = "RUNNABLE"]
  /\ parent' = [parent EXCEPT ![c] = p]
  /\ Goto(p, "ret")
  /\ UNCHANGED <<wait_state, exiting, pid, current, need_resched, halted>>

Free(n) == {c \in User : state[c] = "FREE" /\ Cardinality({d \in User : state[d] = "FREE" /\ d < c}) < n}

(* init_main makes two kernel threads, which execute programs at once.     *)
InitMain ==
  /\ In(initproc, "main")
  /\ \E c \in Free(1) : \E d \in Free(2) \ {c} :
       /\ proc_list' = <<d>> \o (<<c>> \o proc_list)
       /\ state' = [state EXCEPT ![c] = "RUNNABLE", ![d] = "RUNNABLE"]
       /\ parent' = [parent EXCEPT ![c] = initproc, ![d] = initproc]
  /\ Goto(initproc, "wait")
  /\ UNCHANGED <<wait_state, exiting, pid, current, need_resched, halted>>

(* The system calls.                                                       *)
SysFork(p) == In(p, "user") /\ \E c \in Free(1) : MakeChild(p, c)
SysExit(p) == In(p, "user") /\ DoExit(p)

SysYield(p) ==
  /\ In(p, "user")
  /\ need_resched' = TRUE
  /\ Goto(p, "ret")
  /\ UNCHANGED <<proc_list, state, parent, wait_state, exiting, pid, current, halted>>

SysWait(p, c) ==
  /\ In(p, "user")
  /\ pid' = [pid EXCEPT ![p] = c]
  /\ Goto(p, "wait")
  /\ UNCHANGED <<proc_list, state, parent, wait_state, exiting, current, need_resched, halted>>

(* do_kill of q: marked once, and woken if it waits.                       *)
SysKill(p, q) ==
  /\ In(p, "user") /\ q \in ToSet(proc_list) /\ ~exiting[q]
  /\ exiting' = [exiting EXCEPT ![q] = TRUE]
  /\ LET W == {r \in {q} : wait_state[r]}
     IN  state' = Wake(state, W) /\ wait_state' = Awake(W)
  /\ Goto(p, "ret")
  /\ UNCHANGED <<proc_list, parent, pid, current, need_resched, halted>>

(* do_wait from repeat on: a zombie is freed, or p sleeps, or has no child. *)
(* Of several zombies any may be taken; the code takes the youngest.       *)
Awaited(p) == IF pid[p] = ANY THEN Children(p) ELSE Children(p) \cap {pid[p]}

WaitReaps(p) ==
  /\ In(p, "wait")
  /\ \E c \in Awaited(p) :
       /\ state[c] = "ZOMBIE"
       /\ proc_list' = RemoveFirst(proc_list, c)
       /\ state' = [state EXCEPT ![c] = "FREE"]
       /\ exiting' = [exiting EXCEPT ![c] = FALSE]
       /\ pc' = [pc EXCEPT ![c] = "user", ![p] = IF p = initproc THEN "wait" ELSE "ret"]
       /\ pid' = [pid EXCEPT ![c] = ANY, ![p] = ANY]
       /\ parent' = [parent EXCEPT ![c] = idleproc]
  /\ IF p = initproc THEN Schedule(state') ELSE UNCHANGED <<current, need_resched>>
  /\ UNCHANGED <<wait_state, halted>>

WaitSleeps(p) ==
  /\ In(p, "wait")
  /\ Awaited(p) # {} /\ \A c \in Awaited(p) : state[c] # "ZOMBIE"
  /\ state' = [state EXCEPT ![p] = "SLEEPING"]
  /\ wait_state' = [wait_state EXCEPT ![p] = TRUE]
  /\ Goto(p, "woken")
  /\ Schedule(state')
  /\ UNCHANGED <<proc_list, parent, exiting, pid, halted>>

WaitFails(p) ==
  /\ In(p, "wait") /\ Awaited(p) = {}
  /\ IF p = initproc THEN halted' = TRUE /\ UNCHANGED <<pc, pid>>
     ELSE Goto(p, "ret") /\ pid' = [pid EXCEPT ![p] = ANY] /\ UNCHANGED halted
  /\ UNCHANGED <<proc_list, state, parent, wait_state, exiting, current, need_resched>>

(* A slip: PF_EXITING is not looked at behind schedule().                  *)
Woken_Deaf(p) ==
  /\ In(p, "woken")
  /\ Goto(p, "wait")
  /\ UNCHANGED <<proc_list, state, parent, wait_state, exiting, pid, current, need_resched, halted>>
Woken(p) ==
  /\ In(p, "woken")
  /\ IF exiting[p] THEN DoExit(p)
     ELSE /\ Goto(p, "wait")
          /\ UNCHANGED <<proc_list, state, parent, wait_state, exiting, pid, current, need_resched, halted>>

(* The end of trap().                                                      *)
TrapReturn(p) ==
  /\ In(p, "ret")
  /\ IF exiting[p] THEN DoExit(p)
     ELSE /\ Goto(p, "user")
          /\ IF need_resched THEN Schedule(state) ELSE UNCHANGED <<current, need_resched>>
          /\ UNCHANGED <<proc_list, state, parent, wait_state, exiting, pid, halted>>

(* A slip: the timer only interrupts.                                      *)
Timer_Idle ==
  /\ ~halted
  /\ IF current # idleproc /\ pc[current] = "user" THEN Goto(current, "ret")
     ELSE ~need_resched /\ UNCHANGED pc
  /\ UNCHANGED <<proc_list, state, parent, wait_state, exiting, pid, current, halted, need_resched>>
(* The timer, in a program or in the kernel; the rest of the ticks only    *)
(* interrupt.                                                              *)
Timer ==
  /\ ~halted
  /\ IF current # idleproc /\ pc[current] = "user" THEN Goto(current, "ret")
     ELSE ~need_resched /\ UNCHANGED pc
  /\ need_resched' = TRUE
  /\ UNCHANGED <<proc_list, state, parent, wait_state, exiting, pid, current, halted>>
Tick ==
  /\ ~halted /\ current # idleproc /\ pc[current] = "user"
  /\ Goto(current, "ret")
  /\ UNCHANGED <<proc_list, state, parent, wait_state, exiting, pid, current, halted, need_resched>>

CpuIdle ==
  /\ ~halted /\ current = idleproc /\ need_resched
  /\ Schedule(state)
  /\ UNCHANGED <<proc_list, state, parent, wait_state, exiting, pc, pid, halted>>

Kernel ==
  \/ InitMain \/ CpuIdle
  \/ \E p \in Proc : WaitReaps(p) \/ WaitSleeps(p) \/ WaitFails(p) \/ Woken(p) \/ TrapReturn(p)

Next ==
  \/ Kernel \/ Timer \/ Tick
  \/ \E p \in User :
       \/ SysFork(p) \/ SysExit(p) \/ SysYield(p)
       \/ \E q \in Proc : SysKill(p, q)
       \/ \E c \in User \cup {ANY} : SysWait(p, c)

(* The kernel does not stop, and the clock goes on ticking.                *)
Spec == Init /\ [][Next]_vars /\ WF_vars(Kernel) /\ WF_vars(Timer)

-----------------------------------------------------------------------------
TypeOK ==
  /\ proc_list \in Seq(Proc) /\ ToSet(proc_list) = {p \in Proc : state[p] # "FREE"}
  /\ state \in [Proc -> {"FREE", "RUNNABLE", "SLEEPING", "ZOMBIE"}]
  /\ parent \in [Proc -> Proc \cup {idleproc}]
  /\ {wait_state, exiting} \subseteq [Proc -> BOOLEAN]
  /\ pc \in [Proc -> {"user", "ret", "wait", "woken", "main"}]
  /\ pid \in [Proc -> User \cup {ANY}]
  /\ current \in Proc \cup {idleproc}
  /\ {need_resched, halted} \subseteq BOOLEAN

(* Nobody sleeps for nothing: a sleeping process waits for a child that is *)
(* alive; the process on the processor is runnable; and idleproc runs only *)
(* before initproc does.                                                   *)
SleepersAwaited ==
  /\ TypeOK
  /\ \A p \in Proc :
       /\ state[p] = "SLEEPING" <=> wait_state[p]
       /\ wait_state[p] => Awaited(p) # {} /\ \A c \in Awaited(p) : state[c] # "ZOMBIE"
  /\ IF current = idleproc THEN pc[initproc] = "main" ELSE state[current] = "RUNNABLE"

(* Every process that can run does, whatever the others do.                *)
EveryoneRuns ==
  \A p \in Proc : state[p] = "RUNNABLE" ~> current = p \/ halted

(* A process that is killed in the kernel, on its way back to its program  *)
(* or waiting for a child, exits: do_wait and trap() both look at PF_EXITING *)
(* again.                                                                  *)
KilledExits ==
  \A p \in User :
    state[p] = "RUNNABLE" /\ exiting[p] /\ pc[p] \in {"ret", "woken"}
      ~> state[p] \in {"ZOMBIE", "FREE"} \/ halted

(* initproc never sleeps over, or ends before, a zombie that is its child   *)
(* or was adopted by it: as long as there is one it goes on reaping.  (One  *)
(* zombie may wait as long as newer ones come.)                            *)
InitReaps ==
  []<>(\E c \in Children(initproc) : state[c] = "ZOMBIE")
    => []<><<WaitReaps(initproc)>>_vars \/ <>halted
=============================================================================
