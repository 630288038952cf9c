---------------------------- MODULE KernelThreads ----------------------------
(***************************************************************************)
(* The kernel threads of hw12: the idle process creates threads that give  *)
(* way to each other, say good-bye and exit; whoever calls do_wait cleans  *)
(* up after them.  Nothing else takes the processor from a thread, so a    *)
(* step is what a thread does from one call of schedule to the next.       *)
(* schedule and wakeup_proc are not part of hw12.                          *)
(***************************************************************************)
EXTENDS Integers, SequencesExt

CONSTANTS
  Thread,        \* the threads that proc_init creates
  idleproc,
  Turns,         \* how often a thread calls schedule before it exits
  MAX_PROCESS

KernelThreadsAssumption == idleproc \notin Thread /\ Turns \in Nat /\ Cardinality(Thread) < MAX_PROCESS

Proc == Thread \cup {idleproc}
UNINIT == "PROC_UNINIT"  SLEEPING == "PROC_SLEEPING"  RUNNABLE == "PROC_RUNNABLE"  ZOMBIE == "PROC_ZOMBIE"

VARIABLES
  state, pid, parent,
  wait_state,    \* whether a process waits for a child (WT_CHILD)
  turns,         \* of each thread so far
  kstack,        \* the processes that have a kernel stack
  proc_list, nr_process, last_pid,
  current,
  need_resched,  \* of the idle process
  idles          \* what it does: it creates threads, waits, or idles

Init ==
  /\ state = [p \in Proc |-> IF p = idleproc THEN RUNNABLE ELSE UNINIT]
  /\ pid = [p \in Proc |-> IF p = idleproc THEN 0 ELSE -1]
  /\ parent = [p \in Proc |-> idleproc]
  /\ wait_state = [p \in Proc |-> FALSE]
  /\ turns = [p \in Proc |-> 0]
  /\ kstack = {idleproc}
  /\ proc_list = << >> /\ nr_process = 1 /\ last_pid = 0
  /\ current = idleproc /\ need_resched = TRUE /\ idles = "creates"

-----------------------------------------------------------------------------
(* schedule: one of the runnable threads of the list, or idleproc.         *)
Runnable(st) == {p \in ToSet(proc_list) : st[p] = RUNNABLE}
schedule(st) ==
  /\ need_resched' = IF current = idleproc THEN FALSE ELSE need_resched
  /\ IF Runnable(st) = {} THEN current' = idleproc ELSE current' \in Runnable(st)

(* do_fork by kernel_thread; its caller in proc_init takes no other result *)
(* than a pid.                                                             *)
do_fork(p) ==
  /\ current = idleproc /\ idles = "creates" /\ state[p] = UNINIT
  /\ nr_process < MAX_PROCESS
  /\ last_pid' = last_pid + 1
  /\ pid' = [pid EXCEPT ![p] = last_pid']
  /\ kstack' = kstack \cup {p}
  /\ proc_list' = Append(proc_list, p)
  /\ state' = [state EXCEPT ![p] = RUNNABLE]
  /\ nr_process' = nr_process + 1
  /\ parent' = [parent EXCEPT ![p] = current]
  /\ UNCHANGED <<wait_state, turns, current, need_resched, idles>>

(* proc_init is done; from here the idle process idles or cleans up.       *)
Start ==
  /\ idles = "creates" /\ \A p \in Thread : state[p] # UNINIT
  /\ idles' \in {"idles", "waits"}
  /\ UNCHANGED <<state, pid, parent, wait_state, turns, kstack, proc_list, nr_process, last_pid, current, need_resched>>

(* init_main calls schedule and goes on when it runs again.                *)
init_main(p) ==
  /\ current = p /\ turns[p] < Turns
  /\ turns' = [turns EXCEPT ![p] = @ + 1]
  /\ schedule(state)
  /\ UNCHANGED <<state, pid, parent, wait_state, kstack, proc_list, nr_process, last_pid, idles>>

(* A slip: the parent is not told.                                         *)
Woken_Nobody(p) == {}
(* A parent that waits is woken up, which ends its waiting.                *)
Woken(p) == {q \in {parent[p]} : wait_state[q]}

do_exit(p) ==
  /\ current = p /\ p # idleproc /\ turns[p] = Turns
  /\ state' = [q \in Proc |-> IF q = p THEN ZOMBIE ELSE IF q \in Woken(p) THEN RUNNABLE ELSE state[q]]
  /\ wait_state' = [q \in Proc |-> wait_state[q] /\ q \notin Woken(p)]
  /\ schedule(state')
  /\ UNCHANGED <<pid, parent, turns, kstack, proc_list, nr_process, last_pid, idles>>

cpu_idle ==
  /\ current = idleproc /\ idles = "idles" /\ need_resched
  /\ schedule(state)
  /\ UNCHANGED <<state, pid, parent, wait_state, turns, kstack, proc_list, nr_process, last_pid, idles>>

-----------------------------------------------------------------------------
(* do_wait by the idle process: the first zombie of the list is cleaned    *)
(* up, whoever its parent is.                                              *)
FirstZombie == SelectInSeq(proc_list, LAMBDA p : state[p] = ZOMBIE)

Found ==
  /\ current = idleproc /\ idles = "waits" /\ FirstZombie # 0
  /\ proc_list' = RemoveAt(proc_list, FirstZombie) /\ nr_process' = nr_process - 1
  /\ kstack' = kstack \ {proc_list[FirstZombie]}
  /\ UNCHANGED <<state, pid, parent, wait_state, turns, last_pid, current, need_resched, idles>>

Sleep ==
  /\ current = idleproc /\ idles = "waits" /\ FirstZombie = 0 /\ proc_list # << >>
  /\ state' = [state EXCEPT ![idleproc] = SLEEPING]
  /\ wait_state' = [wait_state EXCEPT ![idleproc] = TRUE]
  /\ schedule(state')
  /\ UNCHANGED <<pid, parent, turns, kstack, proc_list, nr_process, last_pid, idles>>

(* -E_BAD_PROC: nobody is left to wait for.                                *)
Alone ==
  /\ current = idleproc /\ idles = "waits" /\ proc_list = << >>
  /\ idles' = "idles"
  /\ UNCHANGED <<state, pid, parent, wait_state, turns, kstack, proc_list, nr_process, last_pid, current, need_resched>>

Next ==
  \/ Start \/ cpu_idle \/ Found \/ Sleep \/ Alone
  \/ \E p \in Thread : do_fork(p) \/ init_main(p) \/ do_exit(p)

-----------------------------------------------------------------------------
(* The count and the list agree; whoever is in the list has a stack and a  *)
(* pid of its own, and nobody else has but the idle process; only one that *)
(* is not a zombie runs, so that no stack is freed in use; and the idle    *)
(* process never sleeps on a zombie that it could clean up.                *)
ThreadsExact ==
  /\ nr_process = Len(proc_list) + 1 /\ IsInjective(proc_list)
  /\ kstack = ToSet(proc_list) \cup {idleproc}
  /\ \A p, q \in kstack : pid[p] = pid[q] => p = q
  /\ current \in kstack /\ state[current] # ZOMBIE
  /\ state[idleproc] = SLEEPING => \A p \in ToSet(proc_list) : state[p] # ZOMBIE

(* All threads end, and whoever waits for them gets rid of all.            *)
Over == idles = "idles" /\ \A p \in Thread : state[p] = ZOMBIE
=============================================================================
