--------------------------- MODULE ProcLifeProofs ---------------------------
(***************************************************************************)
(* Proofs about ProcLife, for every pool of processes and every            *)
(* MAX_PROCESS: IInv is inductive, and the safety properties follow.       *)
(***************************************************************************)
EXTENDS ProcLife, FiniteSetTheorems, TLAPS

(* The parts of IInv about the tree and the waiting processes depend only   *)
(* on state, wait_state, parent and, for a sleeping process, on where and   *)
(* for whom it waits.                                                      *)
LEMMA FrameInv ==
  ASSUME IInv, TypeOK', NoAssertFails', InitEndsAlone', NeverIdleAgain',
         UNCHANGED <<state, wait_state, parent, current, runq, nr_process>>,
         \A p \in Proc : state[p] = "SLEEPING" =>
            pc'[p] = pc[p] /\ waitpid'[p] = waitpid[p]
  PROVE  IInv'
<1>1. RunQueueExact' /\ ParentsLive' /\ Forest' /\ NrProcessExact'
  BY DEF IInv, RunQueueExact, ParentsLive, Forest, NrProcessExact, Allocated, Children
<1>2. SleepersAwaited'
  <2> SUFFICES ASSUME NEW p \in Proc, state[p] = "SLEEPING"
               PROVE  pc'[p] = "woken" /\ Awaited(p)' = Awaited(p)
    BY DEF IInv, SleepersAwaited
  <2> QED  BY DEF IInv, SleepersAwaited, Awaited, Children, Allocated
<1> QED  BY <1>1, <1>2 DEF IInv

(* The processes that exist after boot are two.                            *)
LEMMA TwoProcesses == Cardinality({idleproc, initproc}) = 2
<1>1. idleproc # initproc
  BY ProcAssumption
<1>2. IsFiniteSet({idleproc}) /\ Cardinality({idleproc}) = 1
  BY FS_Singleton, Zenon
<1>3. Cardinality({idleproc} \cup {initproc}) = Cardinality({idleproc}) + 1
  BY <1>1, <1>2, FS_AddElement
<1>4. {idleproc} \cup {initproc} = {idleproc, initproc}
  OBVIOUS
<1> QED  BY <1>2, <1>3, <1>4

(* The state that proc_init leaves.                                        *)
LEMMA InitInv == Init => IInv
<1> SUFFICES ASSUME Init PROVE IInv
  OBVIOUS
<1> USE ProcAssumption
<1>0. Allocated = {idleproc, initproc}
  BY DEF Init, Allocated, User
<1>1. TypeOK
  BY DEF Init, TypeOK, User, UserLabels, InitLabels
<1>2. SleepersAwaited /\ NeverIdleAgain /\ NoAssertFails /\ InitEndsAlone
  BY DEF Init, SleepersAwaited, NeverIdleAgain, NoAssertFails, InitEndsAlone, User
<1>6. RunQueueExact
  BY DEF Init, RunQueueExact, User
<1>3. ParentsLive
  BY <1>0 DEF Init, ParentsLive, User
<1>4. NrProcessExact
  BY <1>0, TwoProcesses DEF NrProcessExact, Init
<1>5. Forest
  BY <1>0 DEF Init, Forest, User, Children
<1> QED  BY <1>1, <1>2, <1>3, <1>4, <1>5, <1>6 DEF IInv

(* A step that neither creates, ends nor switches a process.               *)
LEMMA QuietInv ==
  ASSUME IInv, NEW p \in Proc,
         \/ Trap(p) \/ UserFault(p) \/ SysYield(p) \/ WaitFails(p)
         \/ \E w \in Proc \cup {NULL} : SysWait(p, w)
  PROVE  IInv'
<1> USE ProcAssumption
<1>1. p = current /\ state[p] = "RUNNABLE" /\ p # idleproc
  BY DEF Trap, UserFault, SysYield, SysWait, WaitFails, At, IInv, RunQueueExact, TypeOK
<1>2. p = initproc => WaitFails(p)
  BY DEF Trap, UserFault, SysYield, SysWait, WaitFails, At, IInv, TypeOK, InitLabels
<1>3. CASE Trap(p)
  BY <1>1, <1>2, <1>3, FrameInv DEF Trap, Goto, At, IInv, TypeOK, User, UserLabels, InitLabels,
     NoAssertFails, InitEndsAlone, NeverIdleAgain, WaitFails, Children, Allocated
<1>4. CASE UserFault(p)
  BY <1>1, <1>2, <1>4, FrameInv DEF UserFault, At, IInv, TypeOK,
     NoAssertFails, InitEndsAlone, NeverIdleAgain, WaitFails, Children, Allocated
<1>5. CASE SysYield(p)
  BY <1>1, <1>2, <1>5, FrameInv DEF SysYield, Goto, At, IInv, TypeOK, User, UserLabels, InitLabels,
     NoAssertFails, InitEndsAlone, NeverIdleAgain, WaitFails, Children, Allocated
<1>6. CASE \E w \in Proc \cup {NULL} : SysWait(p, w)
  BY <1>1, <1>2, <1>6, FrameInv DEF SysWait, Goto, At, IInv, TypeOK, User, UserLabels, InitLabels,
     NoAssertFails, InitEndsAlone, NeverIdleAgain, WaitFails, Children, Allocated
<1>7. CASE WaitFails(p)
  <2>1. TypeOK'
    BY <1>1, <1>7 DEF WaitFails, DoWaitReturns, At, IInv, TypeOK, User, UserLabels, InitLabels
  <2>2. p = initproc => Children(initproc) = {}
    BY <1>1, <1>7 DEF WaitFails, Awaited, IInv, InitEndsAlone
  <2>3. InitEndsAlone'
    BY <1>1, <1>7, <2>2 DEF WaitFails, DoWaitReturns, IInv, TypeOK, InitEndsAlone, Children, Allocated
  <2> QED
    BY <1>1, <1>7, <2>1, <2>3, FrameInv DEF WaitFails, DoWaitReturns, At, IInv, TypeOK,
       NoAssertFails, NeverIdleAgain
<1> QED  BY <1>3, <1>4, <1>5, <1>6, <1>7

-----------------------------------------------------------------------------
(* While initproc waits there is a process to run: follow sleeping          *)
(* processes from parent to awaited child down to a leaf of the sleepers.   *)
StateType == state \in [Proc -> {"FREE", "RUNNABLE", "SLEEPING", "ZOMBIE"}]
SomeRunnable == \E p \in Proc \ {idleproc} : state[p] = "RUNNABLE"

LEMMA SomeoneRuns == StateType /\ SleepersAwaited /\ Forest => SomeRunnable
<1> USE DEF StateType, SomeRunnable
<1> SUFFICES ASSUME StateType, SleepersAwaited, Forest, state[initproc] # "RUNNABLE"
             PROVE  SomeRunnable
  BY ProcAssumption
<1> DEFINE S == {p \in Proc : state[p] = "SLEEPING"}
<1>1. S \in SUBSET (Allocated \ {idleproc}) /\ initproc \in S
  BY ProcAssumption DEF Forest, Allocated
<1>2. PICK p \in S : Children(p) \cap S = {}
  BY <1>1 DEF Forest
<1>3. PICK c \in Awaited(p) : state[c] # "ZOMBIE"
  BY <1>2 DEF SleepersAwaited
<1>4. c \in Children(p) /\ state[c] = "RUNNABLE"
  BY <1>2, <1>3 DEF Awaited, Children, Allocated
<1>5. c # idleproc
  BY <1>2, <1>4, ProcAssumption DEF Children, Forest
<1> QED  BY <1>4, <1>5 DEF Children, Allocated

(* The same of the state after a step.                                     *)
LEMMA SomeoneRunsNext == StateType' /\ SleepersAwaited' /\ Forest' => SomeRunnable'
BY SomeoneRuns, PTL

(* A switch: q is the run queue when schedule() is called.                 *)
LEMMA SwitchInv ==
  ASSUME IInv, NEW s, NEW q, Schedule(s, q),
         q = {p \in Proc \ {idleproc} : state'[p] = "RUNNABLE" /\ p # current},
         s = state'[current],
         StateType', SleepersAwaited', Forest'
  PROVE  /\ RunQueueExact' /\ NeverIdleAgain'
         /\ need_resched' \in [Proc -> BOOLEAN]
         /\ current' \in Proc /\ current' # idleproc /\ runq' \subseteq Proc
<1> USE ProcAssumption
<1> DEFINE ready == IF s = "RUNNABLE" /\ current # idleproc THEN q \cup {current} ELSE q
<1>1. current \in Proc /\ need_resched \in [Proc -> BOOLEAN]
  BY DEF IInv, TypeOK
<1>2. ready = {p \in Proc \ {idleproc} : state'[p] = "RUNNABLE"}
  BY <1>1
<1>3. ready # {}
  BY <1>2, SomeoneRunsNext DEF SomeRunnable
<1>4. current' \in ready /\ runq' = ready \ {current'}
      /\ need_resched' = [need_resched EXCEPT ![current] = FALSE]
  BY <1>3 DEF Schedule
<1> QED  BY <1>1, <1>2, <1>4 DEF RunQueueExact, NeverIdleAgain

(* schedule() called by a process that stays runnable, or by cpu_idle.     *)
LEMMA YieldInv ==
  ASSUME IInv, Schedule("RUNNABLE", runq),
         UNCHANGED <<state, wait_state, exiting, parent, waitpid, nr_process, panic>>,
         NEW l \in UserLabels \cup InitLabels,
         \/ pc' = pc
         \/ current \in User /\ l \in UserLabels /\ pc' = [pc EXCEPT ![current] = l]
         \/ current = initproc /\ l = "wait" /\ pc' = [pc EXCEPT ![current] = l],
         pc[initproc] = "init_end" => FALSE
  PROVE  IInv'
<1> USE ProcAssumption
<1>1. SleepersAwaited'
  <2> SUFFICES ASSUME NEW p \in Proc, state[p] = "SLEEPING"
               PROVE  pc'[p] = "woken" /\ Awaited(p)' = Awaited(p)
    BY DEF IInv, SleepersAwaited
  <2> QED  BY DEF IInv, TypeOK, RunQueueExact, SleepersAwaited, Awaited, Children, Allocated
<1>2. ParentsLive' /\ Forest' /\ NrProcessExact'
  BY DEF IInv, ParentsLive, Forest, NrProcessExact, Allocated, Children
<1>3. /\ RunQueueExact' /\ NeverIdleAgain' /\ current' \in Proc /\ runq' \subseteq Proc
      /\ need_resched' \in [Proc -> BOOLEAN]
  <2>1. runq = {p \in Proc \ {idleproc} : state'[p] = "RUNNABLE" /\ p # current}
        /\ state'[current] = "RUNNABLE" /\ StateType'
    BY DEF IInv, RunQueueExact, TypeOK, StateType
  <2> QED  BY <2>1, <1>1, <1>2, SwitchInv
<1>4. TypeOK'
  <2>1. pc' \in [Proc -> UserLabels \cup InitLabels \cup {"idle"}]
    BY DEF IInv, TypeOK
  <2>2. pc'[idleproc] = "idle"
    BY DEF IInv, TypeOK, User
  <2>3. pc'[initproc] \in InitLabels /\ \A p \in User : pc'[p] \in UserLabels
    BY DEF IInv, TypeOK, User, InitLabels
  <2> QED  BY <1>3, <2>1, <2>2, <2>3 DEF IInv, TypeOK
<1>5. NoAssertFails' /\ InitEndsAlone'
  BY DEF IInv, NoAssertFails, InitEndsAlone, TypeOK, User
<1> QED  BY <1>1, <1>2, <1>3, <1>4, <1>5 DEF IInv

(* cpu_idle and the loop of init_main give the processor away by           *)
(* schedule().                                                             *)
LEMMA GiveUpInv ==
  ASSUME IInv, CpuIdle \/ InitLoop
  PROVE  IInv'
<1>1. pc[initproc] = "init_end" => FALSE
  BY ProcAssumption DEF IInv, InitEndsAlone, CpuIdle, InitLoop, At, TypeOK
<1> QED  BY <1>1, YieldInv DEF CpuIdle, InitLoop, At, Goto, UserLabels, InitLabels

-----------------------------------------------------------------------------
(* do_wait goes to sleep only with a child that is not yet a zombie.       *)
LEMMA WaitSleepsInv ==
  ASSUME IInv, NEW p \in Proc, WaitSleeps(p)
  PROVE  IInv'
<1> USE ProcAssumption
<1>1. p = current /\ state[p] = "RUNNABLE" /\ p # idleproc /\ pc[p] = "wait"
  BY DEF WaitSleeps, At, IInv, RunQueueExact, TypeOK
<1>2. state' = [state EXCEPT ![p] = "SLEEPING"] /\ pc' = [pc EXCEPT ![p] = "woken"]
      /\ wait_state' = [wait_state EXCEPT ![p] = TRUE]
      /\ UNCHANGED <<exiting, parent, waitpid, nr_process, panic>>
  BY DEF WaitSleeps, Goto
<1>3. StateType' /\ Allocated' = Allocated /\ \A q \in Proc : Children(q)' = Children(q)
  BY <1>1, <1>2 DEF IInv, TypeOK, StateType, Allocated, Children
<1>4. SleepersAwaited'
  <2> SUFFICES ASSUME NEW q \in Proc
               PROVE  /\ wait_state'[q] <=> state'[q] = "SLEEPING"
                      /\ state'[q] = "SLEEPING" =>
                            /\ pc'[q] = "woken" /\ Awaited(q)' # {}
                            /\ \A c \in Awaited(q)' : state'[c] # "ZOMBIE"
    BY DEF SleepersAwaited
  <2>1. Awaited(q)' = Awaited(q)
    BY <1>2, <1>3 DEF Awaited
  <2>2. \A c \in Proc : state'[c] = "ZOMBIE" => state[c] = "ZOMBIE"
    BY <1>2 DEF IInv, TypeOK
  <2>3. Awaited(q) \subseteq Proc
    BY DEF Awaited, Children, Allocated
  <2>4. CASE q = p
    <3>1. wait_state'[p] /\ state'[p] = "SLEEPING" /\ pc'[p] = "woken"
      BY <1>2 DEF IInv, TypeOK
    <3>2. Awaited(p) # {} /\ \A c \in Awaited(p) : state[c] # "ZOMBIE"
      BY DEF WaitSleeps
    <3> QED  BY <2>1, <2>2, <2>3, <2>4, <3>1, <3>2
  <2>5. CASE q # p
    BY <1>2, <2>1, <2>2, <2>3, <2>5 DEF IInv, TypeOK, SleepersAwaited
  <2> QED  BY <2>4, <2>5
<1>5. ParentsLive'
  BY <1>2, <1>3 DEF IInv, ParentsLive, TypeOK
<1>6. Forest'
  <2>1. Forest /\ idleproc # p /\ UNCHANGED parent
    BY <1>1, <1>2 DEF IInv
  <2>2. state'[idleproc] = "RUNNABLE" /\ state'[initproc] \in {"RUNNABLE", "SLEEPING"}
    <3>1. StateType
      BY DEF IInv, TypeOK, StateType
    <3> QED  BY <1>2, <2>1, <3>1 DEF Forest, StateType
  <2>3. \A S \in SUBSET (Allocated \ {idleproc}) :
          S # {} => \E r \in S : Children(r)' \cap S = {}
    BY <1>3, <2>1 DEF Forest, Allocated
  <2> QED  BY <1>3, <2>1, <2>2, <2>3 DEF Forest
<1>7. NrProcessExact' /\ NoAssertFails'
  BY <1>2, <1>3 DEF IInv, NrProcessExact, NoAssertFails
<1>8. /\ RunQueueExact' /\ NeverIdleAgain' /\ need_resched' \in [Proc -> BOOLEAN]
      /\ current' \in Proc /\ runq' \subseteq Proc
  <2>1. runq = {q \in Proc \ {idleproc} : state'[q] = "RUNNABLE" /\ q # current}
        /\ state'[current] = "SLEEPING"
    BY <1>1, <1>2 DEF IInv, RunQueueExact, TypeOK
  <2>2. Schedule("SLEEPING", runq)
    BY DEF WaitSleeps
  <2> QED  BY <2>1, <2>2, <1>3, <1>4, <1>6, SwitchInv
<1>9. TypeOK'
  <2>1. pc' \in [Proc -> UserLabels \cup InitLabels \cup {"idle"}] /\ pc'[idleproc] = "idle"
        /\ pc'[initproc] \in InitLabels /\ \A q \in User : pc'[q] \in UserLabels
    BY <1>1, <1>2 DEF IInv, TypeOK, User, UserLabels, InitLabels
  <2> QED  BY <1>2, <1>3, <1>8, <2>1 DEF IInv, TypeOK, StateType
<1>10. InitEndsAlone'
  BY <1>1, <1>2 DEF IInv, InitEndsAlone, TypeOK
<1> QED  BY <1>4, <1>5, <1>6, <1>7, <1>8, <1>9, <1>10 DEF IInv

(***************************************************************************)
(* do_exit: the parent is woken, the orphans go to initproc, which is woken*)
(* if one of them is a zombie.                                             *)
(***************************************************************************)
LEMMA DoExitInv ==
  ASSUME IInv, NEW p \in User, current = p, panic = "none", DoExit(p)
  PROVE  IInv'
<1> USE ProcAssumption
<1> DEFINE W == ExitWakes(p)
           R == Woken(W)
           K == Children(p)
<1>1. p \in Proc /\ p # idleproc /\ p # initproc /\ state[p] = "RUNNABLE" /\ p \in Allocated
  BY DEF User, IInv, RunQueueExact, Allocated
<1>2. /\ state' = [q \in Proc |-> IF q = p THEN "ZOMBIE"
                                   ELSE IF q \in R THEN "RUNNABLE" ELSE state[q]]
      /\ wait_state' = [q \in Proc |-> wait_state[q] /\ q \notin R]
      /\ panic' = IF \E w \in W : state[w] = "ZOMBIE" THEN "assert" ELSE panic
      /\ Schedule("ZOMBIE", runq \cup R)
      /\ parent' = [c \in Proc |-> IF c \in K THEN initproc ELSE parent[c]]
      /\ UNCHANGED <<exiting, pc, waitpid, nr_process>>
  BY <1>1 DEF DoExit, Reparented
<1>3. /\ W \subseteq {parent[p], initproc} /\ parent[p] \in Proc
      /\ \A w \in W : w \in Proc /\ wait_state[w] /\ state[w] = "SLEEPING"
      /\ R = W /\ p \notin R /\ idleproc \notin R
  BY <1>1 DEF ExitWakes, Woken, IInv, ParentsLive, SleepersAwaited, Forest
<1>4. NoAssertFails'
  BY <1>2, <1>3 DEF NoAssertFails
<1>5. StateType' /\ Allocated' = Allocated /\ wait_state' \in [Proc -> BOOLEAN]
  BY <1>1, <1>2, <1>3 DEF IInv, TypeOK, StateType, Allocated
<1>6. /\ Children(p)' = {}
      /\ Children(initproc)' = Children(initproc) \cup K
      /\ \A q \in Proc \ {p, initproc} : Children(q)' = Children(q)
      /\ K \subseteq Allocated /\ p \notin K /\ initproc \notin K /\ idleproc \notin K
  <2>1. p \notin K
    <3>1. {p} \in SUBSET (Allocated \ {idleproc}) /\ {p} # {}
      BY <1>1
    <3>2. Children(p) \cap {p} = {}
      BY <3>1 DEF IInv, Forest
    <3> QED  BY <3>2
  <2>2. initproc \notin K /\ idleproc \notin K
    BY <1>1 DEF IInv, Forest, Children
  <2> QED  BY <1>1, <1>2, <1>5, <2>1, <2>2 DEF Children, Allocated
<1>7. SleepersAwaited'
  <2> SUFFICES ASSUME NEW q \in Proc
               PROVE  /\ wait_state'[q] <=> state'[q] = "SLEEPING"
                      /\ state'[q] = "SLEEPING" =>
                            /\ pc'[q] = "woken" /\ Awaited(q)' # {}
                            /\ \A c \in Awaited(q)' : state'[c] # "ZOMBIE"
    BY DEF SleepersAwaited
  <2>1. wait_state'[q] <=> state'[q] = "SLEEPING"
    BY <1>1, <1>2, <1>3 DEF IInv, SleepersAwaited
  <2>2. ASSUME state'[q] = "SLEEPING"
        PROVE  /\ pc'[q] = "woken" /\ Awaited(q)' # {}
               /\ \A c \in Awaited(q)' : state'[c] # "ZOMBIE"
    <3>1. state[q] = "SLEEPING" /\ q # p /\ q \notin R /\ pc[q] = "woken" /\ wait_state[q]
      BY <1>1, <1>2, <2>2 DEF IInv, SleepersAwaited
    <3>2. q # parent[p]
      BY <1>3, <3>1 DEF ExitWakes
    <3>3. \A c \in Awaited(q) : c \in Proc /\ c # p /\ state[c] # "ZOMBIE" /\ state'[c] # "ZOMBIE"
      BY <1>2, <3>1, <3>2 DEF IInv, SleepersAwaited, Awaited, Children, Allocated
    <3>4. Awaited(q) # {}
      BY <3>1 DEF IInv, SleepersAwaited
    <3>5. CASE q # initproc
      BY <1>2, <1>6, <3>1, <3>3, <3>4, <3>5 DEF Awaited
    <3>6. CASE q = initproc
      <4>1. Awaited(q)' = Awaited(q) \cup K
        BY <1>2, <1>6, <3>6 DEF Awaited, IInv, InitEndsAlone
      <4>2. \A c \in K : state[c] # "ZOMBIE"
        BY <1>3, <3>1, <3>6 DEF ExitWakes
      <4>3. \A c \in K : state'[c] # "ZOMBIE"
        BY <1>2, <1>6, <4>2 DEF Allocated
      <4> QED  BY <1>2, <3>1, <3>3, <3>4, <4>1, <4>3
    <3> QED  BY <3>5, <3>6
  <2> QED  BY <2>1, <2>2
<1>8. ParentsLive'
  <2> SUFFICES ASSUME NEW q \in Allocated \ {idleproc}
               PROVE  parent'[q] \in Proc /\ state'[parent'[q]] \in {"RUNNABLE", "SLEEPING"}
    BY <1>5 DEF ParentsLive
  <2>1. q \in Proc
    BY DEF Allocated
  <2>2. CASE q \in K
    BY <1>1, <1>2, <2>1, <2>2 DEF IInv, Forest
  <2>3. CASE q \notin K
    <3>1. parent[q] # p
      BY <2>3 DEF Children
    <3> QED  BY <1>2, <2>1, <2>3, <3>1 DEF IInv, ParentsLive
  <2> QED  BY <2>2, <2>3
<1>9. Forest'
  <2>1. /\ parent'[idleproc] = NULL /\ state'[idleproc] = "RUNNABLE"
        /\ parent'[initproc] = idleproc /\ state'[initproc] \in {"RUNNABLE", "SLEEPING"}
        /\ \A q \in User \cap Allocated : parent'[q] # idleproc
    BY <1>1, <1>2, <1>3, <1>6 DEF IInv, Forest, User
  <2>2. ASSUME NEW S \in SUBSET (Allocated \ {idleproc}), S # {}
        PROVE  \E q \in S : Children(q)' \cap S = {}
    <3>1. CASE p \in S
      BY <1>6, <3>1
    <3>2. CASE p \notin S
      <4>1. CASE S = {initproc}
        BY <1>6, <4>1 DEF IInv, Forest, Children
      <4>2. CASE S # {initproc}
        <5>1. S \ {initproc} # {} /\ S \ {initproc} \in SUBSET (Allocated \ {idleproc})
          BY <4>2, <2>2
        <5>2. PICK q \in S \ {initproc} : Children(q) \cap (S \ {initproc}) = {}
          BY <5>1 DEF IInv, Forest
        <5>3. initproc \notin Children(q) /\ Children(q)' = Children(q)
          BY <1>6, <3>2, <5>2 DEF IInv, Forest, Children, Allocated
        <5> QED  BY <5>2, <5>3
      <4> QED  BY <4>1, <4>2
    <3> QED  BY <3>1, <3>2
  <2>3. ASSUME NEW S \in SUBSET (Allocated \cap User), S # {}
        PROVE  \E q \in S : parent'[q] \notin S
    <3>1. PICK q \in S : parent[q] \notin S
      BY <2>3 DEF IInv, Forest
    <3> QED  BY <1>2, <3>1 DEF User
  <2> QED  BY <1>5, <2>1, <2>2, <2>3 DEF Forest
<1>10. NrProcessExact'
  BY <1>2, <1>5 DEF IInv, NrProcessExact
<1>11. /\ RunQueueExact' /\ NeverIdleAgain' /\ need_resched' \in [Proc -> BOOLEAN]
       /\ current' \in Proc /\ runq' \subseteq Proc
  <2>1. runq \cup R = {q \in Proc \ {idleproc} : state'[q] = "RUNNABLE" /\ q # current}
        /\ state'[current] = "ZOMBIE"
    BY <1>1, <1>2, <1>3 DEF IInv, RunQueueExact
  <2> QED  BY <2>1, <1>2, <1>5, <1>7, <1>9, SwitchInv
<1>12. TypeOK'
  <2>1. parent' \in [Proc -> Proc \cup {NULL}]
    BY <1>2 DEF IInv, TypeOK
  <2> QED  BY <1>2, <1>5, <1>11, <2>1 DEF IInv, TypeOK, StateType
<1>13. InitEndsAlone'
  BY <1>1, <1>2 DEF IInv, InitEndsAlone
<1> QED  BY <1>4, <1>7, <1>8, <1>9, <1>10, <1>11, <1>12, <1>13 DEF IInv

(* do_fork: the child is a new leaf under the current process.             *)
LEMMA MakeChildInv ==
  ASSUME IInv, NEW p \in Proc, NEW c \in User, NEW l \in {"user", "user_main"},
         At(p, "user") \/ At(p, "init_main"), MakeChild(p, c, l)
  PROVE  IInv'
<1> USE ProcAssumption
<1>1. /\ p = current /\ p \in Allocated /\ state[p] = "RUNNABLE" /\ p # idleproc /\ p # c
      /\ c \in Proc /\ c # idleproc /\ c # initproc /\ state[c] = "FREE" /\ c \notin Allocated
  BY DEF At, MakeChild, User, Allocated, IInv, RunQueueExact, TypeOK
<1>2. /\ nr_process < MAX_PROCESS
      /\ panic' = IF wait_state[p] THEN "assert" ELSE panic
      /\ state' = [state EXCEPT ![c] = "RUNNABLE"]
      /\ wait_state' = [wait_state EXCEPT ![c] = FALSE]
      /\ exiting' = [exiting EXCEPT ![c] = FALSE]
      /\ need_resched' = [need_resched EXCEPT ![c] = FALSE]
      /\ parent' = [parent EXCEPT ![c] = p]
      /\ waitpid' = [waitpid EXCEPT ![c] = NULL]
      /\ runq' = runq \cup {c}
      /\ nr_process' = nr_process + 1
      /\ pc' = [pc EXCEPT ![c] = l, ![p] = IF p = initproc THEN "wait" ELSE "ret"]
      /\ current' = current
  BY DEF MakeChild
<1>3. TypeOK'
  <2>1. pc' \in [Proc -> UserLabels \cup InitLabels \cup {"idle"}] /\ pc'[idleproc] = "idle"
    BY <1>1, <1>2 DEF IInv, TypeOK, UserLabels, InitLabels
  <2>2. pc'[initproc] \in InitLabels
    BY <1>1, <1>2 DEF IInv, TypeOK, InitLabels
  <2>3. \A q \in User : pc'[q] \in UserLabels
    BY <1>1, <1>2 DEF IInv, TypeOK, UserLabels, User
  <2>4. panic' \in {"none", "initproc exit", "user fault", "assert"} /\ nr_process' \in Int
    <3>1. nr_process \in Int
      BY DEF IInv, TypeOK
    <3>2. nr_process' = nr_process + 1
      BY <1>2
    <3>3. nr_process' \in Int
      BY <3>1, <3>2
    <3>4. panic \in {"none", "initproc exit", "user fault", "assert"}
      BY DEF IInv, TypeOK
    <3> QED  BY <1>2, <3>3, <3>4
  <2>5. /\ state' \in [Proc -> {"FREE", "RUNNABLE", "SLEEPING", "ZOMBIE"}]
        /\ wait_state' \in [Proc -> BOOLEAN] /\ exiting' \in [Proc -> BOOLEAN]
        /\ need_resched' \in [Proc -> BOOLEAN]
        /\ parent' \in [Proc -> Proc \cup {NULL}] /\ waitpid' \in [Proc -> Proc \cup {NULL}]
        /\ current' \in Proc /\ runq' \subseteq Proc
    BY <1>1, <1>2 DEF IInv, TypeOK
  <2> QED  BY <2>1, <2>2, <2>3, <2>4, <2>5 DEF TypeOK
<1>4. StateType /\ wait_state \in [Proc -> BOOLEAN] /\ parent \in [Proc -> Proc \cup {NULL}]
  BY DEF IInv, TypeOK, StateType
<1>5. Allocated' = Allocated \cup {c}
  BY <1>1, <1>2, <1>4 DEF Allocated, StateType
<1>6. /\ \A q \in Allocated : parent[q] # c
      /\ \A q \in Proc \ {p} : Children(q)' = Children(q)
      /\ Children(p)' = Children(p) \cup {c}
      /\ Children(c) = {}
  <2>1. \A q \in Allocated : parent[q] # c
    BY <1>1 DEF IInv, ParentsLive, Forest
  <2> QED  BY <1>1, <1>2, <1>4, <1>5, <2>1 DEF Children, Allocated
<1>7. RunQueueExact'
  BY <1>1, <1>2, <1>4 DEF IInv, RunQueueExact, StateType
<1>8. SleepersAwaited' /\ NoAssertFails'
  <2>1. ~wait_state[p]
    BY <1>1 DEF IInv, SleepersAwaited
  <2>2. NoAssertFails'
    BY <1>2, <2>1 DEF IInv, NoAssertFails
  <2> SUFFICES ASSUME NEW q \in Proc
               PROVE  /\ wait_state'[q] <=> state'[q] = "SLEEPING"
                      /\ state'[q] = "SLEEPING" =>
                            /\ pc'[q] = "woken" /\ Awaited(q)' # {}
                            /\ \A d \in Awaited(q)' : state'[d] # "ZOMBIE"
    BY <2>2 DEF SleepersAwaited
  <2>3. wait_state'[q] <=> state'[q] = "SLEEPING"
    BY <1>1, <1>2, <1>4 DEF IInv, SleepersAwaited, StateType
  <2>4. ASSUME state'[q] = "SLEEPING"
        PROVE  /\ pc'[q] = "woken" /\ Awaited(q)' # {}
               /\ \A d \in Awaited(q)' : state'[d] # "ZOMBIE"
    <3>1. state[q] = "SLEEPING" /\ q # c /\ q # p
      BY <1>1, <1>2, <1>4, <2>4 DEF StateType
    <3>2. Awaited(q)' = Awaited(q) /\ pc'[q] = pc[q]
      <4>1. pc'[q] = pc[q] /\ waitpid'[q] = waitpid[q]
        BY <1>2, <3>1 DEF IInv, TypeOK
      <4>2. Children(q)' = Children(q)
        BY <1>6, <3>1
      <4> QED  BY <4>1, <4>2 DEF Awaited
    <3> QED  BY <1>2, <1>4, <3>1, <3>2 DEF IInv, SleepersAwaited, Awaited, Children, Allocated, StateType
  <2> QED  BY <2>3, <2>4
<1>9. ParentsLive'
  <2> SUFFICES ASSUME NEW q \in Allocated', q # idleproc
               PROVE  parent'[q] \in Proc /\ state'[parent'[q]] \in {"RUNNABLE", "SLEEPING"}
    BY DEF ParentsLive
  <2> QED  BY <1>1, <1>2, <1>4, <1>5 DEF IInv, ParentsLive, StateType
<1>10. Forest'
  <2>1. Forest
    BY DEF IInv
  <2>2. /\ parent'[idleproc] = NULL /\ state'[idleproc] = "RUNNABLE"
        /\ parent'[initproc] = idleproc /\ state'[initproc] \in {"RUNNABLE", "SLEEPING"}
        /\ \A q \in User \cap Allocated' : parent'[q] # idleproc
    BY <1>1, <1>2, <1>4, <1>5, <2>1 DEF Forest, StateType
  <2>3. ASSUME NEW S \in SUBSET (Allocated' \ {idleproc}), S # {}
        PROVE  \E q \in S : Children(q)' \cap S = {}
    <3>1. CASE c \in S
      BY <1>1, <1>6, <3>1
    <3>2. CASE c \notin S
      <4>1. PICK q \in S : Children(q) \cap S = {}
        BY <1>5, <2>1, <2>3, <3>2 DEF Forest
      <4> QED  BY <1>5, <1>6, <2>3, <3>2, <4>1 DEF Allocated
    <3> QED  BY <3>1, <3>2
  <2>4. ASSUME NEW S \in SUBSET (Allocated' \cap User), S # {}
        PROVE  \E q \in S : parent'[q] \notin S
    <3>1. CASE S = {c}
      BY <1>1, <1>2, <1>4, <3>1
    <3>2. CASE S # {c}
      <4>1. S \ {c} # {} /\ S \ {c} \in SUBSET (Allocated \cap User)
        BY <1>5, <2>4, <3>2
      <4>2. PICK q \in S \ {c} : parent[q] \notin S \ {c}
        BY <2>1, <4>1 DEF Forest
      <4>3. parent[q] # c /\ parent'[q] = parent[q]
        BY <1>2, <1>4, <1>6, <4>1, <4>2 DEF User
      <4> QED  BY <4>2, <4>3
    <3> QED  BY <3>1, <3>2
  <2> QED  BY <2>2, <2>3, <2>4 DEF Forest
<1>11. NrProcessExact'
  <2>1. IsFiniteSet(Allocated)
    BY FS_Subset DEF Allocated
  <2>2. Cardinality(Allocated') = Cardinality(Allocated) + 1
    BY <1>1, <1>5, <2>1, FS_AddElement
  <2>3. nr_process \in Int /\ nr_process = Cardinality(Allocated)
    BY DEF IInv, NrProcessExact, TypeOK
  <2> QED  BY <1>2, <2>2, <2>3 DEF NrProcessExact
<1>12. NeverIdleAgain'
  BY <1>1, <1>2 DEF NeverIdleAgain
<1>13. InitEndsAlone'
  <2>1. waitpid'[initproc] = NULL
    BY <1>1, <1>2 DEF IInv, InitEndsAlone, TypeOK
  <2>2. pc'[initproc] # "init_end"
    <3>1. pc[initproc] # "init_end"
      BY <1>1 DEF IInv, InitEndsAlone, At
    <3> QED  BY <1>1, <1>2, <3>1 DEF IInv, TypeOK
  <2> QED  BY <2>1, <2>2 DEF InitEndsAlone
<1> QED  BY <1>3, <1>7, <1>8, <1>9, <1>10, <1>11, <1>12, <1>13 DEF IInv

(* do_wait frees a dead child: a leaf, and nobody else's child.            *)
LEMMA WaitReapsInv ==
  ASSUME IInv, NEW p \in Proc, WaitReaps(p)
  PROVE  IInv'
<1> USE ProcAssumption
<1>1. p = current /\ state[p] = "RUNNABLE" /\ p # idleproc /\ pc[p] = "wait"
  BY DEF WaitReaps, At, IInv, RunQueueExact, TypeOK
<1> DEFINE l == IF p = initproc THEN "init_loop" ELSE "ret"
<1>2. PICK z \in Awaited(p) : state[z] = "ZOMBIE" /\ state' = [state EXCEPT ![z] = "FREE"]
  BY DEF WaitReaps
<1>3. /\ nr_process' = nr_process - 1
      /\ pc' = [pc EXCEPT ![p] = l]
      /\ waitpid' = [waitpid EXCEPT ![p] = NULL]
      /\ UNCHANGED <<wait_state, exiting, need_resched, parent, current, runq, panic>>
  BY DEF WaitReaps, DoWaitReturns
<1>4. StateType /\ waitpid \in [Proc -> Proc \cup {NULL}] /\ nr_process \in Int
      /\ pc \in [Proc -> UserLabels \cup InitLabels \cup {"idle"}]
  BY DEF IInv, TypeOK, StateType
<1>5. /\ z \in Proc /\ z \in Allocated /\ parent[z] = p /\ z # p
      /\ z # idleproc /\ z # initproc /\ z # current
  BY <1>1, <1>2 DEF Awaited, Children, Allocated, IInv, Forest
<1>6. Allocated' = Allocated \ {z}
  BY <1>2, <1>4, <1>5 DEF Allocated, StateType
<1>7. /\ \A q \in Allocated : parent[q] # z
      /\ \A q \in Proc \ {p} : Children(q)' = Children(q)
      /\ Children(p)' = Children(p) \ {z}
  <2>1. \A q \in Allocated : parent[q] # z
    BY <1>2, <1>5 DEF IInv, ParentsLive, Forest
  <2> QED  BY <1>3, <1>5, <1>6, <2>1 DEF Children, Allocated
<1>8. TypeOK'
  <2>1. pc' \in [Proc -> UserLabels \cup InitLabels \cup {"idle"}] /\ pc'[idleproc] = "idle"
        /\ pc'[initproc] \in InitLabels /\ \A q \in User : pc'[q] \in UserLabels
    BY <1>1, <1>3 DEF IInv, TypeOK, User, UserLabels, InitLabels
  <2>2. state' \in [Proc -> {"FREE", "RUNNABLE", "SLEEPING", "ZOMBIE"}]
    BY <1>2, <1>4 DEF StateType
  <2>3. nr_process' \in Int
    BY <1>3, <1>4
  <2>4. waitpid' \in [Proc -> Proc \cup {NULL}]
    BY <1>3, <1>4
  <2> QED  BY <1>3, <2>1, <2>2, <2>3, <2>4 DEF IInv, TypeOK
<1>9. RunQueueExact'
  BY <1>2, <1>3, <1>4, <1>5 DEF IInv, RunQueueExact, StateType
<1>10. SleepersAwaited'
  <2> SUFFICES ASSUME NEW q \in Proc
               PROVE  /\ wait_state'[q] <=> state'[q] = "SLEEPING"
                      /\ state'[q] = "SLEEPING" =>
                            /\ pc'[q] = "woken" /\ Awaited(q)' # {}
                            /\ \A d \in Awaited(q)' : state'[d] # "ZOMBIE"
    BY DEF SleepersAwaited
  <2>1. wait_state'[q] <=> state'[q] = "SLEEPING"
    BY <1>2, <1>3, <1>4 DEF IInv, SleepersAwaited, StateType
  <2>2. ASSUME state'[q] = "SLEEPING"
        PROVE  /\ pc'[q] = "woken" /\ Awaited(q)' # {}
               /\ \A d \in Awaited(q)' : state'[d] # "ZOMBIE"
    <3>1. state[q] = "SLEEPING" /\ q # p
      BY <1>1, <1>2, <1>4, <1>5, <2>2 DEF StateType
    <3>2. Awaited(q)' = Awaited(q) /\ pc'[q] = pc[q]
      <4>1. pc'[q] = pc[q] /\ waitpid'[q] = waitpid[q]
        BY <1>3, <1>4, <3>1
      <4>2. Children(q)' = Children(q)
        BY <1>7, <3>1
      <4> QED  BY <4>1, <4>2 DEF Awaited
    <3>3. \A d \in Awaited(q) : state'[d] # "ZOMBIE"
      BY <1>2, <1>4, <3>1 DEF IInv, SleepersAwaited, Awaited, Children, Allocated, StateType
    <3> QED  BY <3>1, <3>2, <3>3 DEF IInv, SleepersAwaited
  <2> QED  BY <2>1, <2>2
<1>11. ParentsLive'
  <2> SUFFICES ASSUME NEW q \in Allocated', q # idleproc
               PROVE  parent'[q] \in Proc /\ state'[parent'[q]] \in {"RUNNABLE", "SLEEPING"}
    BY DEF ParentsLive
  <2>1. q \in Allocated /\ parent[q] # z
    BY <1>6, <1>7
  <2> QED  BY <1>2, <1>3, <1>4, <2>1 DEF IInv, ParentsLive, StateType
<1>12. Forest'
  <2>1. Forest
    BY DEF IInv
  <2>2. /\ parent'[idleproc] = NULL /\ state'[idleproc] = "RUNNABLE"
        /\ parent'[initproc] = idleproc /\ state'[initproc] \in {"RUNNABLE", "SLEEPING"}
        /\ \A q \in User \cap Allocated' : parent'[q] # idleproc
    BY <1>2, <1>3, <1>4, <1>5, <1>6, <2>1 DEF Forest, StateType
  <2>3. ASSUME NEW S \in SUBSET (Allocated' \ {idleproc}), S # {}
        PROVE  \E q \in S : Children(q)' \cap S = {}
    <3>1. PICK q \in S : Children(q) \cap S = {}
      BY <1>6, <2>1, <2>3 DEF Forest
    <3> QED  BY <1>6, <1>7, <2>3, <3>1 DEF Allocated
  <2>4. ASSUME NEW S \in SUBSET (Allocated' \cap User), S # {}
        PROVE  \E q \in S : parent'[q] \notin S
    BY <1>3, <1>6, <2>1, <2>4 DEF Forest
  <2> QED  BY <2>2, <2>3, <2>4 DEF Forest
<1>13. NrProcessExact'
  <2>1. IsFiniteSet(Allocated)
    BY FS_Subset DEF Allocated
  <2>2. Cardinality(Allocated') = Cardinality(Allocated) - 1
    BY <1>5, <1>6, <2>1, FS_RemoveElement
  <2>3. nr_process = Cardinality(Allocated) /\ nr_process <= MAX_PROCESS
    BY DEF IInv, NrProcessExact
  <2> QED  BY <1>3, <1>4, <2>2, <2>3 DEF NrProcessExact
<1>14. NeverIdleAgain' /\ NoAssertFails'
  BY <1>3 DEF IInv, NeverIdleAgain, NoAssertFails
<1>15. InitEndsAlone'
  <2>1. waitpid'[initproc] = NULL
    BY <1>3, <1>4 DEF IInv, InitEndsAlone
  <2>2. pc'[initproc] # "init_end"
    BY <1>1, <1>3, <1>4 DEF IInv, InitEndsAlone
  <2> QED  BY <2>1, <2>2 DEF InitEndsAlone
<1> QED  BY <1>8, <1>9, <1>10, <1>11, <1>12, <1>13, <1>14, <1>15 DEF IInv

(* do_kill: a waiting process is woken; it will find itself killed.        *)
LEMMA SysKillInv ==
  ASSUME IInv, NEW p \in Proc, NEW q \in Proc, SysKill(p, q)
  PROVE  IInv'
<1> USE ProcAssumption
<1> DEFINE R == Woken({w \in {q} : wait_state[w]})
<1>1. /\ p = current /\ state[p] = "RUNNABLE" /\ p \in User /\ pc[p] = "user" /\ q # idleproc
      /\ panic = "none"
  BY DEF SysKill, At, IInv, RunQueueExact, TypeOK, User, InitLabels
<1>2. /\ exiting' = [exiting EXCEPT ![q] = TRUE]
      /\ state' = [w \in Proc |-> IF w \in R THEN "RUNNABLE" ELSE state[w]]
      /\ wait_state' = [w \in Proc |-> wait_state[w] /\ w \notin R]
      /\ runq' = runq \cup R
      /\ panic' = IF \E w \in {w \in {q} : wait_state[w]} : state[w] = "ZOMBIE" THEN "assert" ELSE panic
      /\ pc' = [pc EXCEPT ![p] = "ret"]
      /\ UNCHANGED <<need_resched, parent, waitpid, current, nr_process>>
  BY DEF SysKill, Goto
<1>3. StateType /\ wait_state \in [Proc -> BOOLEAN]
  BY DEF IInv, TypeOK, StateType
<1>4. R \subseteq {q} /\ R \subseteq {w \in Proc : state[w] = "SLEEPING"} /\ (q \notin R => ~wait_state[q])
  BY DEF Woken, IInv, SleepersAwaited
<1>5. panic' = "none"
  BY <1>1, <1>2 DEF IInv, SleepersAwaited
<1>6. StateType' /\ Allocated' = Allocated /\ \A w \in Proc : Children(w)' = Children(w)
  BY <1>2, <1>3, <1>4 DEF StateType, Allocated, Children
<1>7. TypeOK'
  <2>1. pc' \in [Proc -> UserLabels \cup InitLabels \cup {"idle"}] /\ pc'[idleproc] = "idle"
        /\ pc'[initproc] \in InitLabels /\ \A w \in User : pc'[w] \in UserLabels
    BY <1>1, <1>2 DEF IInv, TypeOK, User, UserLabels, InitLabels
  <2>2. wait_state' \in [Proc -> BOOLEAN] /\ runq' \subseteq Proc
    BY <1>2, <1>3, <1>4 DEF IInv, TypeOK
  <2> QED  BY <1>2, <1>5, <1>6, <2>1, <2>2 DEF IInv, TypeOK, StateType
<1>8. RunQueueExact'
  BY <1>1, <1>2, <1>4 DEF IInv, RunQueueExact
<1>9. SleepersAwaited'
  <2> SUFFICES ASSUME NEW w \in Proc
               PROVE  /\ wait_state'[w] <=> state'[w] = "SLEEPING"
                      /\ state'[w] = "SLEEPING" =>
                            /\ pc'[w] = "woken" /\ Awaited(w)' # {}
                            /\ \A d \in Awaited(w)' : state'[d] # "ZOMBIE"
    BY DEF SleepersAwaited
  <2>1. wait_state'[w] <=> state'[w] = "SLEEPING"
    BY <1>2 DEF IInv, SleepersAwaited
  <2>2. ASSUME state'[w] = "SLEEPING"
        PROVE  /\ pc'[w] = "woken" /\ Awaited(w)' # {}
               /\ \A d \in Awaited(w)' : state'[d] # "ZOMBIE"
    <3>1. state[w] = "SLEEPING" /\ w # p
      BY <1>1, <1>2, <2>2
    <3>2. pc'[w] = pc[w]
      BY <1>2, <3>1 DEF IInv, TypeOK
    <3>3. Awaited(w)' = Awaited(w)
      BY <1>2, <1>6 DEF Awaited
    <3>4. \A d \in Awaited(w) : state'[d] # "ZOMBIE"
      BY <1>2, <3>1 DEF IInv, SleepersAwaited, Awaited, Children, Allocated
    <3> QED  BY <3>1, <3>2, <3>3, <3>4 DEF IInv, SleepersAwaited
  <2> QED  BY <2>1, <2>2
<1>10. ParentsLive'
  BY <1>2, <1>6 DEF IInv, ParentsLive
<1>11. Forest'
  <2>1. Forest
    BY DEF IInv
  <2>2. state'[idleproc] = "RUNNABLE" /\ state'[initproc] \in {"RUNNABLE", "SLEEPING"}
    BY <1>2, <2>1 DEF Forest
  <2>3. \A S \in SUBSET (Allocated \ {idleproc}) :
          S # {} => \E r \in S : Children(r)' \cap S = {}
    BY <1>6, <2>1 DEF Forest, Allocated
  <2> QED  BY <1>2, <1>6, <2>1, <2>2, <2>3 DEF Forest
<1>12. NrProcessExact'
  BY <1>2, <1>6 DEF IInv, NrProcessExact
<1>13. NeverIdleAgain' /\ NoAssertFails' /\ InitEndsAlone'
  <2>1. pc'[initproc] = pc[initproc]
    BY <1>1, <1>2 DEF User, IInv, TypeOK
  <2> QED  BY <1>2, <1>5, <1>6, <2>1 DEF IInv, NeverIdleAgain, NoAssertFails, InitEndsAlone
<1> QED  BY <1>7, <1>8, <1>9, <1>10, <1>11, <1>12, <1>13 DEF IInv

-----------------------------------------------------------------------------
(* do_exit where the code calls it; initproc itself only panics.           *)
LEMMA ExitInv ==
  ASSUME IInv, NEW p \in Proc, NEW l, l # "idle", l # "init_end", At(p, l), DoExit(p)
  PROVE  IInv'
<1>1. CASE p = initproc
  <2>1. panic' = "initproc exit" /\ UNCHANGED <<state, wait_state, exiting, need_resched, parent,
          pc, waitpid, current, runq, nr_process>>
    BY <1>1 DEF DoExit
  <2> QED
    BY <2>1, FrameInv DEF IInv, TypeOK, NoAssertFails, NeverIdleAgain, InitEndsAlone, Children, Allocated
<1>2. CASE p # initproc
  <2>1. p \in User /\ current = p /\ panic = "none"
    BY <1>2 DEF At, User, IInv, TypeOK
  <2> QED  BY <2>1, DoExitInv
<1> QED  BY <1>1, <1>2

(* Whoever comes back from schedule() in do_wait looks at PF_EXITING       *)
(* first.                                                                  *)
LEMMA WaitResumesInv == ASSUME IInv, NEW p \in Proc, WaitResumes(p) PROVE IInv'
<1>1. CASE exiting[p] /\ DoExit(p)
  BY <1>1, ExitInv DEF WaitResumes
<1>2. CASE /\ Goto(p, "wait")
           /\ UNCHANGED <<state, wait_state, exiting, need_resched, parent, waitpid,
                          current, runq, nr_process, panic>>
  <2>1. state[p] = "RUNNABLE" /\ p # idleproc
    BY DEF WaitResumes, At, IInv, RunQueueExact, TypeOK
  <2> QED
    BY <1>2, <2>1, ProcAssumption, FrameInv DEF Goto, IInv, TypeOK, User, UserLabels, InitLabels,
       NoAssertFails, InitEndsAlone, NeverIdleAgain, Children, Allocated
<1> QED  BY <1>1, <1>2 DEF WaitResumes

(* user_main becomes a user program, or exits.                             *)
LEMMA UserMainInv == ASSUME IInv, NEW p \in Proc, UserMain(p) PROVE IInv'
<1>1. CASE DoExit(p)
  BY <1>1, ExitInv DEF UserMain
<1>2. CASE /\ Goto(p, "user")
           /\ UNCHANGED <<state, wait_state, exiting, need_resched, parent, waitpid,
                          current, runq, nr_process, panic>>
  <2>1. state[p] = "RUNNABLE" /\ p # idleproc /\ p # initproc
    BY DEF UserMain, At, IInv, RunQueueExact, TypeOK, InitLabels
  <2> QED
    BY <1>2, <2>1, ProcAssumption, FrameInv DEF Goto, IInv, TypeOK, User, UserLabels, InitLabels,
       NoAssertFails, InitEndsAlone, NeverIdleAgain, Children, Allocated
<1> QED  BY <1>1, <1>2 DEF UserMain

(* On the way out of trap() a killed process exits; one that is to be      *)
(* rescheduled yields.                                                     *)
LEMMA TrapReturnInv == ASSUME IInv, NEW p \in Proc, TrapReturn(p) PROVE IInv'
<1>0. state[p] = "RUNNABLE" /\ p \in User /\ p = current
  BY DEF TrapReturn, At, IInv, RunQueueExact, TypeOK, InitLabels, User
<1>1. CASE exiting[p] /\ DoExit(p)
  BY <1>1, ExitInv DEF TrapReturn
<1>2. CASE /\ Goto(p, "user") /\ Schedule("RUNNABLE", runq)
           /\ UNCHANGED <<state, wait_state, exiting, parent, waitpid, nr_process, panic>>
  <2>1. pc[initproc] = "init_end" => FALSE
    BY <1>0 DEF IInv, InitEndsAlone, User
  <2> QED  BY <1>0, <1>2, <2>1, YieldInv DEF Goto, UserLabels
<1>3. CASE /\ Goto(p, "user") /\ UNCHANGED <<need_resched, current, runq>>
           /\ UNCHANGED <<state, wait_state, exiting, parent, waitpid, nr_process, panic>>
  BY <1>0, <1>3, ProcAssumption, FrameInv DEF Goto, IInv, TypeOK, User, UserLabels, InitLabels,
     NoAssertFails, InitEndsAlone, NeverIdleAgain, Children, Allocated
<1> QED  BY <1>1, <1>2, <1>3 DEF TrapReturn

(* init_main: the assertions at its end hold, as the only processes left    *)
(* are those at the root of the tree.                                      *)
LEMMA InitEndInv == ASSUME IInv, InitEnd PROVE IInv'
<1> USE ProcAssumption
<1>1. Children(initproc) = {}
  BY DEF InitEnd, At, IInv, InitEndsAlone
<1>2. Allocated \cap User = {}
  <2> SUFFICES ASSUME Allocated \cap User # {} PROVE FALSE
    OBVIOUS
  <2>1. PICK q \in Allocated \cap User : parent[q] \notin Allocated \cap User
    BY DEF IInv, Forest
  <2>2. parent[q] \in Allocated /\ parent[q] # idleproc
    BY <2>1 DEF IInv, ParentsLive, Forest, Allocated, User
  <2>3. parent[q] = initproc
    BY <2>1, <2>2 DEF User, Allocated
  <2> QED  BY <1>1, <2>1, <2>3 DEF Children
<1>3. Allocated = {idleproc, initproc}
  BY <1>2 DEF User, Allocated, IInv, Forest
<1>4. Cardinality({idleproc, initproc}) = 2
  <2>1. Cardinality({idleproc}) = 1 /\ IsFiniteSet({idleproc})
    BY FS_Singleton
  <2>2. {idleproc, initproc} = {idleproc} \cup {initproc}
    OBVIOUS
  <2> QED  BY <2>1, <2>2, FS_AddElement
<1>5. FinalAsserts
  BY <1>1, <1>3, <1>4 DEF FinalAsserts, IInv, NrProcessExact
<1>6. panic' = "initproc exit" /\ UNCHANGED <<state, wait_state, exiting, need_resched, parent,
        pc, waitpid, current, runq, nr_process>>
  BY <1>5 DEF InitEnd
<1> QED
  BY <1>6, FrameInv DEF IInv, TypeOK, NoAssertFails, NeverIdleAgain, InitEndsAlone, Children, Allocated

(* A step that changes nothing preserves the invariant.                    *)
LEMMA StutterInv == ASSUME IInv, UNCHANGED vars PROVE IInv'
BY FrameInv DEF vars, IInv, TypeOK, NoAssertFails, NeverIdleAgain, InitEndsAlone, Children, Allocated

(* Every step of the kernel preserves the invariant.                       *)
LEMMA NextInv == ASSUME IInv, [Next]_vars PROVE IInv'
<1>1. ASSUME NEW p \in Proc, UserStep(p)
      PROVE  IInv'
  <2>1. CASE SysFork(p)
    BY <2>1, MakeChildInv DEF SysFork
  <2>2. CASE SysExit(p)
    BY <2>2, ExitInv DEF SysExit
  <2>3. CASE \E q \in Proc : SysKill(p, q)
    BY <2>3, SysKillInv
  <2> QED  BY <1>1, <2>1, <2>2, <2>3, QuietInv DEF UserStep
<1>2. ASSUME NEW p \in Proc, KernelStep(p)
      PROVE  IInv'
  BY <1>2, WaitReapsInv, WaitSleepsInv, QuietInv, WaitResumesInv, TrapReturnInv, UserMainInv
     DEF KernelStep
<1>3. CASE InitMain
  BY <1>3, ProcAssumption, MakeChildInv DEF InitMain
<1> QED
  BY <1>1, <1>2, <1>3, GiveUpInv, InitEndInv, StutterInv DEF Next, Halted

-----------------------------------------------------------------------------
(* IInv holds in every reachable state: each conjunct is what one of the    *)
(* theorems below says.                                                    *)
THEOREM InductiveInvariant == Spec => []IInv
BY InitInv, NextInv, PTL DEF Spec

(* The variables keep their types, and idleproc, initproc and the user      *)
(* processes continue only at places of their own.                         *)
THEOREM TypeCorrect == Spec => []TypeOK
<1>1. IInv => TypeOK
  BY DEF IInv
<1> QED  BY <1>1, InductiveInvariant, PTL

(* schedule() and wakeup_proc() neither lose nor misplace a process.       *)
THEOREM RunQueueCorrect == Spec => []RunQueueExact
<1>1. IInv => RunQueueExact
  BY DEF IInv
<1> QED  BY <1>1, InductiveInvariant, PTL

(* No wake-up of a waiting parent is lost.                                 *)
THEOREM NoLostWakeup == Spec => []SleepersAwaited
<1>1. IInv => SleepersAwaited
  BY DEF IInv
<1> QED  BY <1>1, InductiveInvariant, PTL

(* Nobody's parent has exited.                                             *)
THEOREM ParentsCorrect == Spec => []ParentsLive
<1>1. IInv => ParentsLive
  BY DEF IInv
<1> QED  BY <1>1, InductiveInvariant, PTL

(* The kernel never waits in cpu_idle for a process that nobody will wake.  *)
THEOREM NeverHangs == Spec => []NeverIdleAgain
<1>1. IInv => NeverIdleAgain
  BY DEF IInv
<1> QED  BY <1>1, InductiveInvariant, PTL

(* No assertion of the process code fails.                                 *)
THEOREM AssertionsHold == Spec => []NoAssertFails
<1>1. IInv => NoAssertFails
  BY DEF IInv
<1> QED  BY <1>1, InductiveInvariant, PTL

(* nr_process counts the processes and respects MAX_PROCESS.               *)
THEOREM NrProcessCorrect == Spec => []NrProcessExact
<1>1. IInv => NrProcessExact
  BY DEF IInv
<1> QED  BY <1>1, InductiveInvariant, PTL

(* The processes stay a tree.                                              *)
THEOREM TreeCorrect == Spec => []Forest
<1>1. IInv => Forest
  BY DEF IInv
<1> QED  BY <1>1, InductiveInvariant, PTL

(* What a step does to a dead process z.                                   *)
LEMMA DeadStep ==
  ASSUME IInv, IInv', [Next]_vars, NEW z \in Proc, state[z] = "ZOMBIE"
  PROVE  /\ state'[z] \in {"ZOMBIE", "FREE"}
         /\ state'[z] = "FREE" => current = parent[z] /\ pc[current] = "wait"
         /\ current' # z
<1>0. StateType /\ state[current] = "RUNNABLE" /\ z \in Allocated /\ ~wait_state[z]
  BY DEF IInv, TypeOK, StateType, RunQueueExact, Allocated, SleepersAwaited
<1>1. ASSUME state'[z] \in {"ZOMBIE", "FREE"}
      PROVE  current' # z
  BY <1>1 DEF IInv, RunQueueExact
<1>2. ASSUME NEW p \in Proc, DoExit(p), p = current PROVE state'[z] = "ZOMBIE"
  <2>1. CASE p = initproc
    BY <1>2, <2>1 DEF DoExit
  <2>2. CASE p # initproc
    <3>1. z \notin Woken(ExitWakes(p)) /\ z # p
      BY <1>0, <1>2 DEF Woken, ExitWakes
    <3> QED  BY <1>2, <2>2, <3>1 DEF DoExit
  <2> QED  BY <2>1, <2>2
<1>3. ASSUME NEW p \in Proc, NEW c \in User, NEW l, MakeChild(p, c, l) PROVE state'[z] = "ZOMBIE"
  BY <1>0, <1>3 DEF MakeChild, StateType
<1>4. ASSUME NEW p \in Proc, NEW q \in Proc, SysKill(p, q) PROVE state'[z] = "ZOMBIE"
  BY <1>0, <1>4 DEF SysKill, Woken
<1>5. ASSUME NEW p \in Proc, WaitReaps(p)
      PROVE  /\ state'[z] \in {"ZOMBIE", "FREE"}
             /\ state'[z] = "FREE" => current = parent[z] /\ pc[current] = "wait"
  <2>1. PICK y \in Awaited(p) : state[y] = "ZOMBIE" /\ state' = [state EXCEPT ![y] = "FREE"]
    BY <1>5 DEF WaitReaps
  <2>2. y \in Proc /\ parent[y] = p /\ p = current /\ pc[p] = "wait"
    BY <1>5, <2>1 DEF Awaited, Children, Allocated, WaitReaps, At
  <2> QED  BY <1>0, <2>1, <2>2 DEF StateType
<1>6. ASSUME NEW p \in Proc, WaitSleeps(p) PROVE state'[z] = "ZOMBIE"
  BY <1>0, <1>6 DEF WaitSleeps, At, StateType
<1>7. CASE UNCHANGED state
  BY <1>1, <1>7
<1>8. CASE \E p \in Proc : UserStep(p)
  <2> PICK p \in Proc : UserStep(p)
    BY <1>8
  <2>1. CASE SysFork(p)
    BY <2>1, <1>1, <1>3 DEF SysFork
  <2>2. CASE SysExit(p)
    BY <2>2, <1>1, <1>2 DEF SysExit, At
  <2>3. CASE \E q \in Proc : SysKill(p, q)
    BY <2>3, <1>1, <1>4
  <2>4. CASE \/ Trap(p) \/ UserFault(p) \/ SysYield(p) \/ \E w \in Proc \cup {NULL} : SysWait(p, w)
    BY <2>4, <1>7 DEF Trap, UserFault, SysYield, SysWait
  <2> QED  BY <2>1, <2>2, <2>3, <2>4 DEF UserStep
<1>9. CASE \E p \in Proc : KernelStep(p)
  <2> PICK p \in Proc : KernelStep(p)
    BY <1>9
  <2>1. CASE WaitReaps(p)
    BY <2>1, <1>1, <1>5
  <2>2. CASE WaitSleeps(p)
    BY <2>2, <1>1, <1>6
  <2>3. CASE WaitFails(p)
    BY <2>3, <1>7 DEF WaitFails
  <2>4. CASE WaitResumes(p)
    BY <2>4, <1>1, <1>2, <1>7 DEF WaitResumes, At
  <2>5. CASE TrapReturn(p)
    BY <2>5, <1>1, <1>2, <1>7 DEF TrapReturn, At
  <2>6. CASE UserMain(p)
    BY <2>6, <1>1, <1>2, <1>7 DEF UserMain, At
  <2> QED  BY <2>1, <2>2, <2>3, <2>4, <2>5, <2>6 DEF KernelStep
<1>10. CASE InitMain
  BY <1>10, <1>1, <1>3, ProcAssumption DEF InitMain
<1>11. CASE InitLoop \/ InitEnd \/ CpuIdle \/ Halted \/ UNCHANGED vars
  BY <1>11, <1>7 DEF InitLoop, InitEnd, CpuIdle, Halted, vars
<1> QED  BY <1>8, <1>9, <1>10, <1>11 DEF Next

(* A dead process is reaped once, by its parent, and never runs again.     *)
THEOREM DeadStayDead == Spec => DeathIsFinal
<1>1. IInv /\ IInv' /\ [Next]_vars =>
        [\A p \in Proc : state[p] = "ZOMBIE" =>
           /\ state'[p] \in {"ZOMBIE", "FREE"}
           /\ state'[p] = "FREE" => current = parent[p] /\ pc[current] = "wait"
           /\ current' # p]_vars
  BY DeadStep
<1> QED  BY <1>1, InductiveInvariant, PTL DEF Spec, DeathIsFinal
=============================================================================
