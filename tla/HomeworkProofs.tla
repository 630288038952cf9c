--------------------------- MODULE HomeworkProofs ---------------------------
(***************************************************************************)
(* Theorems about the programs of Homework, for all values of the          *)
(* constants: the call queue (hw17), the kernel threads (hw12), the banker *)
(* (hw19), the job scheduler (hw14) and the process simulators (hw10,      *)
(* hw11); the file system (hw20) has a module of its own.                  *)
(***************************************************************************)
EXTENDS SfsProofs

(* A step of the homework is a step of the call queue or leaves it alone.  *)
LEMMA QueueSteps ==
  (HomeworkInit => Init) /\ ([HomeworkNext]_allvars => [Next]_vars)
BY DEF HomeworkInit, HomeworkNext, allvars

(* Every variable keeps its type; the queue never has fewer than no        *)
(* numbers, although a clerk that is woken has not looked at it.           *)
THEOREM TypeCorrect == HomeworkSpec => []TypeOK
<1>1. Init => TypeOK
  BY CallQueueAssumption DEF Init, TypeOK
<1>2. TypeOK /\ [Next]_vars => TypeOK'
  BY CallQueueAssumption
  DEF TypeOK, Next, vars, Acquire, Deliver, Call, Wait, Resume, Notify, Thread
<1>3. QED
  BY <1>1, <1>2, QueueSteps, PTL DEF HomeworkSpec

-----------------------------------------------------------------------------
(* The number of clerks that are awake.                                    *)
Awake == Cardinality(Clerk \ waiting)

(* With one clerk less among the waiting, one more is awake.               *)
LEMMA OneMoreAwake ==
  ASSUME TypeOK, NEW c \in waiting
  PROVE  Cardinality(Clerk \ (waiting \ {c})) = Awake + 1
<1>1. c \in Clerk /\ c \notin Clerk \ waiting /\ IsFiniteSet(Clerk \ waiting)
  BY CallQueueAssumption, FS_Difference DEF TypeOK
<1>2. Clerk \ (waiting \ {c}) = (Clerk \ waiting) \cup {c}
  BY <1>1
<1>3. QED
  BY <1>1, <1>2, FS_AddElement DEF Awake

(* A notification makes up for one more number in the queue.               *)
LEMMA NotifyMakesUp ==
  ASSUME TypeOK, Notify, EnoughAwake
  PROVE  waiting' = {} \/ Cardinality(Clerk \ waiting') >= products + 1
<1>1. CASE waiting = {}
  BY <1>1 DEF Notify
<1>2. ASSUME NEW c \in waiting, waiting' = waiting \ {c}
      PROVE  Cardinality(Clerk \ waiting') >= products + 1
  <2>1. Awake \in Nat /\ products \in Nat
    BY CallQueueAssumption, FS_Difference, FS_CardinalityType DEF Awake, TypeOK
  <2>2. Awake >= products
    BY <1>2 DEF EnoughAwake, Awake
  <2>3. QED
    BY <1>2, <2>1, <2>2, OneMoreAwake
<1>3. QED
  BY <1>1, <1>2 DEF Notify

(* While clerks sleep, as many are awake as there are numbers to call.     *)
THEOREM ClerksAwake == HomeworkSpec => []EnoughAwake
<1>1. Init => EnoughAwake
  BY DEF Init, EnoughAwake
<1>2. TypeOK /\ EnoughAwake /\ [Next]_vars => EnoughAwake'
  <2> SUFFICES ASSUME TypeOK, EnoughAwake, [Next]_vars
               PROVE  EnoughAwake'
    OBVIOUS
  <2>1. Awake \in Nat /\ products \in Nat
    BY CallQueueAssumption, FS_Difference, FS_CardinalityType DEF Awake, TypeOK
  <2>2. CASE UNCHANGED <<waiting, products>>
    BY <2>2 DEF EnoughAwake
  <2>3. ASSUME NEW t \in Customer, Deliver(t)
        PROVE  EnoughAwake'
    BY <2>3, NotifyMakesUp DEF Deliver, EnoughAwake
  <2>4. ASSUME NEW c \in Clerk, Call(c)
        PROVE  EnoughAwake'
    <3>1. waiting' = {} \/ Cardinality(Clerk \ waiting') >= products + 1
      BY <2>4, NotifyMakesUp DEF Call
    <3>2. products' = products - 1
      BY <2>4 DEF Call
    <3>3. waiting' # {} => Cardinality(Clerk \ waiting') \in Nat
      BY CallQueueAssumption, FS_Difference, FS_CardinalityType
    <3>4. QED
      BY <2>1, <3>1, <3>2, <3>3 DEF EnoughAwake
  <2>5. ASSUME NEW c \in Clerk, Wait(c)
        PROVE  EnoughAwake'
    <3>1. Cardinality(Clerk \ waiting') \in Nat
      BY CallQueueAssumption, FS_Difference, FS_CardinalityType
    <3>2. products' = 0
      BY <2>5 DEF Wait
    <3>3. QED
      BY <3>1, <3>2 DEF EnoughAwake
  <2>6. QED
    BY <2>2, <2>3, <2>4, <2>5 DEF Next, Acquire, Resume, vars
<1>3. QED
  BY <1>1, <1>2, QueueSteps, TypeCorrect, PTL DEF HomeworkSpec

-----------------------------------------------------------------------------
(* The threads of hw12.  The list holds every thread that has been created *)
(* and not cleaned up, once; pids are given in ascending order, the idle   *)
(* process has pid 0; a thread that can run is in the list, and the idle   *)
(* process sleeps only if a thread is left that wakes it up when it exits. *)
ThreadTypes ==
  /\ state \in [Lab4!Proc -> {Lab4!UNINIT, Lab4!SLEEPING, Lab4!RUNNABLE, Lab4!ZOMBIE}]
  /\ pid \in [Lab4!Proc -> Int] /\ last_pid \in Nat
  /\ parent = [p \in Lab4!Proc |-> idleproc]
  /\ wait_state \in [Lab4!Proc -> BOOLEAN]
  /\ proc_list \in Seq(Worker) /\ Distinct(proc_list)

ThreadsInv ==
  /\ ThreadTypes
  /\ nr_process = Len(proc_list) + 1
  /\ kstack = ToSet(proc_list) \cup {idleproc}
  /\ \A p \in ToSet(proc_list) : state[p] # Lab4!UNINIT /\ pid[p] \in 1 .. last_pid
  /\ \A p, q \in ToSet(proc_list) : pid[p] = pid[q] => p = q
  /\ pid[idleproc] = 0
  /\ current \in kstack /\ state[current] # Lab4!ZOMBIE
  /\ state[idleproc] # Lab4!ZOMBIE
  /\ state[idleproc] = Lab4!SLEEPING =>
       wait_state[idleproc] /\ \A p \in ToSet(proc_list) : state[p] # Lab4!ZOMBIE

(* The idle process is none of the threads; the states differ.             *)
LEMMA ThreadNumbers ==
  /\ Worker \subseteq Lab4!Proc /\ idleproc \in Lab4!Proc /\ idleproc \notin Worker
  /\ Lab4!ZOMBIE # Lab4!RUNNABLE /\ Lab4!ZOMBIE # Lab4!UNINIT /\ Lab4!ZOMBIE # Lab4!SLEEPING
  /\ Lab4!RUNNABLE # Lab4!UNINIT /\ Lab4!RUNNABLE # Lab4!SLEEPING
BY HomeworkAssumption
DEF Lab4!KernelThreadsAssumption, Lab4!Proc, Lab4!ZOMBIE, Lab4!RUNNABLE, Lab4!UNINIT, Lab4!SLEEPING

(* KernelThreads has its own instance of the community modules.            *)
LEMMA SameLists ==
  /\ \A s : Lab4!ToSet(s) = ToSet(s) /\ (Lab4!IsInjective(s) <=> IsInjective(s))
  /\ \A s, i : Lab4!RemoveAt(s, i) = RemoveAt(s, i)
  /\ \A I : Lab4!Min(I) = Min(I)
BY DEF Lab4!ToSet, ToSet, Lab4!IsInjective, IsInjective, Lab4!RemoveAt, RemoveAt, Lab4!Min, Min

(* What runs after schedule is the idle process or a thread of the list    *)
(* that can run.                                                           *)
LEMMA ScheduleTakes ==
  ASSUME NEW st, Lab4!schedule(st)
  PROVE  current' = idleproc \/ (current' \in ToSet(proc_list) /\ st[current'] = Lab4!RUNNABLE)
BY SameLists DEF Lab4!schedule, Lab4!Runnable

(* do_fork: a thread that was not in the list gets the next pid.           *)
LEMMA ForkKeepsThreads ==
  ASSUME ThreadsInv, NEW p \in Worker, Lab4!do_fork(p)
  PROVE  ThreadsInv'
<1>1. p \notin ToSet(proc_list) /\ proc_list' = Append(proc_list, p)
  BY DEF ThreadsInv, Lab4!do_fork
<1>2. /\ proc_list' \in Seq(Worker) /\ Len(proc_list') = Len(proc_list) + 1
      /\ Distinct(proc_list') /\ ToSet(proc_list') = ToSet(proc_list) \cup {p}
  BY <1>1, ToSetAppend DEF ThreadsInv, ThreadTypes
<1>3. ToSet(proc_list) \subseteq Lab4!Proc /\ p \in Lab4!Proc /\ p # idleproc /\ idleproc \in Lab4!Proc
  BY ThreadNumbers DEF ThreadsInv, ThreadTypes, ToSet
<1>4. last_pid \in Nat /\ last_pid' = last_pid + 1 /\ pid' = [pid EXCEPT ![p] = last_pid + 1]
  BY DEF ThreadsInv, ThreadTypes, Lab4!do_fork
<1>5. /\ pid'[p] = last_pid + 1 /\ \A q \in Lab4!Proc \ {p} : pid'[q] = pid[q]
      /\ pid' \in [Lab4!Proc -> Int]
  BY <1>3, <1>4 DEF ThreadsInv, ThreadTypes
<1>6. /\ state' \in [Lab4!Proc -> {Lab4!UNINIT, Lab4!SLEEPING, Lab4!RUNNABLE, Lab4!ZOMBIE}]
      /\ state'[p] = Lab4!RUNNABLE /\ \A q \in Lab4!Proc \ {p} : state'[q] = state[q]
  BY <1>3 DEF ThreadsInv, ThreadTypes, Lab4!do_fork
<1>7. ThreadTypes'
  BY <1>2, <1>4, <1>5, <1>6, <1>3 DEF ThreadsInv, ThreadTypes, Lab4!do_fork
<1>8. nr_process' = Len(proc_list') + 1 /\ kstack' = ToSet(proc_list') \cup {idleproc}
  BY <1>2 DEF ThreadsInv, Lab4!do_fork, ThreadTypes
<1>9. \A q \in ToSet(proc_list') : state'[q] # Lab4!UNINIT /\ pid'[q] \in 1 .. last_pid'
  BY <1>2, <1>3, <1>4, <1>5, <1>6, ThreadNumbers DEF ThreadsInv
<1>10. \A q, r \in ToSet(proc_list') : pid'[q] = pid'[r] => q = r
  BY <1>2, <1>3, <1>4, <1>5 DEF ThreadsInv
<1>11. pid'[idleproc] = 0 /\ current' \in kstack' /\ state'[current'] # Lab4!ZOMBIE /\ state'[idleproc] # Lab4!ZOMBIE
  BY <1>1, <1>2, <1>3, <1>5, <1>6, <1>8, ThreadNumbers DEF ThreadsInv, Lab4!do_fork
<1>12. state'[idleproc] = Lab4!SLEEPING =>
         wait_state'[idleproc] /\ \A q \in ToSet(proc_list') : state'[q] # Lab4!ZOMBIE
  BY <1>2, <1>3, <1>6, ThreadNumbers DEF ThreadsInv, Lab4!do_fork
<1>13. QED
  BY <1>7, <1>8, <1>9, <1>10, <1>11, <1>12 DEF ThreadsInv

(* do_exit: the processor goes to another process; whoever waits is told.  *)
LEMMA ExitKeepsThreads ==
  ASSUME ThreadsInv, NEW p \in Worker, Lab4!do_exit(p)
  PROVE  ThreadsInv'
<1>1. PICK st : st = state'
  OBVIOUS
<1>2. Lab4!schedule(st) /\ UNCHANGED <<pid, parent, kstack, proc_list, nr_process, last_pid>>
  BY <1>1 DEF Lab4!do_exit
<1>3. p \in Lab4!Proc /\ p # idleproc /\ idleproc \in Lab4!Proc /\ ToSet(proc_list) \subseteq Lab4!Proc
  BY ThreadNumbers DEF ThreadsInv, ThreadTypes, ToSet
<1>4. Lab4!Woken(p) = IF wait_state[idleproc] THEN {idleproc} ELSE {}
  BY <1>3 DEF Lab4!Woken, ThreadsInv, ThreadTypes
<1>5. /\ st = [q \in Lab4!Proc |-> IF q = p THEN Lab4!ZOMBIE
                                  ELSE IF q \in Lab4!Woken(p) THEN Lab4!RUNNABLE ELSE state[q]]
      /\ wait_state' = [q \in Lab4!Proc |-> wait_state[q] /\ q \notin Lab4!Woken(p)]
  BY <1>1 DEF Lab4!do_exit
<1>6. ThreadTypes'
  BY <1>1, <1>2, <1>5 DEF ThreadsInv, ThreadTypes
<1>7. \A q \in ToSet(proc_list) : st[q] # Lab4!UNINIT
  BY <1>3, <1>5, ThreadNumbers DEF ThreadsInv
<1>8. st[idleproc] = Lab4!RUNNABLE \/ (st[idleproc] = state[idleproc] /\ ~wait_state[idleproc])
  BY <1>3, <1>4, <1>5
<1>9. st[idleproc] # Lab4!ZOMBIE /\ st[idleproc] # Lab4!SLEEPING
  BY <1>8, ThreadNumbers DEF ThreadsInv
<1>10. current' \in kstack /\ st[current'] # Lab4!ZOMBIE
  BY <1>2, <1>9, ScheduleTakes, ThreadNumbers DEF ThreadsInv
<1>11. QED
  BY <1>1, <1>2, <1>6, <1>7, <1>9, <1>10 DEF ThreadsInv

(* Found: what do_wait takes out of the list is a zombie, so its stack is  *)
(* not in use.                                                             *)
LEMMA FoundKeepsThreads ==
  ASSUME ThreadsInv, Lab4!Found
  PROVE  ThreadsInv'
<1> DEFINE i == Lab4!FirstZombie
<1>1. i \in 1 .. Len(proc_list) /\ state[proc_list[i]] = Lab4!ZOMBIE
  <2> DEFINE I == {j \in 1 .. Len(proc_list) : state[proc_list[j]] = Lab4!ZOMBIE}
  <2>1. I \in SUBSET Nat
    BY DEF ThreadsInv, ThreadTypes
  <2>2. i = IF I = {} THEN 0 ELSE Min(I)
    BY SameLists DEF Lab4!FirstZombie, Lab4!SelectInSeq
  <2>3. i # 0
    BY DEF Lab4!Found
  <2> HIDE DEF i, I
  <2>4. i \in I
    BY <2>1, <2>2, <2>3, MinProperties
  <2>5. QED
    BY <2>4 DEF I
<1>2. /\ proc_list' = RemoveAt(proc_list, i) /\ nr_process' = nr_process - 1
      /\ kstack' = kstack \ {proc_list[i]} /\ current = idleproc
      /\ UNCHANGED <<state, pid, parent, wait_state, last_pid, current>>
  BY SameLists DEF Lab4!Found
<1> HIDE DEF i
<1>3. proc_list \in Seq(Worker) /\ Distinct(proc_list) /\ Len(proc_list) \in Nat
  BY DEF ThreadsInv, ThreadTypes
<1>4. /\ proc_list' \in Seq(Worker) /\ Len(proc_list') = Len(proc_list) - 1
      /\ Distinct(proc_list') /\ ToSet(proc_list') = ToSet(proc_list) \ {proc_list[i]}
  BY <1>1, <1>2, <1>3, RemoveAtProperties, ToSetRemoveAt
<1>5. proc_list[i] # idleproc
  BY <1>1, <1>3, ThreadNumbers
<1>6. ThreadTypes'
  BY <1>2, <1>4 DEF ThreadsInv, ThreadTypes
<1>7. nr_process' = Len(proc_list') + 1 /\ kstack' = ToSet(proc_list') \cup {idleproc}
  BY <1>2, <1>3, <1>4, <1>5 DEF ThreadsInv
<1>8. QED
  BY <1>2, <1>4, <1>6, <1>7 DEF ThreadsInv

(* Sleep: the idle process waits when the list holds no zombie.            *)
LEMMA SleepKeepsThreads ==
  ASSUME ThreadsInv, Lab4!Sleep
  PROVE  ThreadsInv'
<1>1. PICK st : st = state'
  OBVIOUS
<1>2. Lab4!schedule(st) /\ UNCHANGED <<pid, parent, kstack, proc_list, nr_process, last_pid>>
  BY <1>1 DEF Lab4!Sleep
<1>3. \A p \in ToSet(proc_list) : state[p] # Lab4!ZOMBIE
  <2> DEFINE I == {j \in 1 .. Len(proc_list) : state[proc_list[j]] = Lab4!ZOMBIE}
  <2>1. I = {}
    <3>1. Lab4!FirstZombie = IF I = {} THEN 0 ELSE Min(I)
      BY SameLists DEF Lab4!FirstZombie, Lab4!SelectInSeq
    <3>2. Lab4!FirstZombie = 0 /\ I \in SUBSET Nat /\ 0 \notin I
      BY DEF Lab4!Sleep, ThreadsInv, ThreadTypes
    <3> HIDE DEF I
    <3>3. QED
      BY <3>1, <3>2, MinProperties
  <2>2. QED
    BY <2>1 DEF ToSet, ThreadsInv, ThreadTypes
<1>4. idleproc \in Lab4!Proc /\ ToSet(proc_list) \subseteq Lab4!Proc /\ idleproc \notin ToSet(proc_list)
  BY ThreadNumbers DEF ThreadsInv, ThreadTypes, ToSet
<1>5. st = [state EXCEPT ![idleproc] = Lab4!SLEEPING] /\ wait_state' = [wait_state EXCEPT ![idleproc] = TRUE]
  BY <1>1 DEF Lab4!Sleep
<1>6. ThreadTypes'
  BY <1>1, <1>2, <1>5 DEF ThreadsInv, ThreadTypes
<1>7. /\ \A p \in ToSet(proc_list) : st[p] = state[p]
      /\ st[idleproc] = Lab4!SLEEPING /\ wait_state'[idleproc]
  BY <1>4, <1>5 DEF ThreadsInv, ThreadTypes
<1>8. current' \in kstack /\ st[current'] # Lab4!ZOMBIE
  BY <1>2, <1>7, ScheduleTakes, ThreadNumbers DEF ThreadsInv
<1>9. QED
  BY <1>1, <1>2, <1>3, <1>6, <1>7, <1>8, ThreadNumbers DEF ThreadsInv

(* The other steps change neither the list nor a state.                    *)
LEMMA OthersKeepThreads ==
  ASSUME ThreadsInv, Lab4!Start \/ Lab4!cpu_idle \/ Lab4!Alone \/ \E p \in Worker : Lab4!init_main(p)
  PROVE  ThreadsInv'
<1>1. UNCHANGED <<state, pid, parent, wait_state, kstack, proc_list, nr_process, last_pid>>
  BY DEF Lab4!Start, Lab4!cpu_idle, Lab4!Alone, Lab4!init_main
<1>2. current' = current \/ Lab4!schedule(state)
  BY DEF Lab4!Start, Lab4!cpu_idle, Lab4!Alone, Lab4!init_main
<1>3. current' \in kstack /\ state[current'] # Lab4!ZOMBIE
  BY <1>2, ScheduleTakes, ThreadNumbers DEF ThreadsInv
<1>4. ThreadTypes'
  BY <1>1 DEF ThreadsInv, ThreadTypes
<1>5. QED
  BY <1>1, <1>3, <1>4 DEF ThreadsInv

(* Before the first thread is created.                                     *)
LEMMA ThreadsInit ==
  ASSUME Lab4!Init
  PROVE  ThreadsInv
<1>1. proc_list = << >> /\ ToSet(proc_list) = {} /\ Distinct(proc_list) /\ proc_list \in Seq(Worker)
  BY DEF Lab4!Init, ToSet, Distinct
<1>2. ThreadTypes
  BY <1>1 DEF Lab4!Init, ThreadTypes
<1>3. QED
  BY <1>1, <1>2, ThreadNumbers DEF Lab4!Init, ThreadsInv

(* The kernel threads of hw12, for any number of them: count, list, stacks *)
(* and pids agree, no thread whose stack is free runs, and the idle        *)
(* process never sleeps on a zombie.                                       *)
THEOREM ThreadsStayExact == HomeworkSpec => []ThreadsExact
<1> DEFINE Inv == program = "threads" => ThreadsInv
<1>1. HomeworkInit => Inv
  BY ThreadsInit DEF HomeworkInit
<1>2. Inv /\ [HomeworkNext]_allvars => Inv'
  <2> SUFFICES ASSUME ThreadsInv, program = "threads", [HomeworkNext]_allvars
               PROVE  ThreadsInv'
    BY DEF HomeworkNext, allvars
  <2>1. CASE UNCHANGED procvars
    BY <2>1 DEF procvars, ThreadsInv, ThreadTypes
  <2>2. CASE Lab4!Next
    BY <2>2, ForkKeepsThreads, ExitKeepsThreads, FoundKeepsThreads, SleepKeepsThreads,
       OthersKeepThreads DEF Lab4!Next
  <2>3. QED
    BY <2>1, <2>2 DEF HomeworkNext, allvars
<1>3. Inv => ThreadsExact
  <2> SUFFICES ASSUME ThreadsInv
               PROVE  Lab4!ThreadsExact
    BY DEF ThreadsExact
  <2>1. IsInjective(proc_list)
    BY DEF ThreadsInv, ThreadTypes, Distinct, IsInjective
  <2>2. \A p, q \in kstack : pid[p] = pid[q] => p = q
    BY DEF ThreadsInv
  <2>3. QED
    BY <2>1, <2>2, SameLists DEF ThreadsInv, Lab4!ThreadsExact
<1>4. QED
  BY <1>1, <1>2, <1>3, PTL DEF HomeworkSpec

-----------------------------------------------------------------------------
(* Bankers has its own instance of the community modules.                  *)
LEMMA SameBank ==
  /\ \A I : Bank!Cardinality(I) = Cardinality(I)
  /\ \A I : Bank!IsFiniteSet(I) <=> IsFiniteSet(I)
BY DEF Bank!Cardinality, Cardinality, Bank!IsFiniteSet, IsFiniteSet

(* What the constants are.                                                 *)
LEMMA BankNumbers ==
  IsFiniteSet(Process) /\ Process # {} /\ RESOURCE \in [Resource -> Nat]
BY HomeworkAssumption, SameBank DEF Bank!BankersAssumption

(* What processes hold is finite, and what one holds is added to what the  *)
(* others hold.                                                            *)
LEMMA HeldUnits ==
  ASSUME NEW a \in [Process -> Bank!Amount], NEW S \in SUBSET Process, NEW r \in Resource
  PROVE  /\ Bank!Held(a, S, r) \in Nat
         /\ IsFiniteSet(UNION {{p} \X (1 .. a[p][r]) : p \in S})
         /\ \A p \in Process \ S : Bank!Held(a, S \cup {p}, r) = Bank!Held(a, S, r) + a[p][r]
<1> DEFINE U(T) == UNION {{p} \X (1 .. a[p][r]) : p \in T}
<1>1. ASSUME NEW p \in Process
      PROVE  a[p][r] \in Nat /\ IsFiniteSet({p} \X (1 .. a[p][r])) /\ Cardinality({p} \X (1 .. a[p][r])) = a[p][r]
  <2>1. a[p][r] \in Nat
    BY DEF Bank!Amount
  <2>2. \A n \in Nat : IsFiniteSet(1 .. n) /\ Cardinality(1 .. n) = n
    <3>1. SUFFICES ASSUME NEW n \in Nat
                   PROVE  IsFiniteSet(1 .. n) /\ Cardinality(1 .. n) = n
      OBVIOUS
    <3>2. IsFiniteSet(1 .. n) /\ Cardinality(1 .. n) = IF 1 > n THEN 0 ELSE n - 1 + 1
      BY FS_Interval
    <3>3. QED
      BY <3>2
  <2>3. IsFiniteSet({p}) /\ Cardinality({p}) = 1
    BY FS_Singleton
  <2> DEFINE J == 1 .. a[p][r]
  <2>4. IsFiniteSet(J) /\ Cardinality(J) = a[p][r]
    BY <2>1, <2>2
  <2> HIDE DEF J
  <2>5. IsFiniteSet({p} \X J) /\ Cardinality({p} \X J) = Cardinality({p}) * Cardinality(J)
    BY <2>3, <2>4, FS_Product
  <2>6. IsFiniteSet({p} \X J) /\ Cardinality({p} \X J) = a[p][r]
    BY <2>1, <2>3, <2>4, <2>5
  <2>7. QED
    BY <2>1, <2>6 DEF J
<1>2. \A T \in SUBSET Process : Bank!Held(a, T, r) = Cardinality(U(T))
  BY SameBank DEF Bank!Held
<1>3. \A T \in SUBSET Process : IsFiniteSet(U(T))
  <2>1. SUFFICES ASSUME NEW T \in SUBSET Process
                 PROVE  IsFiniteSet(U(T))
    OBVIOUS
  <2> DEFINE F == [p \in T |-> {p} \X (1 .. a[p][r])]
             V == {{p} \X (1 .. a[p][r]) : p \in T}
  <2>2. IsFiniteSet(T)
    BY BankNumbers, FS_Subset
  <2>3. F \in Surjection(T, V)
    BY DEF Surjection
  <2>4. IsFiniteSet(V)
    BY <2>2, <2>3, FS_Surjection
  <2>5. \A W \in V : IsFiniteSet(W)
    BY <1>1
  <2>6. QED
    BY <2>4, <2>5, FS_UNION
<1>4. ASSUME NEW p \in Process \ S
      PROVE  Bank!Held(a, S \cup {p}, r) = Bank!Held(a, S, r) + a[p][r]
  <2>1. U(S \cup {p}) = U(S) \cup ({p} \X (1 .. a[p][r])) /\ U(S) \cap ({p} \X (1 .. a[p][r])) = {}
    OBVIOUS
  <2>2. IsFiniteSet(U(S)) /\ S \cup {p} \in SUBSET Process
    BY <1>3
  <2> HIDE DEF U
  <2>3. Cardinality(U(S)) \in Nat /\ Cardinality({}) = 0
    BY <2>2, FS_CardinalityType, FS_EmptySet
  <2>4. \A I, J : IsFiniteSet(I) /\ IsFiniteSet(J) /\ I \cap J = {} =>
                    Cardinality(I \cup J) = Cardinality(I) + Cardinality(J) - 0
    BY <2>3, FS_Union
  <2>5. Cardinality(U(S \cup {p})) = Cardinality(U(S)) + Cardinality({p} \X (1 .. a[p][r])) - 0
    BY <1>1, <2>1, <2>2, <2>4
  <2>6. QED
    BY <1>1, <1>2, <2>2, <2>3, <2>5
<1>5. IsFiniteSet(U(S))
  BY <1>3
<1>6. Bank!Held(a, S, r) \in Nat
  <2> HIDE DEF U
  <2>1. QED
    BY <1>2, <1>5, FS_CardinalityType
<1>7. QED
  BY <1>4, <1>5, <1>6

(* The same without the units.                                             *)
LEMMA HeldProperties ==
  ASSUME NEW a \in [Process -> Bank!Amount], NEW S \in SUBSET Process, NEW r \in Resource
  PROVE  /\ Bank!Held(a, S, r) \in Nat
         /\ \A p \in Process \ S : Bank!Held(a, S \cup {p}, r) = Bank!Held(a, S, r) + a[p][r]
BY HeldUnits

(* It depends on what they hold only, and grows with them.                 *)
LEMMA HeldMore ==
  ASSUME NEW a \in [Process -> Bank!Amount], NEW S \in SUBSET Process, NEW r \in Resource
  PROVE  /\ \A b \in [Process -> Bank!Amount] :
              (\A p \in S : a[p] = b[p]) => Bank!Held(b, S, r) = Bank!Held(a, S, r)
         /\ \A T \in SUBSET S : Bank!Held(a, T, r) <= Bank!Held(a, S, r)
<1> DEFINE U(c, T) == UNION {{p} \X (1 .. c[p][r]) : p \in T}
<1>1. \A c \in [Process -> Bank!Amount] : \A T \in SUBSET Process : Bank!Held(c, T, r) = Cardinality(U(c, T))
  BY SameBank DEF Bank!Held
<1>2. ASSUME NEW b \in [Process -> Bank!Amount], \A p \in S : a[p] = b[p]
      PROVE  Bank!Held(b, S, r) = Bank!Held(a, S, r)
  <2>1. U(a, S) = U(b, S)
    BY <1>2
  <2>2. QED
    BY <1>1, <2>1
<1>3. ASSUME NEW T \in SUBSET S
      PROVE  Bank!Held(a, T, r) <= Bank!Held(a, S, r)
  <2>1. U(a, T) \in SUBSET U(a, S) /\ T \in SUBSET Process
    OBVIOUS
  <2>2. IsFiniteSet(U(a, S))
    BY HeldUnits
  <2> HIDE DEF U
  <2>3. Cardinality(U(a, T)) <= Cardinality(U(a, S))
    BY <2>1, <2>2, FS_Subset
  <2>4. QED
    BY <1>1, <2>1, <2>3
<1>4. QED
  BY <1>2, <1>3

-----------------------------------------------------------------------------
(* Whoever is left, one of them can run when the others have run.          *)
CanRun(n, a, v, S) ==
  \A T \in SUBSET S : T # {} =>
    \E q \in T : \A r \in Resource : n[q][r] <= v[r] + Bank!Held(a, S \ T, r)

(* An order in which some of S can run, one after the other.               *)
Order(n, a, v, S, c) ==
  {f \in [1 .. c -> S] :
     /\ \A i, j \in 1 .. c : i # j => f[i] # f[j]
     /\ \A k \in 1 .. c : \A r \in Resource :
          n[f[k]][r] <= v[r] + Bank!Held(a, {f[i] : i \in 1 .. k - 1}, r)}

(* The first c processes of an order.                                      *)
First(f, c) == {f[i] : i \in 1 .. c}

(* A state is safe when there is such an order of all of S.                *)
LEMMA SafeIsOrder ==
  ASSUME NEW n, NEW a, NEW v, NEW S
  PROVE  Bank!SafeFrom(n, a, v, S) <=> Order(n, a, v, S, Cardinality(S)) # {}
<1>1. Bank!SetToSeqs(S) = {f \in [1 .. Cardinality(S) -> S] : \A i, j \in 1 .. Cardinality(S) : i # j => f[i] # f[j]}
  BY SameBank DEF Bank!SetToSeqs
<1>2. QED
  BY <1>1 DEF Bank!SafeFrom, Order

(* The numbers of an order are different.                                  *)
LEMMA OrderCounts ==
  ASSUME NEW n, NEW a, NEW v, NEW S, IsFiniteSet(S), NEW c \in Nat, NEW f \in Order(n, a, v, S, c)
  PROVE  /\ c <= Cardinality(S)
         /\ c = Cardinality(S) <=> First(f, c) = S
<1>1. f \in Injection(1 .. c, S) /\ f \in [1 .. c -> S]
  BY DEF Order, Injection, IsInjective
<1>2. IsFiniteSet(1 .. c) /\ Cardinality(1 .. c) = c
  <2>1. IsFiniteSet(1 .. c) /\ Cardinality(1 .. c) = IF 1 > c THEN 0 ELSE c - 1 + 1
    BY FS_Interval
  <2>2. QED
    BY <2>1
<1>3. c <= Cardinality(S) /\ (c = Cardinality(S) <=> f \in Surjection(1 .. c, S))
  BY <1>1, <1>2, FS_Injection
<1>4. f \in Surjection(1 .. c, S) <=> First(f, c) = S
  BY <1>1 DEF Surjection, First
<1>5. QED
  BY <1>3, <1>4

(* In an order of all, the first of those who are left can run.            *)
LEMMA SafeCanRun ==
  ASSUME NEW n \in [Process -> Bank!Amount], NEW a \in [Process -> Bank!Amount], NEW v \in Bank!Amount,
         NEW S \in SUBSET Process, Bank!SafeFrom(n, a, v, S)
  PROVE  CanRun(n, a, v, S)
<1> SUFFICES ASSUME NEW T \in SUBSET S, T # {}
             PROVE  \E q \in T : \A r \in Resource : n[q][r] <= v[r] + Bank!Held(a, S \ T, r)
  BY DEF CanRun
<1>1. IsFiniteSet(S) /\ Cardinality(S) \in Nat
  BY BankNumbers, FS_Subset, FS_CardinalityType
<1>2. PICK f : f \in Order(n, a, v, S, Cardinality(S))
  BY SafeIsOrder
<1>3. {f[i] : i \in 1 .. Cardinality(S)} = S
  <2> DEFINE c == Cardinality(S)
  <2>1. c \in Nat /\ c = Cardinality(S) /\ f \in Order(n, a, v, S, c)
    BY <1>1, <1>2
  <2> HIDE DEF c
  <2>2. c = Cardinality(S) <=> First(f, c) = S
    BY <1>1, <2>1, OrderCounts
  <2>3. QED
    BY <2>1, <2>2 DEF First
<1> DEFINE K == {k \in 1 .. Cardinality(S) : f[k] \in T}
           k == Min(K)
<1>4. k \in K /\ \A j \in K : k <= j
  <2>1. K \in SUBSET Nat /\ K # {}
    BY <1>3
  <2> HIDE DEF K
  <2>2. QED
    BY <2>1, MinProperties
<1> HIDE DEF k
<1>5. k \in 1 .. Cardinality(S) /\ f[k] \in T /\ k \in Nat
  BY <1>4
<1>6. {f[i] : i \in 1 .. k - 1} \subseteq S \ T
  <2>1. SUFFICES ASSUME NEW i \in 1 .. k - 1
                 PROVE  f[i] \in S \ T
    OBVIOUS
  <2>2. i \in 1 .. Cardinality(S) /\ ~(k <= i)
    BY <1>1, <1>5
  <2>3. QED
    BY <1>3, <1>4, <2>2
<1>7. ASSUME NEW r \in Resource
      PROVE  n[f[k]][r] <= v[r] + Bank!Held(a, S \ T, r)
  <2> DEFINE E == {f[i] : i \in 1 .. k - 1}
  <2>1. n[f[k]][r] <= v[r] + Bank!Held(a, E, r)
    BY <1>2, <1>5 DEF Order
  <2> HIDE DEF E
  <2>2. E \in SUBSET (S \ T) /\ S \ T \in SUBSET Process
    BY <1>6 DEF E
  <2>3. Bank!Held(a, E, r) <= Bank!Held(a, S \ T, r)
    BY <2>2, HeldMore
  <2>4. Bank!Held(a, E, r) \in Nat /\ Bank!Held(a, S \ T, r) \in Nat
    BY <2>2, HeldProperties
  <2>5. n[f[k]][r] \in Nat /\ v[r] \in Nat
    BY <1>5 DEF Bank!Amount
  <2>6. QED
    BY <2>1, <2>3, <2>4, <2>5
<1>8. QED
  BY <1>5, <1>7

(* Among those whom the longest order leaves out, one can run after it: so *)
(* it leaves out none.                                                     *)
LEMMA CanRunSafe ==
  ASSUME NEW n \in [Process -> Bank!Amount], NEW a \in [Process -> Bank!Amount], NEW v \in Bank!Amount,
         NEW S \in SUBSET Process, CanRun(n, a, v, S)
  PROVE  Bank!SafeFrom(n, a, v, S)
<1> DEFINE c == Cardinality(S)
           D == {d \in 0 .. c : Order(n, a, v, S, c - d) # {}}
           m == c - Min(D)
<1>1. IsFiniteSet(S) /\ c \in Nat
  BY BankNumbers, FS_Subset, FS_CardinalityType
<1> HIDE DEF c
<1>2. c \in D
  <2> DEFINE e == [i \in 1 .. 0 |-> i]
  <2>1. 1 .. 0 = {} /\ e \in [1 .. 0 -> S]
    OBVIOUS
  <2>2. e \in Order(n, a, v, S, 0)
    BY <2>1 DEF Order
  <2>3. c - c = 0 /\ c \in 0 .. c
    BY <1>1
  <2>4. QED
    BY <2>2, <2>3
<1>3. Min(D) \in D /\ \A d \in D : Min(D) <= d
  <2>1. D \in SUBSET Nat /\ D # {}
    BY <1>1, <1>2
  <2> HIDE DEF D
  <2>2. QED
    BY <2>1, MinProperties
<1>4. m \in 0 .. c /\ Order(n, a, v, S, m) # {} /\ (m < c => Order(n, a, v, S, m + 1) = {})
  <2>1. Min(D) \in 0 .. c /\ Order(n, a, v, S, c - Min(D)) # {}
    BY <1>3
  <2>2. \A d \in 0 .. c : Order(n, a, v, S, c - d) # {} => Min(D) <= d
    BY <1>3
  <2> HIDE DEF D
  <2>3. m \in 0 .. c
    BY <1>1, <2>1
  <2>4. ASSUME m < c
        PROVE  Order(n, a, v, S, m + 1) = {}
    <3>1. Min(D) - 1 \in 0 .. c /\ c - (Min(D) - 1) = m + 1 /\ ~(Min(D) <= Min(D) - 1)
      BY <1>1, <2>1, <2>4
    <3>2. QED
      BY <2>2, <3>1
  <2>5. QED
    BY <2>1, <2>3, <2>4
<1> HIDE DEF m
<1>5. PICK f : f \in Order(n, a, v, S, m)
  BY <1>4
<1>6. f \in [1 .. m -> S] /\ m \in Nat
  BY <1>1, <1>4, <1>5 DEF Order
<1> DEFINE R == {f[i] : i \in 1 .. m}
<1>7. R \subseteq S
  BY <1>6
<1>8. ASSUME R # S
      PROVE  FALSE
  <2>1. S \ R \in SUBSET S /\ S \ R # {} /\ S \ (S \ R) = R
    BY <1>7, <1>8
  <2>2. PICK q \in S \ R : \A r \in Resource : n[q][r] <= v[r] + Bank!Held(a, S \ (S \ R), r)
    <3> HIDE DEF R
    <3>1. QED
      BY <2>1 DEF CanRun
  <2>3. \A r \in Resource : n[q][r] <= v[r] + Bank!Held(a, R, r)
    <3> HIDE DEF R
    <3>1. QED
      BY <2>1, <2>2
  <2>4. q \in S /\ \A i \in 1 .. m : f[i] # q
    BY <2>2
  <2> DEFINE g == [i \in 1 .. m + 1 |-> IF i = m + 1 THEN q ELSE f[i]]
  <2>5. /\ \A i \in 1 .. m : g[i] = f[i] /\ i \in 1 .. m + 1
        /\ g[m + 1] = q /\ m + 1 \in 1 .. m + 1
        /\ \A i \in 1 .. m + 1 : i \in 1 .. m \/ i = m + 1
        /\ DOMAIN g = 1 .. m + 1
    BY <1>6
  <2>6. g \in [1 .. m + 1 -> S]
    BY <1>6, <2>4
  <2> HIDE DEF g
  <2>7. ASSUME NEW i \in 1 .. m + 1, NEW j \in 1 .. m + 1, i # j
        PROVE  g[i] # g[j]
    <3>1. \A x, y \in 1 .. m : x # y => f[x] # f[y]
      BY <1>5 DEF Order
    <3>2. QED
      BY <2>4, <2>5, <2>7, <3>1
  <2>8. ASSUME NEW k \in 1 .. m + 1, NEW r \in Resource
        PROVE  n[g[k]][r] <= v[r] + Bank!Held(a, {g[i] : i \in 1 .. k - 1}, r)
    <3>1. \A i \in 1 .. k - 1 : i \in 1 .. m
      BY <1>6
    <3>2. {g[i] : i \in 1 .. k - 1} = {f[i] : i \in 1 .. k - 1}
      BY <2>5, <3>1
    <3>3. CASE k \in 1 .. m
      <4>1. n[f[k]][r] <= v[r] + Bank!Held(a, {f[i] : i \in 1 .. k - 1}, r)
        BY <1>5, <3>3 DEF Order
      <4>2. QED
        BY <2>5, <3>2, <3>3, <4>1
    <3>4. CASE k = m + 1
      <4>1. {f[i] : i \in 1 .. k - 1} = R
        BY <1>6, <3>4
      <4> HIDE DEF R
      <4>2. QED
        BY <2>3, <2>5, <3>2, <3>4, <4>1
    <3>5. QED
      BY <2>5, <3>3, <3>4
  <2>9. g \in Order(n, a, v, S, m + 1)
    BY <2>6, <2>7, <2>8 DEF Order
  <2>10. m # c
    <3> HIDE DEF R
    <3>1. m = Cardinality(S) <=> First(f, m) = S
      BY <1>1, <1>5, <1>6, OrderCounts
    <3>2. QED
      BY <1>8, <3>1 DEF c, R, First
  <2>11. QED
    BY <1>1, <1>4, <2>9, <2>10
<1>9. m = c
  <2> HIDE DEF R
  <2>1. m = Cardinality(S) <=> First(f, m) = S
    BY <1>1, <1>5, <1>6, OrderCounts
  <2>2. QED
    BY <1>8, <2>1 DEF c, R, First
<1>10. QED
  BY <1>5, <1>9, SafeIsOrder DEF c

(* To run who fits is as good as to run the right one.                     *)
LEMMA RunOne ==
  ASSUME NEW n \in [Process -> Bank!Amount], NEW a \in [Process -> Bank!Amount], NEW v \in Bank!Amount,
         NEW S \in SUBSET Process, NEW p \in S, \A r \in Resource : n[p][r] <= v[r],
         NEW w \in Bank!Amount, \A r \in Resource : w[r] = v[r] + a[p][r]
  PROVE  CanRun(n, a, v, S) <=> CanRun(n, a, w, S \ {p})
<1>1. ASSUME NEW T \in SUBSET (S \ {p}), NEW r \in Resource
      PROVE  v[r] + Bank!Held(a, S \ T, r) = w[r] + Bank!Held(a, (S \ {p}) \ T, r)
  <2> DEFINE V == (S \ {p}) \ T
  <2>1. V \in SUBSET Process /\ p \in Process \ V
    OBVIOUS
  <2>2. S \ T = V \cup {p}
    OBVIOUS
  <2> HIDE DEF V
  <2>3. Bank!Held(a, V, r) \in Nat
    BY <2>1, HeldProperties
  <2>4. Bank!Held(a, V \cup {p}, r) = Bank!Held(a, V, r) + a[p][r]
    BY <2>1, HeldProperties
  <2>5. v[r] \in Nat /\ a[p][r] \in Nat
    BY DEF Bank!Amount
  <2>6. v[r] + Bank!Held(a, V \cup {p}, r) = w[r] + Bank!Held(a, V, r)
    BY <2>3, <2>4, <2>5
  <2>7. QED
    BY <2>2, <2>6 DEF V
<1>2. ASSUME CanRun(n, a, v, S)
      PROVE  CanRun(n, a, w, S \ {p})
  <2>1. SUFFICES ASSUME NEW T \in SUBSET (S \ {p}), T # {}
                 PROVE  \E q \in T : \A r \in Resource : n[q][r] <= w[r] + Bank!Held(a, (S \ {p}) \ T, r)
    BY DEF CanRun
  <2>2. PICK q \in T : \A r \in Resource : n[q][r] <= v[r] + Bank!Held(a, S \ T, r)
    BY <1>2, <2>1 DEF CanRun
  <2>3. QED
    BY <1>1, <2>2
<1>3. ASSUME CanRun(n, a, w, S \ {p})
      PROVE  CanRun(n, a, v, S)
  <2>1. SUFFICES ASSUME NEW T \in SUBSET S, T # {}
                 PROVE  \E q \in T : \A r \in Resource : n[q][r] <= v[r] + Bank!Held(a, S \ T, r)
    BY DEF CanRun
  <2>2. CASE p \in T
    <3>1. ASSUME NEW r \in Resource
          PROVE  n[p][r] <= v[r] + Bank!Held(a, S \ T, r)
      <4>1. Bank!Held(a, S \ T, r) \in Nat /\ n[p][r] \in Nat /\ v[r] \in Nat
        BY HeldProperties DEF Bank!Amount
      <4>2. QED
        BY <4>1
    <3>2. QED
      BY <2>2, <3>1
  <2>3. CASE p \notin T
    <3>1. T \in SUBSET (S \ {p})
      BY <2>3
    <3>2. PICK q \in T : \A r \in Resource : n[q][r] <= w[r] + Bank!Held(a, (S \ {p}) \ T, r)
      BY <1>3, <2>1, <3>1 DEF CanRun
    <3>3. QED
      BY <1>1, <3>1, <3>2
  <2>4. QED
    BY <2>2, <2>3
<1>4. QED
  BY <1>2, <1>3

(* Only those who are left matter.                                         *)
LEMMA SameRun ==
  ASSUME NEW n, NEW m, NEW a \in [Process -> Bank!Amount], NEW b \in [Process -> Bank!Amount],
         NEW v, NEW S \in SUBSET Process, \A p \in S : n[p] = m[p] /\ a[p] = b[p]
  PROVE  CanRun(n, a, v, S) <=> CanRun(m, b, v, S)
<1>1. ASSUME NEW T \in SUBSET S, NEW r \in Resource
      PROVE  Bank!Held(b, S \ T, r) = Bank!Held(a, S \ T, r)
  <2>1. S \ T \in SUBSET Process /\ \A p \in S \ T : a[p] = b[p]
    OBVIOUS
  <2>2. QED
    BY <2>1, HeldMore
<1>2. \A T \in SUBSET S : \A q \in T : n[q] = m[q]
  OBVIOUS
<1>3. QED
  BY <1>1, <1>2 DEF CanRun

(* There are as many permutations as processes, at least: each process may *)
(* come first.                                                             *)
LEMMA ManyScans ==
  Bank!Scans \in Nat /\ Bank!Scans >= Cardinality(Process) /\ Bank!Scans >= 1
<1> DEFINE c == Cardinality(Process)
           Q == {f \in [1 .. c -> Process] : \A i, j \in 1 .. c : i # j => f[i] # f[j]}
<1>1. c \in Nat \ {0} /\ IsFiniteSet(Process)
  BY BankNumbers, FS_CardinalityType, FS_EmptySet
<1>2. Bank!Scans = Cardinality(Q)
  BY SameBank DEF Bank!Scans, Bank!SetToSeqs
<1>3. PICK f : f \in Bijection(1 .. c, Process)
  BY BankNumbers, FS_CardinalityType DEF ExistsBijection
<1> HIDE DEF c
<1>4. /\ f \in [1 .. c -> Process]
      /\ \A i, j \in 1 .. c : i # j => f[i] # f[j]
      /\ \A p \in Process : \E i \in 1 .. c : f[i] = p
  BY <1>3 DEF Bijection, Injection, Surjection, IsInjective
<1> DEFINE Swapped(p) == [i \in 1 .. c |-> IF i = 1 THEN p ELSE IF f[i] = p THEN f[1] ELSE f[i]]
<1>5. 1 \in 1 .. c
  BY <1>1
<1>6. ASSUME NEW p \in Process
      PROVE  Swapped(p) \in Q /\ Swapped(p)[1] = p
  <2>1. Swapped(p) \in [1 .. c -> Process]
    BY <1>4, <1>5
  <2>2. ASSUME NEW i \in 1 .. c, NEW j \in 1 .. c, i # j
        PROVE  Swapped(p)[i] # Swapped(p)[j]
    <3>1. f[i] # f[j] /\ (i # 1 => f[i] # f[1]) /\ (j # 1 => f[j] # f[1])
      BY <1>4, <1>5, <2>2
    <3>2. QED
      BY <2>2, <3>1
  <2>3. QED
    BY <1>5, <2>1, <2>2
<1> DEFINE H == [p \in Process |-> Swapped(p)]
<1>7. H \in Injection(Process, Q)
  <2>1. H \in [Process -> Q]
    BY <1>6
  <2>2. \A p \in Process : H[p][1] = p
    BY <1>6
  <2> HIDE DEF H, Q
  <2>3. QED
    BY <2>1, <2>2 DEF Injection, IsInjective
<1>8. IsFiniteSet(Q)
  <2> DEFINE W == SUBSET ((1 .. c) \X Process)
             Graph == [g \in Q |-> {<<i, g[i]>> : i \in 1 .. c}]
  <2>1. IsFiniteSet(W)
    <3>1. IsFiniteSet(1 .. c)
      BY <1>1, FS_Interval
    <3>2. IsFiniteSet((1 .. c) \X Process)
      BY <1>1, <3>1, FS_Product
    <3>3. QED
      BY <3>2, FS_SUBSET
  <2>2. \A g \in Q : g \in [1 .. c -> Process]
    OBVIOUS
  <2> HIDE DEF Q
  <2>3. Graph \in [Q -> W]
    <3>1. ASSUME NEW g \in Q
          PROVE  {<<i, g[i]>> : i \in 1 .. c} \in W
      <4>1. \A i \in 1 .. c : g[i] \in Process
        BY <2>2
      <4>2. QED
        BY <4>1
    <3>2. QED
      BY <3>1
  <2>4. ASSUME NEW g \in Q, NEW h \in Q, Graph[g] = Graph[h]
        PROVE  g = h
    <3>1. ASSUME NEW i \in 1 .. c
          PROVE  g[i] = h[i]
      <4>1. <<i, g[i]>> \in Graph[h]
        BY <2>4
      <4>2. QED
        BY <4>1
    <3>2. g = [i \in 1 .. c |-> g[i]] /\ h = [i \in 1 .. c |-> h[i]]
      BY <2>2
    <3>3. QED
      BY <3>1, <3>2
  <2> HIDE DEF W, Graph
  <2>5. Graph \in Injection(Q, W)
    BY <2>3, <2>4 DEF Injection, IsInjective
  <2>6. QED
    BY <2>1, <2>5, FS_Injection
<1> HIDE DEF H, Q
<1>9. Cardinality(Q) \in Nat /\ c <= Cardinality(Q)
  BY <1>7, <1>8, FS_Injection, FS_CardinalityType DEF c
<1>10. QED
  BY <1>1, <1>2, <1>9 DEF c

-----------------------------------------------------------------------------
(* The state given is safe.                                                *)
GivenSafe(n, g) == CanRun(n, g, Bank!CalcAvaliable(g), Process)

(* What a scan has done for a safe state when processes l are left of it:  *)
(* every scan before it has finished a process, and this one has, or will. *)
Scanned(n, v, d, c, l) ==
  /\ Cardinality(d) >= c - 1
  /\ Cardinality(d) >= c \/ \E q \in l \ d : \A r \in Resource : n[q][r] <= v[r]

(* The inductive invariant of the banker: what is available is what nobody *)
(* holds, the state is safe if and only if the one given was, and a safe   *)
(* state finishes a process in each scan.                                  *)
BankState(n0, g, n, a, v, d) ==
  /\ n0 = Bank!CalcNeed /\ g = given /\ n = need /\ a = allocated /\ v = avaliable /\ d = finished
  /\ n0 \in [Process -> Bank!Amount] /\ Bank!CalcAvaliable(g) \in Bank!Amount
  /\ v = Bank!CalcAvaliable(a)
  /\ CanRun(n, a, v, Process \ d) <=> GivenSafe(n0, g)
  /\ result = "True" => GivenSafe(n0, g)
  /\ result = "False" => ~GivenSafe(n0, g)
  /\ result = "none" => d # Process
  /\ result = "none" /\ running = {} /\ GivenSafe(n0, g) => Scanned(n, v, d, scan, left)
  /\ result = "none" /\ running # {} /\ GivenSafe(n0, g) => Cardinality(d) >= scan - 1

BankInv ==
  /\ Bank!TypeOK
  /\ \E n0, g, n, a, v, d : BankState(n0, g, n, a, v, d)
  /\ \A p \in running : p \in left \ finished /\ running = {p} /\ \A r \in Resource : need[p][r] = 0

(* It says what Verdict says.                                              *)
LEMMA BankInvVerdict == BankInv => Bank!TypeOK /\ Bank!Verdict
<1> SUFFICES ASSUME BankInv
             PROVE  Bank!Verdict
  BY DEF BankInv
<1>1. PICK n0, g, n, a, v, d : BankState(n0, g, n, a, v, d)
  BY DEF BankInv
<1>2. /\ g \in [Process -> Bank!Amount] /\ n \in [Process -> Bank!Amount] /\ a \in [Process -> Bank!Amount]
      /\ v \in Bank!Amount /\ result \in {"none", "True", "False"} /\ Process \ d \in SUBSET Process
  BY <1>1 DEF BankInv, BankState, Bank!TypeOK
<1>3. Bank!SafeFrom(n0, g, Bank!CalcAvaliable(g), Process) <=> GivenSafe(n0, g)
  BY <1>1, <1>2, SafeCanRun, CanRunSafe DEF GivenSafe, BankState
<1>4. Bank!SafeFrom(n, a, v, Process \ d) <=> CanRun(n, a, v, Process \ d)
  BY <1>2, SafeCanRun, CanRunSafe
<1>5. QED
  BY <1>1, <1>2, <1>3, <1>4 DEF Bank!Verdict, BankState

(* On with the scan: the last one leaves nobody over in a safe state, for  *)
(* there are as many scans as processes.                                   *)
LEMMA GoOnKeeps ==
  ASSUME NEW n \in [Process -> Bank!Amount], NEW a \in [Process -> Bank!Amount], NEW v \in Bank!Amount,
         NEW d \in SUBSET Process, d # Process, Bank!TypeOK, NEW p \in left, Bank!GoOn(p), result = "none",
         CanRun(n, a, v, Process \ d) => Scanned(n, v, d, scan, left \ {p})
  PROVE  /\ left' \subseteq Process /\ scan' \in 1 .. Bank!Scans /\ result' \in {"none", "False"}
         /\ result' = "False" => ~CanRun(n, a, v, Process \ d)
         /\ result' = "none" /\ CanRun(n, a, v, Process \ d) => Scanned(n, v, d, scan', left')
<1>1. /\ IsFiniteSet(d) /\ Cardinality(d) \in Nat /\ Cardinality(Process) \in Nat
      /\ Cardinality(d) < Cardinality(Process)
  <2>1. IsFiniteSet(d) /\ Cardinality(d) <= Cardinality(Process) /\ Cardinality(d) # Cardinality(Process)
    BY BankNumbers, FS_Subset
  <2>2. QED
    BY <2>1, BankNumbers, FS_CardinalityType
<1>2. scan \in 1 .. Bank!Scans /\ left \subseteq Process
  BY DEF Bank!TypeOK
<1>3. CASE left # {p}
  BY <1>2, <1>3 DEF Bank!GoOn
<1>4. ASSUME left = {p}, CanRun(n, a, v, Process \ d)
      PROVE  Cardinality(d) >= scan
  <2>1. left \ {p} = {}
    BY <1>4
  <2>2. QED
    BY <1>4, <2>1 DEF Scanned
<1>5. CASE left = {p} /\ scan < Bank!Scans
  <2>1. left' = Process /\ scan' = scan + 1 /\ result' = result
    BY <1>5 DEF Bank!GoOn
  <2>2. ASSUME CanRun(n, a, v, Process \ d)
        PROVE  \E q \in Process \ d : \A r \in Resource : n[q][r] <= v[r]
    <3>1. PICK q \in Process \ d :
            \A r \in Resource : n[q][r] <= v[r] + Bank!Held(a, (Process \ d) \ (Process \ d), r)
      BY <2>2 DEF CanRun
    <3>2. (Process \ d) \ (Process \ d) = {}
      OBVIOUS
    <3>3. ASSUME NEW r \in Resource
          PROVE  n[q][r] <= v[r]
      <4>1. Bank!Held(a, {}, r) = 0
        BY FS_EmptySet, SameBank DEF Bank!Held
      <4>2. v[r] \in Nat
        BY DEF Bank!Amount
      <4>3. QED
        BY <3>1, <3>2, <4>1, <4>2
    <3>4. QED
      BY <3>3
  <2>3. QED
    BY <1>1, <1>2, <1>4, <1>5, <2>1, <2>2, ManyScans DEF Scanned
<1>6. CASE left = {p} /\ ~(scan < Bank!Scans)
  <2>1. result' = "False" /\ left' = left /\ scan' = scan
    BY <1>6 DEF Bank!GoOn
  <2>2. ~CanRun(n, a, v, Process \ d)
    BY <1>1, <1>2, <1>4, <1>6, ManyScans
  <2>3. QED
    BY <1>2, <2>1, <2>2
<1>7. QED
  BY <1>3, <1>5, <1>6

(* A process that is passed over has finished, or does not fit.            *)
LEMMA PassOverKeeps ==
  ASSUME BankInv, result = "none", running = {}, NEW p \in Process, Bank!PassOver(p)
  PROVE  BankInv'
<1>1. PICK n0, g, n, a, v, d : BankState(n0, g, n, a, v, d)
  BY DEF BankInv
<1>2. /\ n \in [Process -> Bank!Amount] /\ a \in [Process -> Bank!Amount] /\ v \in Bank!Amount
      /\ d \in SUBSET Process /\ Bank!TypeOK
  BY <1>1 DEF BankInv, BankState, Bank!TypeOK
<1>3. /\ p \in left /\ Bank!GoOn(p)
      /\ max' = max /\ given' = given /\ need' = need /\ allocated' = allocated /\ avaliable' = avaliable
      /\ finished' = finished /\ running' = running
  BY DEF Bank!PassOver
<1>4. p \in d \/ ~\A r \in Resource : n[p][r] <= v[r]
  BY <1>1 DEF Bank!PassOver, Bank!Fits, Bank!Below, BankState
<1>5. d # Process /\ (CanRun(n, a, v, Process \ d) => Scanned(n, v, d, scan, left))
  BY <1>1 DEF BankState
<1>6. CanRun(n, a, v, Process \ d) => Scanned(n, v, d, scan, left \ {p})
  BY <1>4, <1>5 DEF Scanned
<1>7. /\ left' \subseteq Process /\ scan' \in 1 .. Bank!Scans /\ result' \in {"none", "False"}
      /\ result' = "False" => ~CanRun(n, a, v, Process \ d)
      /\ result' = "none" /\ CanRun(n, a, v, Process \ d) => Scanned(n, v, d, scan', left')
  BY <1>2, <1>3, <1>5, <1>6, GoOnKeeps
<1>8. Bank!TypeOK'
  BY <1>2, <1>3, <1>7 DEF Bank!TypeOK
<1>9. Bank!CalcNeed' = Bank!CalcNeed
  BY <1>3 DEF Bank!CalcNeed
<1>10. BankState(n0, g, n, a, v, d)'
  BY <1>1, <1>3, <1>5, <1>7, <1>9 DEF BankState
<1>11. running' = {}
  BY <1>3
<1>12. QED
  BY <1>8, <1>10, <1>11 DEF BankInv

(* A process that runs takes what it needs: for the others it is as if it  *)
(* had given back what it holds.                                           *)
LEMMA ExecuteKeeps ==
  ASSUME BankInv, result = "none", running = {}, NEW p \in Process, Bank!ExecuteProcess(p)
  PROVE  BankInv'
<1>1. PICK n0, g, n, a, v, d : BankState(n0, g, n, a, v, d)
  BY DEF BankInv
<1>2. /\ n \in [Process -> Bank!Amount] /\ a \in [Process -> Bank!Amount] /\ v \in Bank!Amount
      /\ d \in SUBSET Process /\ Bank!TypeOK
  BY <1>1 DEF BankInv, BankState, Bank!TypeOK
<1>3. /\ p \in left \ d /\ \A r \in Resource : n[p][r] <= v[r]
      /\ max' = max /\ given' = given /\ finished' = finished /\ scan' = scan /\ left' = left
      /\ result' = result /\ running' = {p}
  BY <1>1 DEF Bank!ExecuteProcess, Bank!Fits, Bank!Below, BankState
<1>4. PICK m, b, w :
        /\ m = need' /\ b = allocated' /\ w = avaliable'
        /\ m = [n EXCEPT ![p] = [r \in Resource |-> 0]]
        /\ b = [a EXCEPT ![p] = [r \in Resource |-> a[p][r] + n[p][r]]]
        /\ w = [r \in Resource |-> v[r] - n[p][r]]
  BY <1>1, <1>2 DEF Bank!ExecuteProcess, BankState
<1>5. /\ m \in [Process -> Bank!Amount] /\ b \in [Process -> Bank!Amount] /\ w \in Bank!Amount
      /\ \A q \in Process \ {p} : m[q] = n[q] /\ b[q] = a[q]
      /\ \A r \in Resource : m[p][r] = 0 /\ b[p][r] = a[p][r] + n[p][r] /\ w[r] = v[r] - n[p][r]
      /\ \A r \in Resource : n[p][r] \in Nat /\ a[p][r] \in Nat /\ v[r] \in Nat /\ n[p][r] <= v[r]
  BY <1>2, <1>3, <1>4 DEF Bank!Amount
<1> DEFINE u == [r \in Resource |-> v[r] + a[p][r]]
           S == Process \ d
<1>6. /\ u \in Bank!Amount
      /\ \A r \in Resource : u[r] = v[r] + a[p][r] /\ u[r] = w[r] + b[p][r] /\ m[p][r] <= w[r]
  BY <1>5 DEF Bank!Amount
<1>7. S \in SUBSET Process /\ p \in S
  BY <1>3
<1> HIDE DEF u, S
<1>8. CanRun(n, a, v, S) <=> CanRun(n, a, u, S \ {p})
  BY <1>2, <1>3, <1>6, <1>7, RunOne
<1>9. CanRun(m, b, w, S) <=> CanRun(m, b, u, S \ {p})
  BY <1>5, <1>6, <1>7, RunOne
<1>10. CanRun(n, a, u, S \ {p}) <=> CanRun(m, b, u, S \ {p})
  <2>1. S \ {p} \in SUBSET Process /\ \A q \in S \ {p} : n[q] = m[q] /\ a[q] = b[q]
    BY <1>5, <1>7
  <2>2. QED
    BY <1>2, <1>5, <2>1, SameRun
<1>11. w = Bank!CalcAvaliable(b)
  <2>1. ASSUME NEW r \in Resource
        PROVE  w[r] = RESOURCE[r] - Bank!Held(b, Process, r)
    <3> DEFINE V == Process \ {p}
    <3>1. V \in SUBSET Process /\ p \in Process \ V
      OBVIOUS
    <3>2. Process = V \cup {p}
      OBVIOUS
    <3>3. \A q \in V : a[q] = b[q]
      BY <1>5
    <3> HIDE DEF V
    <3>4. /\ Bank!Held(a, V \cup {p}, r) = Bank!Held(a, V, r) + a[p][r]
          /\ Bank!Held(b, V \cup {p}, r) = Bank!Held(b, V, r) + b[p][r]
      BY <1>2, <1>5, <3>1, HeldProperties
    <3>5. Bank!Held(b, V, r) = Bank!Held(a, V, r) /\ Bank!Held(a, V, r) \in Nat
      BY <1>2, <1>5, <3>1, <3>3, HeldMore, HeldProperties
    <3>6. v[r] = RESOURCE[r] - Bank!Held(a, V \cup {p}, r) /\ RESOURCE[r] \in Nat
      BY <1>1, <3>2, BankNumbers DEF BankState, Bank!CalcAvaliable
    <3>7. w[r] = RESOURCE[r] - Bank!Held(b, V \cup {p}, r)
      BY <1>5, <3>4, <3>5, <3>6
    <3>8. QED
      BY <3>2, <3>7
  <2>2. QED
    BY <1>4, <2>1 DEF Bank!CalcAvaliable
<1>12. Bank!TypeOK'
  <2>1. /\ avaliable' \in Bank!Amount /\ need' \in [Process -> Bank!Amount]
        /\ allocated' \in [Process -> Bank!Amount] /\ running' \subseteq Process
    BY <1>3, <1>4, <1>5
  <2>2. QED
    BY <1>2, <1>3, <2>1 DEF Bank!TypeOK
<1>13. Bank!CalcNeed' = Bank!CalcNeed
  BY <1>3 DEF Bank!CalcNeed
<1>14. BankState(n0, g, m, b, w, d)'
  <2>1. CanRun(m, b, w, Process \ d) <=> GivenSafe(n0, g)
    BY <1>1, <1>8, <1>9, <1>10 DEF BankState, S
  <2>2. GivenSafe(n0, g) => Cardinality(d) >= scan - 1
    BY <1>1 DEF BankState, Scanned
  <2>3. QED
    BY <1>1, <1>3, <1>4, <1>11, <1>13, <2>1, <2>2 DEF BankState
<1>15. \A q \in running' : q \in left' \ finished' /\ running' = {q} /\ \A r \in Resource : need'[q][r] = 0
  BY <1>1, <1>3, <1>4, <1>5 DEF BankState
<1>16. QED
  BY <1>12, <1>14, <1>15 DEF BankInv

(* A process that has run gives back what it holds; the check that follows *)
(* refuses only states that are not safe, and the last process makes the   *)
(* verdict True.                                                           *)
LEMMA ReleaseKeeps ==
  ASSUME BankInv, result = "none", NEW p \in running, Bank!ReleasingProcess(p)
  PROVE  BankInv'
<1>1. PICK n0, g, n, a, v, d : BankState(n0, g, n, a, v, d)
  BY DEF BankInv
<1>2. /\ n \in [Process -> Bank!Amount] /\ a \in [Process -> Bank!Amount] /\ v \in Bank!Amount
      /\ d \in SUBSET Process /\ Bank!TypeOK
  BY <1>1 DEF BankInv, BankState, Bank!TypeOK
<1>3. p \in left \ d /\ p \in Process /\ \A r \in Resource : n[p][r] = 0
  BY <1>1 DEF BankInv, BankState, Bank!TypeOK
<1>4. PICK b, w, e :
        /\ b = allocated' /\ w = avaliable' /\ e = finished'
        /\ b = [a EXCEPT ![p] = [r \in Resource |-> 0]]
        /\ w = Bank!CalcAvaliable(b)
        /\ e = d \cup {p}
  BY <1>1 DEF Bank!ReleasingProcess, Bank!Released, BankState
<1>5. max' = max /\ given' = given /\ need' = need /\ running' = {}
  BY DEF Bank!ReleasingProcess
<1>6. /\ b \in [Process -> Bank!Amount]
      /\ \A q \in Process \ {p} : b[q] = a[q]
      /\ \A r \in Resource : b[p][r] = 0 /\ a[p][r] \in Nat /\ v[r] \in Nat
  BY <1>2, <1>3, <1>4 DEF Bank!Amount
<1>7. /\ DOMAIN w = Resource /\ w = [r \in Resource |-> w[r]]
      /\ \A r \in Resource : w[r] = v[r] + a[p][r]
  <2>1. ASSUME NEW r \in Resource
        PROVE  RESOURCE[r] - Bank!Held(b, Process, r) = v[r] + a[p][r]
    <3> DEFINE V == Process \ {p}
    <3>1. V \in SUBSET Process /\ p \in Process \ V
      BY <1>3
    <3>2. Process = V \cup {p}
      BY <1>3
    <3>3. \A q \in V : a[q] = b[q]
      BY <1>6
    <3> HIDE DEF V
    <3>4. /\ Bank!Held(a, V \cup {p}, r) = Bank!Held(a, V, r) + a[p][r]
          /\ Bank!Held(b, V \cup {p}, r) = Bank!Held(b, V, r) + b[p][r]
      BY <1>2, <1>6, <3>1, HeldProperties
    <3>5. Bank!Held(b, V, r) = Bank!Held(a, V, r) /\ Bank!Held(a, V, r) \in Nat
      BY <1>2, <1>6, <3>1, <3>3, HeldMore, HeldProperties
    <3>6. v[r] = RESOURCE[r] - Bank!Held(a, V \cup {p}, r) /\ RESOURCE[r] \in Nat
      BY <1>1, <3>2, BankNumbers DEF BankState, Bank!CalcAvaliable
    <3>7. RESOURCE[r] - Bank!Held(b, V \cup {p}, r) = v[r] + a[p][r]
      BY <1>6, <3>4, <3>5, <3>6
    <3>8. QED
      BY <3>2, <3>7
  <2>2. QED
    BY <1>4, <2>1 DEF Bank!CalcAvaliable
<1>8. w \in Bank!Amount
  BY <1>6, <1>7 DEF Bank!Amount
<1> DEFINE S == Process \ d
<1>9. S \in SUBSET Process /\ p \in S /\ S \ {p} = Process \ e
  BY <1>3, <1>4
<1>10. CanRun(n, a, v, S) <=> CanRun(n, b, w, S \ {p})
  <2> HIDE DEF S
  <2>1. \A r \in Resource : n[p][r] <= v[r]
    BY <1>3, <1>6
  <2>2. CanRun(n, a, v, S) <=> CanRun(n, a, w, S \ {p})
    BY <1>2, <1>7, <1>8, <1>9, <2>1, RunOne
  <2>3. S \ {p} \in SUBSET Process /\ \A q \in S \ {p} : n[q] = n[q] /\ a[q] = b[q]
    BY <1>6, <1>9
  <2>4. QED
    BY <1>2, <1>6, <2>2, <2>3, SameRun
<1>11. CanRun(n, b, w, Process \ e) <=> GivenSafe(n0, g)
  BY <1>1, <1>9, <1>10 DEF BankState
<1>12. Cardinality(e) = Cardinality(d) + 1 /\ e \in SUBSET Process /\ Cardinality(d) \in Nat
  <2>1. IsFiniteSet(d)
    BY <1>2, BankNumbers, FS_Subset
  <2>2. QED
    BY <1>2, <1>3, <1>4, <2>1, FS_AddElement, FS_CardinalityType
<1>13. GivenSafe(n0, g) => Cardinality(d) >= scan - 1
  BY <1>1, <1>3 DEF BankState
<1>14. scan \in 1 .. Bank!Scans /\ left \subseteq Process
  BY <1>2 DEF Bank!TypeOK
<1>15. \/ /\ ~Bank!TempSafeCheckAfterRelease(e, w) /\ result' = "False" /\ scan' = scan /\ left' = left
       \/ /\ Bank!TempSafeCheckAfterRelease(e, w) /\ e = Process
          /\ result' = "True" /\ scan' = scan /\ left' = left
       \/ e # Process /\ Bank!GoOn(p)
  BY <1>1, <1>4 DEF Bank!ReleasingProcess, BankState
<1> DEFINE After ==
      /\ left' \subseteq Process /\ scan' \in 1 .. Bank!Scans /\ result' \in {"none", "True", "False"}
      /\ result' = "True" => GivenSafe(n0, g)
      /\ result' = "False" => ~GivenSafe(n0, g)
      /\ result' = "none" => e # Process
      /\ result' = "none" /\ GivenSafe(n0, g) => Scanned(n, w, e, scan', left')
<1>16. After
  <2>1. CASE ~Bank!TempSafeCheckAfterRelease(e, w) /\ result' = "False" /\ scan' = scan /\ left' = left
    <3>1. Process \ e # {} /\ \A q \in Process \ e : ~\A r \in Resource : n[q][r] <= w[r]
      BY <1>1, <1>12, <2>1 DEF Bank!TempSafeCheckAfterRelease, Bank!Below, BankState
    <3>2. ASSUME CanRun(n, b, w, Process \ e)
          PROVE  FALSE
      <4>1. PICK q \in Process \ e :
              \A r \in Resource : n[q][r] <= w[r] + Bank!Held(b, (Process \ e) \ (Process \ e), r)
        BY <3>1, <3>2 DEF CanRun
      <4>2. \A r \in Resource : Bank!Held(b, {}, r) = 0 /\ w[r] \in Nat
        BY <1>8, FS_EmptySet, SameBank DEF Bank!Held, Bank!Amount
      <4>3. (Process \ e) \ (Process \ e) = {}
        OBVIOUS
      <4>4. \A r \in Resource : n[q][r] <= w[r]
        BY <4>1, <4>2, <4>3
      <4>5. QED
        BY <3>1, <4>4
    <3>3. QED
      BY <1>11, <1>14, <2>1, <3>2
  <2>2. CASE e = Process /\ result' = "True" /\ scan' = scan /\ left' = left
    <3>1. CanRun(n, b, w, Process \ e)
      BY <2>2 DEF CanRun
    <3>2. QED
      BY <1>11, <1>14, <2>2, <3>1
  <2>3. CASE e # Process /\ Bank!GoOn(p)
    <3>1. CanRun(n, b, w, Process \ e) => Scanned(n, w, e, scan, left \ {p})
      BY <1>11, <1>12, <1>13, <1>14 DEF Scanned
    <3>2. p \in left
      BY <1>3
    <3>3. /\ left' \subseteq Process /\ scan' \in 1 .. Bank!Scans /\ result' \in {"none", "False"}
          /\ result' = "False" => ~CanRun(n, b, w, Process \ e)
          /\ result' = "none" /\ CanRun(n, b, w, Process \ e) => Scanned(n, w, e, scan', left')
      BY <1>2, <1>6, <1>8, <1>12, <2>3, <3>1, <3>2, GoOnKeeps
    <3>4. QED
      BY <1>11, <2>3, <3>3
  <2>4. QED
    BY <1>15, <2>1, <2>2, <2>3
<1> HIDE DEF S
<1>17. Bank!TypeOK'
  BY <1>2, <1>4, <1>5, <1>6, <1>8, <1>12, <1>16 DEF Bank!TypeOK
<1>18. Bank!CalcNeed' = Bank!CalcNeed
  BY <1>5 DEF Bank!CalcNeed
<1>19. BankState(n0, g, n, b, w, e)'
  BY <1>1, <1>4, <1>5, <1>11, <1>16, <1>18 DEF BankState
<1>20. QED
  BY <1>5, <1>17, <1>19 DEF BankInv

(* The state given is as good as the first one.                            *)
LEMMA BankInit == ASSUME Bank!Init PROVE BankInv
<1>1. PICK g, n, v :
        /\ g = given /\ n = need /\ v = avaliable
        /\ g = allocated /\ n = Bank!CalcNeed /\ v = Bank!CalcAvaliable(g)
        /\ g \in [Process -> Bank!Input] /\ max \in [Process -> Bank!Input]
        /\ \A r \in Resource : Bank!Held(g, Process, r) <= RESOURCE[r]
        /\ \A p \in Process : \A r \in Resource : g[p][r] <= max[p][r]
        /\ finished = {} /\ scan = 1 /\ left = Process /\ running = {} /\ result = "none"
  BY DEF Bank!Init, Bank!Below
<1>2. \A x \in Bank!Input : x \in Bank!Amount
  <2> DEFINE m == Bank!Max({RESOURCE[r] : r \in Resource})
  <2>1. Bank!Input \subseteq [Resource -> 0 .. m]
    BY DEF Bank!Input
  <2> HIDE DEF m
  <2>2. 0 .. m \subseteq Nat
    OBVIOUS
  <2>3. QED
    BY <2>1, <2>2 DEF Bank!Amount
<1>3. g \in [Process -> Bank!Amount] /\ max \in [Process -> Bank!Amount]
  BY <1>1, <1>2
<1>4. n \in [Process -> Bank!Amount]
  BY <1>1, <1>3 DEF Bank!CalcNeed, Bank!Amount
<1>5. v \in Bank!Amount
  <2>1. \A r \in Resource : RESOURCE[r] \in Nat /\ Bank!Held(g, Process, r) \in Nat
    BY <1>3, BankNumbers, HeldProperties
  <2>2. QED
    BY <1>1, <2>1 DEF Bank!CalcAvaliable, Bank!Amount
<1>6. Bank!TypeOK
  BY <1>1, <1>3, <1>4, <1>5, ManyScans DEF Bank!TypeOK
<1>7. Process \ {} = Process /\ Process # {} /\ Cardinality({}) = 0
  BY BankNumbers, FS_EmptySet
<1>8. CanRun(n, g, v, Process \ {}) <=> GivenSafe(n, g)
  BY <1>1, <1>7 DEF GivenSafe
<1>9. GivenSafe(n, g) => Scanned(n, v, {}, 1, Process)
  <2>1. SUFFICES ASSUME CanRun(n, g, v, Process)
                 PROVE  \E q \in Process : \A r \in Resource : n[q][r] <= v[r]
    BY <1>7, <1>8 DEF Scanned
  <2>2. PICK q \in Process : \A r \in Resource : n[q][r] <= v[r] + Bank!Held(g, Process \ Process, r)
    BY <1>7, <2>1 DEF CanRun
  <2>3. Process \ Process = {} /\ \A r \in Resource : Bank!Held(g, {}, r) = 0 /\ v[r] \in Nat
    BY <1>5, FS_EmptySet, SameBank DEF Bank!Held, Bank!Amount
  <2>4. QED
    BY <2>2, <2>3
<1>10. BankState(n, g, n, g, v, {})
  BY <1>1, <1>4, <1>5, <1>7, <1>8, <1>9 DEF BankState
<1>11. QED
  BY <1>1, <1>6, <1>10 DEF BankInv

(* The banker of hw19, for any processes, resources and amounts: running   *)
(* the processes as they come never spoils a safe state, and the scans are *)
(* enough to run them all; so the verdict is right.                        *)
THEOREM VerdictIsRight == HomeworkSpec => []Verdict
<1> DEFINE Inv == program = "bankers" => BankInv
<1>1. HomeworkInit => Inv
  BY BankInit DEF HomeworkInit
<1>2. Inv /\ [HomeworkNext]_allvars => Inv'
  <2> SUFFICES ASSUME BankInv, program = "bankers", [HomeworkNext]_allvars
               PROVE  BankInv'
    BY DEF HomeworkNext, allvars
  <2>1. CASE UNCHANGED bankvars
    <3>1. PICK n0, g, n, a, v, d : BankState(n0, g, n, a, v, d)
      BY DEF BankInv
    <3>2. Bank!CalcNeed' = Bank!CalcNeed
      BY <2>1 DEF Bank!CalcNeed, bankvars
    <3>3. BankState(n0, g, n, a, v, d)'
      BY <2>1, <3>1, <3>2 DEF BankState, bankvars
    <3>4. Bank!TypeOK'
      BY <2>1 DEF BankInv, Bank!TypeOK, bankvars
    <3>5. QED
      BY <2>1, <3>3, <3>4 DEF BankInv, bankvars
  <2>2. CASE Bank!Next
    <3>1. CASE running = {}
      BY <2>2, <3>1, ExecuteKeeps, PassOverKeeps DEF Bank!Next
    <3>2. CASE running # {}
      BY <2>2, <3>2, ReleaseKeeps DEF Bank!Next
    <3>3. QED
      BY <3>1, <3>2
  <2>3. QED
    BY <2>1, <2>2 DEF HomeworkNext, allvars
<1>3. Inv => Verdict
  BY BankInvVerdict DEF Verdict
<1>4. QED
  BY <1>1, <1>2, <1>3, PTL DEF HomeworkSpec

-----------------------------------------------------------------------------
(* Round robin, before a turn: the job at place k of the list has waited   *)
(* for at most a quantum of each job that was before it, if it has not run *)
(* yet, and else of each job that has run since.                           *)
JobInv ==
  /\ quantum \in Nat \ {0} /\ thetime \in Nat
  /\ runlist \in Seq([job : Jobs!Job, runtime : Nat]) /\ Len(runlist) <= NumJobs
  /\ lastran \in [Jobs!Job -> Int] /\ wait \in [Jobs!Job -> Int] /\ response \in [Jobs!Job -> Int]
  /\ \A k, l \in 1 .. Len(runlist) : k # l => runlist[k].job # runlist[l].job
  /\ \A k \in 1 .. Len(runlist) :
       IF response[runlist[k].job] = -1
       THEN lastran[runlist[k].job] = 0 /\ thetime <= quantum * (runlist[k].job - k + 1)
       ELSE thetime - lastran[runlist[k].job] <= quantum * (NumJobs - k)

(* The constants.                                                          *)
LEMMA JobNumbers ==
  /\ NumJobs \in Nat \ {0} /\ MaxLen \in Nat \ {0} /\ Quantum \subseteq Nat
  /\ Jobs!Job = 0 .. NumJobs - 1
BY HomeworkAssumption DEF Jobs!JobSchedAssumption, Jobs!Job

(* One quantum more.                                                       *)
LEMMA OneMore ==
  ASSUME NEW q \in Nat, NEW x \in Int
  PROVE  q * (x + 1) = q * x + q /\ q * x \in Int /\ (x >= 0 => q * x >= 0)
OBVIOUS

(* A turn of round robin.                                                  *)
LEMMA TurnKeepsJobs ==
  ASSUME JobInv, policy = "RR", Jobs!RunJob
  PROVE  JobInv' /\ Jobs!AnswersSoon
<1> DEFINE JobType == [job : Jobs!Job, runtime : Nat]
           n == Len(runlist)
           r == Head(runlist)
           j == r.job
           s == Jobs!Slice(r)
           T == Tail(runlist)
<1>1. /\ runlist # << >> /\ runlist \in Seq(JobType) /\ n <= NumJobs
      /\ quantum \in Nat \ {0} /\ thetime \in Nat
      /\ lastran \in [Jobs!Job -> Int] /\ wait \in [Jobs!Job -> Int] /\ response \in [Jobs!Job -> Int]
  BY DEF JobInv, Jobs!RunJob
<1> HIDE DEF JobType
<1>2. n \in Nat \ {0} /\ r = runlist[1] /\ r \in JobType
  BY <1>1, LenProperties, EmptySeq, HeadTailProperties
<1>3. /\ T \in Seq(JobType) /\ Len(T) = n - 1
      /\ \A k \in 1 .. n - 1 : T[k] = runlist[k + 1]
  BY <1>1, HeadTailProperties
<1>4. j \in Jobs!Job /\ r.runtime \in Nat
  BY <1>2 DEF JobType
<1>5. s \in Nat /\ s <= quantum
  BY <1>1, <1>4 DEF Jobs!Slice
<1>6. /\ response' = [response EXCEPT ![j] = IF response[j] = -1 THEN thetime ELSE response[j]]
      /\ wait' = [wait EXCEPT ![j] = wait[j] + thetime - lastran[j]]
      /\ thetime' = thetime + s
      /\ lastran' = [lastran EXCEPT ![j] = thetime']
      /\ quantum' = quantum
  BY DEF Jobs!RunJob, Jobs!Ran
<1>7. /\ runlist' \in Seq(JobType) /\ Len(runlist') \in {n - 1, n}
      /\ \A k \in 1 .. n - 1 : runlist'[k] = runlist[k + 1]
      /\ Len(runlist') = n => runlist'[n].job = j
  <2>1. CASE s < r.runtime
    <3> DEFINE e == [r EXCEPT !.runtime = r.runtime - s]
    <3>1. e \in JobType /\ e.job = j
      BY <1>2, <1>4, <1>5, <2>1 DEF JobType
    <3>2. runlist' = Append(T, e)
      BY <2>1 DEF Jobs!RunJob, Jobs!Requeue
    <3> HIDE DEF e, j, s, T, n
    <3>3. /\ Append(T, e) \in Seq(JobType) /\ Len(Append(T, e)) = n - 1 + 1
          /\ \A k \in 1 .. n - 1 : Append(T, e)[k] = T[k]
          /\ Append(T, e)[n - 1 + 1] = e
      BY <1>3, <3>1, AppendProperties
    <3>4. QED
      BY <1>2, <1>3, <3>1, <3>2, <3>3
  <2>2. CASE ~(s < r.runtime)
    <3>1. runlist' = T
      BY <2>2 DEF Jobs!RunJob
    <3> HIDE DEF T, n
    <3>2. QED
      BY <1>2, <1>3, <3>1
  <2>3. QED
    BY <2>1, <2>2
<1>8. /\ \A k \in 1 .. n : runlist[k].job \in Jobs!Job
      /\ \A k, l \in 1 .. n : k # l => runlist[k].job # runlist[l].job
      /\ \A k \in 1 .. n :
           IF response[runlist[k].job] = -1
           THEN lastran[runlist[k].job] = 0 /\ thetime <= quantum * (runlist[k].job - k + 1)
           ELSE thetime - lastran[runlist[k].job] <= quantum * (NumJobs - k)
  <2>1. \A k \in 1 .. n : runlist[k] \in JobType
    BY <1>1, ElementOfSeq
  <2>2. QED
    BY <2>1 DEF JobInv, JobType
<1>9. j = runlist[1].job
  BY <1>2
<1>10. Jobs!AnswersSoon
  <2>1. SUFFICES ASSUME NEW i \in Jobs!Job
                 PROVE  wait'[i] - wait[i] <= quantum * (IF response[i] = -1 THEN i ELSE NumJobs - 1)
    BY DEF Jobs!AnswersSoon
  <2> HIDE DEF j, s, T, n, r
  <2>2. i \in Nat /\ NumJobs - 1 \in Nat /\ quantum * i >= 0 /\ quantum * (NumJobs - 1) >= 0
    BY <1>1, JobNumbers, OneMore
  <2>3. CASE i # j
    BY <1>1, <1>6, <2>2, <2>3
  <2>4. CASE i = j
    <3>1. wait'[i] - wait[i] = thetime - lastran[i]
      BY <1>1, <1>6, <2>4
    <3>2. IF response[i] = -1 THEN lastran[i] = 0 /\ thetime <= quantum * (i - 1 + 1)
          ELSE thetime - lastran[i] <= quantum * (NumJobs - 1)
      <4>1. 1 \in 1 .. n
        BY <1>2
      <4>2. QED
        BY <1>8, <1>9, <2>4, <4>1
    <3>3. i - 1 + 1 = i /\ thetime - 0 = thetime
      BY <1>1, <2>2
    <3>4. QED
      BY <3>1, <3>2, <3>3
  <2>5. QED
    BY <2>3, <2>4
<1>11. ASSUME NEW k \in 1 .. Len(runlist')
       PROVE  IF response'[runlist'[k].job] = -1
              THEN lastran'[runlist'[k].job] = 0 /\ thetime' <= quantum * (runlist'[k].job - k + 1)
              ELSE thetime' - lastran'[runlist'[k].job] <= quantum * (NumJobs - k)
  <2> HIDE DEF j, s, T, n, r
  <2>1. CASE k <= n - 1
    <3> DEFINE i == runlist[k + 1].job
    <3>1. k + 1 \in 1 .. n /\ k \in 1 .. n - 1 /\ k + 1 # 1 /\ 1 \in 1 .. n /\ k \in Int
      BY <1>2, <1>7, <2>1
    <3>2. runlist'[k].job = i /\ i \in Jobs!Job /\ i # j
      BY <1>7, <1>8, <1>9, <3>1
    <3>3. IF response[i] = -1 THEN lastran[i] = 0 /\ thetime <= quantum * (i - (k + 1) + 1)
          ELSE thetime - lastran[i] <= quantum * (NumJobs - (k + 1))
      BY <1>8, <3>1
    <3> HIDE DEF i
    <3>4. response'[i] = response[i] /\ lastran'[i] = lastran[i] /\ response[i] \in Int /\ lastran[i] \in Int
      BY <1>1, <1>6, <3>2
    <3>5. i \in Int /\ NumJobs \in Int /\ i - (k + 1) + 1 = i - k /\ i - k + 1 \in Int
      BY <3>1, <3>2, JobNumbers
    <3>6. quantum * (i - k + 1) = quantum * (i - k) + quantum /\ quantum * (i - k) \in Int
      BY <1>1, <3>1, <3>5, OneMore
    <3>7. NumJobs - (k + 1) + 1 = NumJobs - k /\ NumJobs - (k + 1) \in Int
      BY <3>1, <3>5
    <3>8. quantum * (NumJobs - k) = quantum * (NumJobs - (k + 1)) + quantum /\ quantum * (NumJobs - (k + 1)) \in Int
      BY <1>1, <3>7, OneMore
    <3>9. CASE response[i] = -1
      <4>1. thetime + s <= quantum * (i - k + 1)
        BY <1>1, <1>5, <3>3, <3>5, <3>6, <3>9
      <4>2. QED
        <5>1. thetime' <= quantum * (i - k + 1)
          BY <1>6, <4>1
        <5>2. response'[i] = -1 /\ lastran'[i] = 0
          BY <3>3, <3>4, <3>9
        <5>3. QED
          BY <3>2, <5>1, <5>2
    <3>10. CASE response[i] # -1
      <4>1. thetime + s - lastran[i] <= quantum * (NumJobs - k)
        BY <1>1, <1>5, <3>3, <3>4, <3>8, <3>10
      <4>2. QED
        <5>1. thetime' - lastran'[i] <= quantum * (NumJobs - k)
          <6>1. thetime' = thetime + s /\ lastran'[i] = lastran[i]
            BY <1>6, <3>4
          <6>2. QED
            BY <1>1, <1>5, <3>4, <3>8, <4>1, <6>1
        <5>2. response'[i] # -1
          BY <3>4, <3>10
        <5>3. QED
          BY <3>2, <5>1, <5>2
    <3>11. QED
      BY <3>9, <3>10
  <2>2. CASE ~(k <= n - 1)
    <3>1. k = n /\ Len(runlist') = n
      BY <1>2, <1>7, <2>2
    <3>2. runlist'[k].job = j
      BY <1>7, <3>1
    <3>3. response'[j] # -1 /\ thetime' - lastran'[j] = 0
      BY <1>1, <1>4, <1>5, <1>6
    <3>4. NumJobs - k \in Nat
      BY <1>1, <1>2, <3>1, JobNumbers
    <3>5. quantum * (NumJobs - k) >= 0
      BY <1>1, <3>4, OneMore
    <3>6. QED
      BY <3>2, <3>3, <3>5
  <2>3. QED
    BY <2>1, <2>2
<1>12. \A k, l \in 1 .. Len(runlist') : k # l => runlist'[k].job # runlist'[l].job
  <2> HIDE DEF j, s, T, n, r
  <2>1. SUFFICES ASSUME NEW k \in 1 .. Len(runlist'), NEW l \in 1 .. Len(runlist'), k # l
                 PROVE  runlist'[k].job # runlist'[l].job
    OBVIOUS
  <2> DEFINE m(x) == IF x <= n - 1 THEN x + 1 ELSE 1
  <2>2. \A x \in 1 .. Len(runlist') : m(x) \in 1 .. n /\ runlist'[x].job = runlist[m(x)].job
    <3>1. SUFFICES ASSUME NEW x \in 1 .. Len(runlist')
                   PROVE  m(x) \in 1 .. n /\ runlist'[x].job = runlist[m(x)].job
      OBVIOUS
    <3>2. CASE x <= n - 1
      BY <1>2, <1>7, <3>2
    <3>3. CASE ~(x <= n - 1)
      <4>1. x = n /\ Len(runlist') = n
        BY <1>2, <1>7, <3>3
      <4>2. QED
        BY <1>2, <1>7, <1>9, <3>3, <4>1
    <3>4. QED
      BY <3>2, <3>3
  <2>3. m(k) # m(l)
    BY <1>2, <1>7, <2>1
  <2> HIDE DEF m
  <2>4. QED
    BY <1>8, <2>2, <2>3
<1>13. /\ thetime' \in Nat /\ lastran' \in [Jobs!Job -> Int]
       /\ wait' \in [Jobs!Job -> Int] /\ response' \in [Jobs!Job -> Int] /\ Len(runlist') <= NumJobs
  <2> HIDE DEF j, s, T, n, r
  <2>1. thetime' \in Nat
    BY <1>1, <1>5, <1>6
  <2>2. lastran' \in [Jobs!Job -> Int]
    <3>1. lastran' = [lastran EXCEPT ![j] = thetime'] /\ thetime' \in Int
      BY <1>6, <2>1
    <3>2. QED
      BY <1>1, <3>1
  <2>3. wait' \in [Jobs!Job -> Int]
    <3>1. wait[j] + thetime - lastran[j] \in Int
      BY <1>1, <1>4
    <3>2. QED
      BY <1>1, <1>6, <3>1
  <2>4. response' \in [Jobs!Job -> Int]
    <3>1. (IF response[j] = -1 THEN thetime ELSE response[j]) \in Int
      BY <1>1, <1>4
    <3>2. QED
      BY <1>1, <1>6, <3>1
  <2>5. Len(runlist') <= NumJobs
    BY <1>1, <1>2, <1>7, JobNumbers
  <2>6. QED
    BY <2>1, <2>2, <2>3, <2>4, <2>5
<1>14. JobInv'
  <2> HIDE DEF j, s, T, n, r
  <2>1. Jobs!Job' = Jobs!Job
    OBVIOUS
  <2>2. QED
    BY <1>1, <1>6, <1>7, <1>11, <1>12, <1>13 DEF JobInv, JobType
<1>15. QED
  BY <1>10, <1>14

(* All jobs are there at the start, in order.                              *)
LEMMA JobInit ==
  ASSUME Jobs!Init, policy = "RR"
  PROVE  JobInv
<1>1. /\ quantum \in {IF q = 0 THEN 1 ELSE q : q \in Quantum} /\ length \in [Jobs!Job -> 1 .. MaxLen]
      /\ runlist = [k \in 1 .. NumJobs |-> [job |-> [i \in 1 .. NumJobs |-> i - 1][k],
                                            runtime |-> length[[i \in 1 .. NumJobs |-> i - 1][k]]]]
      /\ thetime = 0
      /\ lastran = [j \in Jobs!Job |-> 0] /\ wait = [j \in Jobs!Job |-> 0]
      /\ response = [j \in Jobs!Job |-> -1]
  BY DEF Jobs!Init, Jobs!Order
<1>2. quantum \in Nat \ {0}
  BY <1>1, JobNumbers
<1>3. \A k \in 1 .. NumJobs : k - 1 \in Jobs!Job /\ length[k - 1] \in Nat
  BY <1>1, JobNumbers
<1>4. \A k \in 1 .. NumJobs : runlist[k] = [job |-> k - 1, runtime |-> length[k - 1]]
  BY <1>1
<1>5. runlist \in [1 .. NumJobs -> [job : Jobs!Job, runtime : Nat]]
  BY <1>1, <1>3
<1>6. runlist \in Seq([job : Jobs!Job, runtime : Nat]) /\ Len(runlist) = NumJobs
  <2> DEFINE JobType == [job : Jobs!Job, runtime : Nat]
  <2>1. runlist \in [1 .. NumJobs -> JobType] /\ NumJobs \in Nat
    BY <1>5, JobNumbers
  <2> HIDE DEF JobType
  <2>2. runlist \in Seq(JobType)
    BY <2>1, SeqDef
  <2>3. Len(runlist) = NumJobs
    <3>1. DOMAIN runlist = 1 .. NumJobs /\ DOMAIN runlist = 1 .. Len(runlist) /\ Len(runlist) \in Nat
      BY <2>1, <2>2, LenProperties
    <3>2. QED
      BY <2>1, <3>1
  <2>4. QED
    BY <2>2, <2>3 DEF JobType
<1>7. \A k \in 1 .. NumJobs : runlist[k].job = k - 1 /\ response[k - 1] = -1 /\ lastran[k - 1] = 0
  BY <1>1, <1>3, <1>4
<1>8. \A k \in 1 .. NumJobs : thetime <= quantum * (k - 1 - k + 1)
  <2>1. SUFFICES ASSUME NEW k \in 1 .. NumJobs
                 PROVE  thetime <= quantum * (k - 1 - k + 1)
    OBVIOUS
  <2>2. k - 1 - k + 1 = 0 /\ quantum * 0 = 0
    BY <1>2
  <2>3. QED
    BY <1>1, <2>2
<1>9. \A k, l \in 1 .. NumJobs : k # l => k - 1 # l - 1
  BY JobNumbers
<1>10. /\ lastran \in [Jobs!Job -> Int] /\ wait \in [Jobs!Job -> Int] /\ response \in [Jobs!Job -> Int]
  BY <1>1
<1>11. QED
  BY <1>1, <1>2, <1>6, <1>7, <1>8, <1>9, <1>10, JobNumbers DEF JobInv

(* What a step of the homework does to the jobs.                           *)
LEMMA JobStep ==
  ASSUME program = "jobs", policy = "RR" => JobInv, [HomeworkNext]_allvars
  PROVE  policy' = policy /\ (policy = "RR" => JobInv' /\ Jobs!AnswersSoon)
<1>1. CASE UNCHANGED jobvars
  <2>1. ASSUME policy = "RR"
        PROVE  JobInv' /\ Jobs!AnswersSoon
    <3>1. JobInv
      BY <2>1
    <3>2. JobInv'
      BY <1>1, <3>1 DEF JobInv, jobvars
    <3>3. ASSUME NEW j \in Jobs!Job
          PROVE  wait'[j] - wait[j] <= quantum * (IF response[j] = -1 THEN j ELSE NumJobs - 1)
      <4>1. wait'[j] - wait[j] = 0
        BY <1>1, <3>1 DEF JobInv, jobvars
      <4>2. quantum \in Nat /\ j \in Nat /\ NumJobs - 1 \in Nat
        BY <3>1, JobNumbers DEF JobInv
      <4>3. quantum * j >= 0 /\ quantum * (NumJobs - 1) >= 0
        BY <4>2, OneMore
      <4>4. QED
        BY <4>1, <4>3
    <3>4. QED
      BY <3>2, <3>3 DEF Jobs!AnswersSoon
  <2>2. QED
    BY <1>1, <2>1 DEF jobvars
<1>2. CASE Jobs!RunJob
  <2>1. policy' = policy
    BY <1>2 DEF Jobs!RunJob
  <2>2. QED
    BY <1>2, <2>1, TurnKeepsJobs
<1>3. QED
  BY <1>1, <1>2 DEF HomeworkNext, allvars

(* What every step of hw20 and hw14 keeps, for any sizes: an inode is lost *)
(* only by a mkdir that finds no block, and round robin lets no job wait   *)
(* for more than a quantum of each other job.                              *)
THEOREM StepsStayExact == HomeworkSpec => StepsExact
<1> DEFINE Inv == /\ program = "sfs" => FsInv
                  /\ program = "jobs" /\ policy = "RR" => JobInv
           Step == /\ program = "sfs" => Fs!LosesWhenFull
                   /\ program = "jobs" => Jobs!AnswersSoon
<1>1. HomeworkInit => Inv
  BY TreeInit, JobInit DEF HomeworkInit
<1>2. Inv /\ [HomeworkNext]_allvars => Inv' /\ Step
  <2> SUFFICES ASSUME Inv, [HomeworkNext]_allvars
               PROVE  Inv' /\ Step
    OBVIOUS
  <2>1. program' = program
    BY DEF HomeworkNext, allvars
  <2>2. CASE program = "sfs"
    BY <2>1, <2>2, FsStep
  <2>3. CASE program = "jobs"
    <3>1. policy' = policy /\ (policy = "RR" => JobInv' /\ Jobs!AnswersSoon)
      BY <2>3, JobStep
    <3>2. Jobs!AnswersSoon
      BY <3>1 DEF Jobs!AnswersSoon
    <3>3. QED
      BY <2>1, <2>3, <3>1, <3>2
  <2>4. QED
    BY <2>1, <2>2, <2>3
<1>3. QED
  BY <1>1, <1>2, PTL DEF HomeworkSpec, StepsExact

-----------------------------------------------------------------------------
(* The distance from a place in the ring of processes to a later one, and  *)
(* to itself the whole way round.                                          *)
Distance(a, b) == IF a < b THEN b - a ELSE b - a + NumProcs

(* Whoever had the processor while p was ready came ever nearer to p, the  *)
(* current process c being the nearest.                                    *)
Approach(p, seq, c) ==
  /\ \A i, j \in 1 .. Len(seq) : i < j => Distance(seq[j], p) < Distance(seq[i], p)
  /\ \A i \in 1 .. Len(seq) : Distance(c, p) <= Distance(seq[i], p)

ProcState == {"READY", "RUNNING", "WAITING", "DONE"}
TurnType == [states : [Sim!Pid -> ProcState], curr : Sim!Pid, chosen : Seq(Sim!Pid), hangs : BOOLEAN]

(* Between the parts of a tick: nobody runs but the current process; the   *)
(* processor is idle only when nobody is ready; and the history of a ready *)
(* process, with those chosen in this tick, approaches it.                 *)
OneRuns(s) ==
  /\ \A p \in Sim!Pid : s.states[p] = "RUNNING" => p = s.curr
  /\ (\E p \in Sim!Pid : s.states[p] = "READY") => s.states[s.curr] = "RUNNING"
NobodyRuns(s) == \A p \in Sim!Pid : s.states[p] # "RUNNING"
History(s) ==
  /\ s.chosen # << >> => \E i \in 1 .. Len(s.chosen) : s.chosen[i] = s.curr
  /\ \A p \in Sim!Pid : (\A i \in 1 .. Len(s.chosen) : s.chosen[i] # p) =>
        IF s.states[p] = "READY" THEN Approach(p, ran[p] \o s.chosen, s.curr) ELSE ran[p] = << >>

(* Whoever waits has one I/O that ends after t, and nobody else has any.   *)
Later(times, t) == {x \in times : x > t}
OneAwaited(states, times, t) ==
  \A p \in Sim!Pid :
     IF states[p] = "WAITING" THEN \E x \in Nat : Later(times[p], t) = {x} ELSE Later(times[p], t) = {}

(* What holds between ticks.                                               *)
SimFits(states, curr, tick, times, got) ==
  /\ states \in [Sim!Pid -> ProcState] /\ curr \in Sim!Pid /\ tick \in Nat
  /\ times \in [Sim!Pid -> SUBSET Nat] /\ got \in [Sim!Pid -> Seq(Sim!Pid)]
  /\ \A p \in Sim!Pid : states[p] = "RUNNING" => p = curr
  /\ (\E p \in Sim!Pid : states[p] = "READY") => states[curr] = "RUNNING"
  /\ \A p \in Sim!Pid : IF states[p] = "READY" THEN Approach(p, got[p], curr) ELSE got[p] = << >>
  /\ OneAwaited(states, times, tick)

SimInv == SimFits(proc_state, curr_proc, clock_tick, io_finish_times, ran)

(* The constants.                                                          *)
LEMMA SimNumbers ==
  NumProcs \in Nat \ {0} /\ Sim!Pid = 0 .. NumProcs - 1
BY HomeworkAssumption DEF Sim!CpuIoAssumption, Sim!Pid

(* The order in which next_proc looks at the processes.                    *)
LEMMA Ring ==
  ASSUME NEW c \in Sim!Pid
  PROVE  /\ Sim!After(c) \in Seq(Sim!Pid) /\ Len(Sim!After(c)) = NumProcs
         /\ \A p \in Sim!Pid : Distance(c, p) \in 1 .. NumProcs /\ Sim!After(c)[Distance(c, p)] = p
         /\ \A k \in 1 .. NumProcs : Distance(c, Sim!After(c)[k]) = k
<1>1. ASSUME NEW k \in 1 .. NumProcs
      PROVE  (c + k) % NumProcs = (IF c + k < NumProcs THEN c + k ELSE c + k - NumProcs)
  <2>1. NumProcs \in Nat \ {0} /\ c \in Nat /\ c < NumProcs /\ k \in Nat /\ k <= NumProcs
    BY SimNumbers
  <2>2. \A x \in Nat : x < NumProcs => x % NumProcs = x
    BY <2>1
  <2>3. \A x \in Nat : x >= NumProcs /\ x < NumProcs + NumProcs => x % NumProcs = x - NumProcs
    BY <2>1

  <2>4. c + k \in Nat /\ c + k < NumProcs + NumProcs
    BY <2>1
  <2>5. QED
    BY <2>1, <2>2, <2>3, <2>4
<1>2. ASSUME NEW k \in 1 .. NumProcs
      PROVE  /\ Sim!After(c)[k] \in Sim!Pid
             /\ Sim!After(c)[k] = (IF c + k < NumProcs THEN c + k ELSE c + k - NumProcs)
  <2>1. Sim!After(c)[k] = (c + k) % NumProcs
    BY DEF Sim!After
  <2>2. QED
    BY <1>1, <2>1, SimNumbers
<1>3. DOMAIN Sim!After(c) = 1 .. NumProcs /\ Sim!After(c) = [k \in 1 .. NumProcs |-> Sim!After(c)[k]]
  BY DEF Sim!After
<1>4. Sim!After(c) \in [1 .. NumProcs -> Sim!Pid]
  BY <1>2, <1>3
<1>5. Sim!After(c) \in Seq(Sim!Pid) /\ Len(Sim!After(c)) = NumProcs
  BY <1>4, SimNumbers
<1>6. ASSUME NEW p \in Sim!Pid
      PROVE  Distance(c, p) \in 1 .. NumProcs /\ Sim!After(c)[Distance(c, p)] = p
  <2>1. Distance(c, p) \in 1 .. NumProcs
    BY SimNumbers DEF Distance
  <2>2. QED
    BY <1>2, <2>1, SimNumbers DEF Distance
<1>7. ASSUME NEW k \in 1 .. NumProcs
      PROVE  Distance(c, Sim!After(c)[k]) = k
  BY <1>2, SimNumbers DEF Distance
<1>8. QED
  BY <1>5, <1>6, <1>7

(* Where next_proc looks.                                                  *)
LEMMA ReadyFinds ==
  ASSUME NEW s \in TurnType
  PROVE  IF Sim!Ready(s) = 0
         THEN \A p \in Sim!Pid : s.states[p] \in {"DONE", "WAITING"}
         ELSE /\ Sim!Ready(s) \in 1 .. NumProcs
              /\ s.states[Sim!After(s.curr)[Sim!Ready(s)]] \notin {"DONE", "WAITING"}
              /\ \A k \in 1 .. Sim!Ready(s) - 1 : s.states[Sim!After(s.curr)[k]] \in {"DONE", "WAITING"}
<1> DEFINE I == {k \in 1 .. Len(Sim!After(s.curr)) : s.states[Sim!After(s.curr)[k]] \notin {"DONE", "WAITING"}}
<1>1. s.curr \in Sim!Pid
  BY DEF TurnType
<1>2. Len(Sim!After(s.curr)) = NumProcs
  BY <1>1, Ring
<1>3. Sim!Ready(s) = IF I # {} THEN Min(I) ELSE 0
  BY DEF Sim!Ready, Sim!SelectInSeq, Sim!Min, Min
<1>4. I \in SUBSET Nat /\ (I # {} => Min(I) \in I /\ \A j \in I : Min(I) <= j)
  <2>1. I \in SUBSET Nat
    BY <1>2, SimNumbers
  <2> HIDE DEF I
  <2>2. QED
    BY <2>1, MinProperties
<1>5. CASE I = {}
  <2>1. Sim!Ready(s) = 0
    BY <1>3, <1>5
  <2>2. ASSUME NEW p \in Sim!Pid
        PROVE  s.states[p] \in {"DONE", "WAITING"}
    <3>1. Distance(s.curr, p) \in 1 .. NumProcs /\ Sim!After(s.curr)[Distance(s.curr, p)] = p
      BY <1>1, Ring
    <3>2. QED
      BY <1>2, <1>5, <3>1
  <2>3. QED
    BY <2>1, <2>2
<1>6. CASE I # {}
  <2>1. Sim!Ready(s) \in I /\ \A j \in I : Sim!Ready(s) <= j
    BY <1>3, <1>4, <1>6
  <2>2. Sim!Ready(s) \in 1 .. NumProcs /\ s.states[Sim!After(s.curr)[Sim!Ready(s)]] \notin {"DONE", "WAITING"}
    BY <1>2, <2>1
  <2>3. ASSUME NEW k \in 1 .. Sim!Ready(s) - 1
        PROVE  s.states[Sim!After(s.curr)[k]] \in {"DONE", "WAITING"}
    <3>1. k \in 1 .. NumProcs /\ ~(Sim!Ready(s) <= k)
      BY <2>2, SimNumbers
    <3>2. k \notin I
      BY <2>1, <3>1
    <3>3. QED
      BY <1>2, <3>1, <3>2
  <2>4. Sim!Ready(s) # 0
    BY <2>2
  <2>5. QED
    BY <2>2, <2>3, <2>4
<1>7. QED
  BY <1>5, <1>6

(* One more comes nearer.                                                  *)
LEMMA ApproachMore ==
  ASSUME NEW p \in Sim!Pid, NEW c \in Sim!Pid, NEW q \in Sim!Pid, NEW seq \in Seq(Sim!Pid),
         Approach(p, seq, c), Distance(c, q) < Distance(c, p)
  PROVE  Approach(p, Append(seq, q), q)
<1> DEFINE n == Len(seq)
           longer == Append(seq, q)
<1>1. \A a, b \in Sim!Pid : Distance(a, b) \in Int
  BY SimNumbers DEF Distance
<1>2. Distance(q, p) < Distance(c, p)
  BY SimNumbers DEF Distance
<1>3. n \in Nat /\ Len(longer) = n + 1 /\ longer[n + 1] = q /\ \A i \in 1 .. n : longer[i] = seq[i] /\ seq[i] \in Sim!Pid
  OBVIOUS
<1> HIDE DEF longer, n
<1>4. ASSUME NEW i \in 1 .. n
      PROVE  Distance(q, p) < Distance(longer[i], p)
  <2>1. Distance(c, p) <= Distance(seq[i], p)
    BY DEF Approach, n
  <2>2. Distance(c, p) \in Int /\ Distance(q, p) \in Int /\ Distance(seq[i], p) \in Int
    BY <1>1, <1>3
  <2>3. QED
    BY <1>2, <1>3, <2>1, <2>2
<1>5. ASSUME NEW i \in 1 .. n + 1, NEW j \in 1 .. n + 1, i < j
      PROVE  Distance(longer[j], p) < Distance(longer[i], p)
  <2>1. CASE j = n + 1
    BY <1>3, <1>4, <1>5, <2>1
  <2>2. CASE j # n + 1
    <3>1. i \in 1 .. n /\ j \in 1 .. n
      BY <1>3, <1>5, <2>2
    <3>2. QED
      BY <1>3, <1>5, <3>1 DEF Approach, n
  <2>3. QED
    BY <2>1, <2>2
<1>6. ASSUME NEW i \in 1 .. n + 1
      PROVE  Distance(q, p) <= Distance(longer[i], p)
  <2>1. CASE i = n + 1
    BY <1>1, <1>3, <2>1
  <2>2. CASE i # n + 1
    <3>1. i \in 1 .. n
      BY <1>3, <2>2
    <3>2. Distance(q, p) \in Int /\ Distance(longer[i], p) \in Int
      BY <1>1, <1>3, <3>1
    <3>3. QED
      BY <1>4, <3>1, <3>2
  <2>3. QED
    BY <2>1, <2>2
<1>7. QED
  BY <1>3, <1>5, <1>6 DEF Approach, longer

(* Nobody is chosen a second time before p.                                *)
LEMMA ApproachIsInjective ==
  ASSUME NEW p \in Sim!Pid, NEW c \in Sim!Pid, NEW seq \in Seq(Sim!Pid), Approach(p, seq, c)
  PROVE  \A i, j \in 1 .. Len(seq) : seq[i] = seq[j] => i = j
<1>1. \A a, b \in Sim!Pid : Distance(a, b) \in Int
  BY SimNumbers DEF Distance
<1>2. SUFFICES ASSUME NEW i \in 1 .. Len(seq), NEW j \in 1 .. Len(seq), i < j
               PROVE  seq[i] # seq[j]
  <2>1. \A i, j \in 1 .. Len(seq) : i # j => i < j \/ j < i
    OBVIOUS
  <2>2. QED
    BY <1>2, <2>1
<1>3. Distance(seq[j], p) < Distance(seq[i], p)
  BY <1>2 DEF Approach
<1>4. Distance(seq[i], p) \in Int
  BY <1>1
<1>5. QED
  BY <1>3, <1>4

(* next_proc, called while nobody runs.                                    *)
LEMMA NextProc ==
  ASSUME NEW s \in TurnType, NobodyRuns(s), History(s), ran \in [Sim!Pid -> Seq(Sim!Pid)]
  PROVE  /\ Sim!next_proc(s) \in TurnType /\ OneRuns(Sim!next_proc(s)) /\ History(Sim!next_proc(s))
         /\ \A p \in Sim!Pid : Sim!next_proc(s).states[p] = "WAITING" <=> s.states[p] = "WAITING"
<1> DEFINE n == Sim!next_proc(s)
           k == Sim!Ready(s)
           q == Sim!After(s.curr)[k]
<1>1. s.states \in [Sim!Pid -> ProcState] /\ s.curr \in Sim!Pid /\ s.chosen \in Seq(Sim!Pid) /\ s.hangs \in BOOLEAN
  BY DEF TurnType
<1>2. CASE k = 0
  <2>1. n = [s EXCEPT !.hangs = homework = 10]
    BY <1>2 DEF Sim!next_proc
  <2>2. n \in TurnType /\ n.states = s.states /\ n.curr = s.curr /\ n.chosen = s.chosen
    BY <1>1, <2>1 DEF TurnType
  <2>3. \A p \in Sim!Pid : s.states[p] \in {"DONE", "WAITING"}
    BY <1>2, ReadyFinds
  <2> HIDE DEF n
  <2>4. OneRuns(n)
    BY <2>2, <2>3 DEF OneRuns
  <2>5. History(n)
    BY <2>2 DEF History
  <2>6. QED
    BY <2>2, <2>4, <2>5 DEF n
<1>3. CASE k # 0
  <2>1. /\ k \in 1 .. NumProcs /\ s.states[q] \notin {"DONE", "WAITING"}
        /\ \A i \in 1 .. k - 1 : s.states[Sim!After(s.curr)[i]] \in {"DONE", "WAITING"}
    BY <1>3, ReadyFinds
  <2>2. q \in Sim!Pid /\ Distance(s.curr, q) = k
    <3>1. Sim!After(s.curr) \in Seq(Sim!Pid) /\ Len(Sim!After(s.curr)) = NumProcs
      BY <1>1, Ring
    <3>2. q \in Sim!Pid
      BY <2>1, <3>1
    <3>3. QED
      BY <1>1, <2>1, <3>2, Ring
  <2>3. s.states[q] = "READY"
    BY <1>1, <2>1, <2>2 DEF NobodyRuns, ProcState
  <2>4. n = Sim!Turn([s.states EXCEPT ![q] = "RUNNING"], q, Append(s.chosen, q), s.hangs)
    BY <1>1, <1>3, <2>2, <2>3 DEF Sim!next_proc
  <2> HIDE DEF q, k, n
  <2>5. /\ n.states = [s.states EXCEPT ![q] = "RUNNING"] /\ n.curr = q /\ n.chosen = Append(s.chosen, q)
        /\ n.hangs = s.hangs
    BY <2>4 DEF Sim!Turn
  <2>6. n \in TurnType
    BY <1>1, <2>2, <2>4 DEF Sim!Turn, TurnType, ProcState
  <2>7. n.states[q] = "RUNNING" /\ \A p \in Sim!Pid : p # q => n.states[p] = s.states[p]
    BY <1>1, <2>2, <2>5
  <2>8. OneRuns(n)
    BY <2>5, <2>7 DEF OneRuns, NobodyRuns
  <2>9. ASSUME NEW p \in Sim!Pid
        PROVE  n.states[p] = "WAITING" <=> s.states[p] = "WAITING"
    BY <2>3, <2>7
  <2>10. /\ Len(n.chosen) = Len(s.chosen) + 1 /\ Len(s.chosen) \in Nat /\ n.chosen[Len(s.chosen) + 1] = q
         /\ \A i \in 1 .. Len(s.chosen) : n.chosen[i] = s.chosen[i]
    BY <1>1, <2>2, <2>5
  <2>11. ASSUME NEW p \in Sim!Pid, \A i \in 1 .. Len(n.chosen) : n.chosen[i] # p
         PROVE  IF n.states[p] = "READY" THEN Approach(p, ran[p] \o n.chosen, n.curr) ELSE ran[p] = << >>
    <3>1. p # q /\ \A i \in 1 .. Len(s.chosen) : s.chosen[i] # p
      <4>1. \A i \in 1 .. Len(s.chosen) : s.chosen[i] # p
        <5>1. SUFFICES ASSUME NEW i \in 1 .. Len(s.chosen)
                       PROVE  s.chosen[i] # p
          OBVIOUS
        <5>2. i \in 1 .. Len(n.chosen) /\ n.chosen[i] = s.chosen[i]
          BY <2>10
        <5>3. QED
          BY <2>11, <5>2
      <4>2. p # q
        BY <2>10, <2>11
      <4>3. QED
        BY <4>1, <4>2
    <3>2. n.states[p] = s.states[p]
      BY <2>7, <3>1
    <3>3. IF s.states[p] = "READY" THEN Approach(p, ran[p] \o s.chosen, s.curr) ELSE ran[p] = << >>
      BY <3>1 DEF History
    <3>4. CASE s.states[p] = "READY"
      <4>1. Distance(s.curr, p) \in 1 .. NumProcs /\ Sim!After(s.curr)[Distance(s.curr, p)] = p
        BY <1>1, Ring
      <4>2. Distance(s.curr, p) \notin 1 .. k - 1
        BY <2>1, <3>4, <4>1
      <4>3. Distance(s.curr, p) # k
        BY <3>1, <4>1 DEF q
      <4>4. Distance(s.curr, q) < Distance(s.curr, p)
        BY <2>1, <2>2, <4>1, <4>2, <4>3, SimNumbers
      <4>5. ran[p] \o s.chosen \in Seq(Sim!Pid) /\ ran[p] \o n.chosen = Append(ran[p] \o s.chosen, q)
        <5>1. ran[p] \in Seq(Sim!Pid)
          OBVIOUS
        <5>2. QED
          BY <1>1, <2>2, <2>5, <5>1
      <4>6. Approach(p, ran[p] \o s.chosen, s.curr)
        BY <3>3, <3>4
      <4>7. Approach(p, Append(ran[p] \o s.chosen, q), q)
        BY <1>1, <2>2, <4>4, <4>5, <4>6, ApproachMore
      <4>8. QED
        BY <2>5, <3>2, <3>4, <4>5, <4>7
    <3>5. QED
      BY <3>2, <3>3, <3>4
  <2>12. History(n)
    BY <2>5, <2>10, <2>11 DEF History
  <2>13. QED
    BY <2>6, <2>8, <2>9, <2>12 DEF n
<1>4. QED
  BY <1>2, <1>3

(* A process gives way, waits or is done.                                  *)
LEMMA BecomeKeeps ==
  ASSUME NEW s \in TurnType, OneRuns(s), History(s), s.states[s.curr] = "RUNNING",
         NEW x \in ProcState \ {"RUNNING"}
  PROVE  /\ Sim!Become(s, s.curr, x) \in TurnType /\ NobodyRuns(Sim!Become(s, s.curr, x))
         /\ History(Sim!Become(s, s.curr, x))
         /\ Sim!Become(s, s.curr, x).states = [s.states EXCEPT ![s.curr] = x]
<1> DEFINE n == Sim!Become(s, s.curr, x)
<1>1. s.states \in [Sim!Pid -> ProcState] /\ s.curr \in Sim!Pid /\ s.chosen \in Seq(Sim!Pid) /\ s.hangs \in BOOLEAN
  BY DEF TurnType
<1>2. n = [s EXCEPT !.states = [s.states EXCEPT ![s.curr] = x]]
  BY DEF Sim!Become, TurnType
<1>3. n.states = [s.states EXCEPT ![s.curr] = x] /\ n.curr = s.curr /\ n.chosen = s.chosen /\ n.hangs = s.hangs
  BY <1>2 DEF TurnType
<1>4. n \in TurnType
  BY <1>1, <1>2 DEF TurnType
<1> HIDE DEF n
<1>5. n.states[s.curr] = x /\ \A p \in Sim!Pid : p # s.curr => n.states[p] = s.states[p]
  BY <1>1, <1>3
<1>6. NobodyRuns(n)
  BY <1>1, <1>5 DEF OneRuns, NobodyRuns
<1>7. ASSUME NEW p \in Sim!Pid, \A i \in 1 .. Len(n.chosen) : n.chosen[i] # p
      PROVE  IF n.states[p] = "READY" THEN Approach(p, ran[p] \o n.chosen, n.curr) ELSE ran[p] = << >>
  <2>1. IF s.states[p] = "READY" THEN Approach(p, ran[p] \o s.chosen, s.curr) ELSE ran[p] = << >>
    BY <1>3, <1>7 DEF History
  <2>2. CASE p = s.curr
    <3>1. ran[p] = << >>
      BY <2>1, <2>2
    <3>2. s.chosen = << >>
      BY <1>1, <1>3, <1>7, <2>2 DEF History
    <3>3. Approach(p, ran[p] \o n.chosen, n.curr)
      BY <1>3, <3>1, <3>2 DEF Approach
    <3>4. QED
      BY <3>1, <3>3
  <2>3. CASE p # s.curr
    BY <1>3, <1>5, <2>1, <2>3
  <2>4. QED
    BY <2>2, <2>3
<1>8. History(n)
  BY <1>3, <1>7 DEF History
<1>9. QED
  BY <1>3, <1>4, <1>6, <1>8 DEF n

(* The first part of a tick: I/O that is finished.                         *)
LEMMA CheckIOKeeps ==
  ASSUME SimInv, NEW t, t = clock_tick + 1,
         NEW s, s = Sim!CheckIO(Sim!Turn(proc_state, curr_proc, << >>, FALSE), t)
  PROVE  s \in TurnType /\ OneRuns(s) /\ History(s) /\ OneAwaited(s.states, io_finish_times, t)
<1> DEFINE now == Sim!Turn(proc_state, curr_proc, << >>, FALSE)
           woken == [p \in Sim!Pid |-> IF p \in Sim!Finished(t) /\ proc_state[p] = "WAITING" THEN "READY"
                                       ELSE proc_state[p]]
           r == [now EXCEPT !.states = woken]
<1>1. /\ proc_state \in [Sim!Pid -> ProcState] /\ curr_proc \in Sim!Pid /\ clock_tick \in Nat
      /\ io_finish_times \in [Sim!Pid -> SUBSET Nat] /\ ran \in [Sim!Pid -> Seq(Sim!Pid)]
      /\ \A p \in Sim!Pid : proc_state[p] = "RUNNING" => p = curr_proc
      /\ (\E p \in Sim!Pid : proc_state[p] = "READY") => proc_state[curr_proc] = "RUNNING"
      /\ \A p \in Sim!Pid : IF proc_state[p] = "READY" THEN Approach(p, ran[p], curr_proc) ELSE ran[p] = << >>
      /\ OneAwaited(proc_state, io_finish_times, clock_tick)
  BY DEF SimInv, SimFits
<1>2. woken \in [Sim!Pid -> ProcState]
  BY <1>1 DEF ProcState
<1>3. now.states = proc_state /\ now.curr = curr_proc /\ now.chosen = << >> /\ now.hangs = FALSE /\ now \in TurnType
  BY <1>1 DEF Sim!Turn, TurnType
<1>4. s = IF Sim!Finished(t) # {} /\ r.states[r.curr] # "RUNNING" THEN Sim!next_proc(r) ELSE r
  <2> DEFINE m == [now EXCEPT !.states = [p \in Sim!Pid |-> IF p \in Sim!Finished(t) /\ @[p] = "WAITING" THEN "READY"
                                                           ELSE @[p]]]
  <2>1. [p \in Sim!Pid |-> IF p \in Sim!Finished(t) /\ now.states[p] = "WAITING" THEN "READY" ELSE now.states[p]] = woken
    BY <1>3
  <2>2. m = r
    BY <2>1
  <2>3. s = IF Sim!Finished(t) # {} /\ m.states[now.curr] # "RUNNING" THEN Sim!next_proc(m) ELSE m
    BY DEF Sim!CheckIO
  <2> HIDE DEF now, woken
  <2>4. r.curr = now.curr
    BY <1>3 DEF TurnType
  <2> HIDE DEF m, r
  <2>5. QED
    BY <2>2, <2>3, <2>4
<1> HIDE DEF now
<1>5. r.states = woken /\ r.curr = curr_proc /\ r.chosen = << >> /\ r.hangs = FALSE
  <2> HIDE DEF woken
  <2>1. QED
    BY <1>3 DEF TurnType
<1>6. r \in TurnType
  <2> HIDE DEF woken
  <2>1. QED
    BY <1>1, <1>2, <1>3 DEF TurnType
<1>7. \A p \in Sim!Pid : /\ woken[p] = "RUNNING" <=> proc_state[p] = "RUNNING"
                         /\ woken[p] = "WAITING" <=> proc_state[p] = "WAITING" /\ p \notin Sim!Finished(t)
                         /\ woken[p] = "READY" <=> proc_state[p] = "READY"
                                                  \/ (proc_state[p] = "WAITING" /\ p \in Sim!Finished(t))
  OBVIOUS
<1> HIDE DEF woken, r, now
<1>8. History(r)
  <2>1. ASSUME NEW p \in Sim!Pid
        PROVE  IF woken[p] = "READY" THEN Approach(p, ran[p] \o << >>, curr_proc) ELSE ran[p] = << >>
    <3>1. ran[p] \o << >> = ran[p] /\ Len(<< >>) = 0
      BY <1>1
    <3>2. CASE proc_state[p] = "READY"
      BY <1>1, <1>7, <3>1, <3>2
    <3>3. CASE proc_state[p] # "READY"
      <4>1. ran[p] = << >>
        BY <1>1, <3>3
      <4>2. Approach(p, << >>, curr_proc)
        BY DEF Approach
      <4>3. QED
        BY <3>1, <4>1, <4>2
    <3>4. QED
      BY <3>2, <3>3
  <2>2. QED
    BY <1>5, <2>1 DEF History
<1>9. OneAwaited(woken, io_finish_times, t)
  <2>1. ASSUME NEW p \in Sim!Pid
        PROVE  IF woken[p] = "WAITING" THEN \E x \in Nat : Later(io_finish_times[p], t) = {x}
               ELSE Later(io_finish_times[p], t) = {}
    <3>1. IF proc_state[p] = "WAITING" THEN \E x \in Nat : Later(io_finish_times[p], clock_tick) = {x}
          ELSE Later(io_finish_times[p], clock_tick) = {}
      BY <1>1 DEF OneAwaited
    <3>2. Later(io_finish_times[p], t) = Later(io_finish_times[p], clock_tick) \ {t}
      <4>1. \A x \in Nat : x > t <=> x > clock_tick /\ x # t
        BY <1>1
      <4>2. io_finish_times[p] \in SUBSET Nat
        BY <1>1
      <4>3. QED
        BY <4>1, <4>2 DEF Later
    <3>3. p \in Sim!Finished(t) <=> t \in Later(io_finish_times[p], clock_tick)
      BY <1>1 DEF Sim!Finished, Later
    <3>4. CASE proc_state[p] # "WAITING"
      BY <1>7, <3>1, <3>2, <3>4
    <3>5. ASSUME proc_state[p] = "WAITING", NEW x \in Nat, Later(io_finish_times[p], clock_tick) = {x}
          PROVE  IF woken[p] = "WAITING" THEN \E y \in Nat : Later(io_finish_times[p], t) = {y}
                 ELSE Later(io_finish_times[p], t) = {}
      <4>1. CASE x = t
        BY <1>7, <3>2, <3>3, <3>5, <4>1
      <4>2. CASE x # t
        <5>1. Later(io_finish_times[p], t) = {x} /\ p \notin Sim!Finished(t)
          BY <3>2, <3>3, <3>5, <4>2
        <5>2. QED
          BY <1>7, <3>5, <5>1
      <4>3. QED
        BY <4>1, <4>2
    <3>6. QED
      BY <3>1, <3>4, <3>5
  <2>2. QED
    BY <2>1 DEF OneAwaited
<1>10. CASE Sim!Finished(t) # {} /\ r.states[r.curr] # "RUNNING"
  <2>1. s = Sim!next_proc(r)
    BY <1>4, <1>10
  <2>2. NobodyRuns(r)
    BY <1>1, <1>5, <1>7, <1>10 DEF NobodyRuns
  <2>3. s \in TurnType /\ OneRuns(s) /\ History(s) /\ \A p \in Sim!Pid : s.states[p] = "WAITING" <=> r.states[p] = "WAITING"
    BY <1>1, <1>6, <1>8, <2>1, <2>2, NextProc
  <2>4. QED
    BY <1>5, <1>9, <2>3 DEF OneAwaited
<1>11. CASE ~(Sim!Finished(t) # {} /\ r.states[r.curr] # "RUNNING")
  <2>1. s = r
    BY <1>4, <1>11
  <2>2. ASSUME NEW p \in Sim!Pid, woken[p] = "READY"
        PROVE  woken[curr_proc] = "RUNNING"
    BY <1>1, <1>5, <1>7, <1>11, <2>2
  <2>3. OneRuns(r)
    BY <1>1, <1>5, <1>7, <2>2 DEF OneRuns
  <2>4. QED
    BY <1>5, <1>6, <1>8, <1>9, <2>1, <2>3
<1>12. QED
  BY <1>10, <1>11

(* Lists of processes.                                                     *)
LEMMA ListsOfPids ==
  /\ \A x \in Seq(Sim!Pid) : DOMAIN x = 1 .. Len(x)
  /\ << >> \in Seq(Sim!Pid) /\ \A x, y \in Seq(Sim!Pid) : x \o y \in Seq(Sim!Pid)
OBVIOUS

(* A tick of run().                                                        *)
LEMMA TickKeeps ==
  ASSUME SimInv, Sim!Tick
  PROVE  SimInv'
<1> DEFINE t == clock_tick + 1
           f == io_finish_times'
           rn == ran'
<1>a. clock_tick' = t
  BY DEF Sim!Tick
<1>b. PICK s1 \in {Sim!CheckIO(Sim!Turn(proc_state, curr_proc, << >>, FALSE), t)} :
      \E s2 \in {Sim!Execute(s1)} : \E s3 \in {Sim!check_if_done(s2, Sim!Rest(s1))} :
         /\ f = (IF Sim!Instruction(s1) = "io"
                 THEN [io_finish_times EXCEPT ![s1.curr] = @ \cup {t + Sim!IO_TICKS}] ELSE io_finish_times)
         /\ proc_state' = s3.states /\ curr_proc' = s3.curr
         /\ rn = [p \in Sim!Pid |-> IF s3.states[p] # "READY" \/ p \in Sim!ToSet(s3.chosen) THEN << >>
                                    ELSE ran[p] \o s3.chosen]
  BY <1>a DEF Sim!Tick
<1> HIDE DEF f, rn
<1>c. PICK s2 \in {Sim!Execute(s1)} : \E s3 \in {Sim!check_if_done(s2, Sim!Rest(s1))} :
         /\ f = (IF Sim!Instruction(s1) = "io"
                 THEN [io_finish_times EXCEPT ![s1.curr] = @ \cup {t + Sim!IO_TICKS}] ELSE io_finish_times)
         /\ proc_state' = s3.states /\ curr_proc' = s3.curr
         /\ rn = [p \in Sim!Pid |-> IF s3.states[p] # "READY" \/ p \in Sim!ToSet(s3.chosen) THEN << >>
                                    ELSE ran[p] \o s3.chosen]
  BY <1>b
<1>d. PICK s3 \in {Sim!check_if_done(s2, Sim!Rest(s1))} :
         /\ f = (IF Sim!Instruction(s1) = "io"
                 THEN [io_finish_times EXCEPT ![s1.curr] = @ \cup {t + Sim!IO_TICKS}] ELSE io_finish_times)
         /\ proc_state' = s3.states /\ curr_proc' = s3.curr
         /\ rn = [p \in Sim!Pid |-> IF s3.states[p] # "READY" \/ p \in Sim!ToSet(s3.chosen) THEN << >>
                                    ELSE ran[p] \o s3.chosen]
  BY <1>c
<1>1. /\ s1 = Sim!CheckIO(Sim!Turn(proc_state, curr_proc, << >>, FALSE), t)
      /\ s2 = Sim!Execute(s1) /\ s3 = Sim!check_if_done(s2, Sim!Rest(s1))
  BY <1>b, <1>c, <1>d
<1>2. /\ clock_tick \in Nat /\ io_finish_times \in [Sim!Pid -> SUBSET Nat] /\ ran \in [Sim!Pid -> Seq(Sim!Pid)]
  BY DEF SimInv, SimFits
<1>3. t \in Nat
  BY <1>2
<1> HIDE DEF t
<1>4. s1 \in TurnType /\ OneRuns(s1) /\ History(s1) /\ OneAwaited(s1.states, io_finish_times, t)
  BY <1>1, CheckIOKeeps DEF t
<1>5. s1.states \in [Sim!Pid -> ProcState] /\ s1.curr \in Sim!Pid
  BY <1>4 DEF TurnType
<1>6. s2 \in TurnType /\ OneRuns(s2) /\ History(s2) /\ f \in [Sim!Pid -> SUBSET Nat] /\ OneAwaited(s2.states, f, t)
  <2>1. Sim!Instruction(s1) \in {"yld", "io"} => s1.states[s1.curr] = "RUNNING"
    BY DEF Sim!Instruction, Sim!Executes
  <2>2. CASE Sim!Instruction(s1) = "yld"
    <3> DEFINE b == Sim!Become(s1, s1.curr, "READY")
    <3>1. "READY" \in ProcState \ {"RUNNING"} /\ s1.states[s1.curr] = "RUNNING"
      BY <2>1, <2>2 DEF ProcState
    <3>2. b \in TurnType /\ NobodyRuns(b) /\ History(b) /\ b.states = [s1.states EXCEPT ![s1.curr] = "READY"]
      BY <1>4, <3>1, BecomeKeeps
    <3>3. s2 = Sim!next_proc(b)
      BY <1>1, <2>2 DEF Sim!Execute
    <3> HIDE DEF b
    <3>4. /\ s2 \in TurnType /\ OneRuns(s2) /\ History(s2)
          /\ \A p \in Sim!Pid : s2.states[p] = "WAITING" <=> b.states[p] = "WAITING"
      BY <1>2, <3>2, <3>3, NextProc
    <3>5. \A p \in Sim!Pid : s2.states[p] = "WAITING" <=> s1.states[p] = "WAITING"
      BY <1>5, <3>1, <3>2, <3>4
    <3>6. f = io_finish_times
      BY <1>d, <2>2
    <3>7. QED
      BY <1>2, <1>4, <3>4, <3>5, <3>6 DEF OneAwaited
  <2>3. CASE Sim!Instruction(s1) = "io"
    <3> DEFINE b == Sim!Become(s1, s1.curr, "WAITING")
    <3>1. "WAITING" \in ProcState \ {"RUNNING"} /\ s1.states[s1.curr] = "RUNNING"
      BY <2>1, <2>3 DEF ProcState
    <3>2. b \in TurnType /\ NobodyRuns(b) /\ History(b) /\ b.states = [s1.states EXCEPT ![s1.curr] = "WAITING"]
      BY <1>4, <3>1, BecomeKeeps
    <3>3. s2 = Sim!next_proc(b)
      BY <1>1, <2>3 DEF Sim!Execute
    <3> HIDE DEF b
    <3>4. /\ s2 \in TurnType /\ OneRuns(s2) /\ History(s2)
          /\ \A p \in Sim!Pid : s2.states[p] = "WAITING" <=> b.states[p] = "WAITING"
      BY <1>2, <3>2, <3>3, NextProc
    <3>5. s2.states[s1.curr] = "WAITING" /\ \A p \in Sim!Pid \ {s1.curr} : s2.states[p] = "WAITING" <=> s1.states[p] = "WAITING"
      BY <1>5, <3>2, <3>4
    <3>6. f = [io_finish_times EXCEPT ![s1.curr] = @ \cup {t + 5}] /\ t + 5 \in Nat /\ t + 5 > t
      BY <1>d, <1>3, <2>3 DEF Sim!IO_TICKS
    <3>7. f \in [Sim!Pid -> SUBSET Nat]
      BY <1>2, <1>5, <3>6
    <3>8. f[s1.curr] = io_finish_times[s1.curr] \cup {t + 5} /\ \A p \in Sim!Pid \ {s1.curr} : f[p] = io_finish_times[p]
      BY <1>2, <1>5, <3>6
    <3>9. Later(io_finish_times[s1.curr], t) = {}
      BY <1>4, <1>5, <3>1 DEF OneAwaited
    <3>10. Later(f[s1.curr], t) = {t + 5}
      BY <3>6, <3>8, <3>9 DEF Later
    <3>11. ASSUME NEW p \in Sim!Pid
           PROVE  IF s2.states[p] = "WAITING" THEN \E x \in Nat : Later(f[p], t) = {x} ELSE Later(f[p], t) = {}
      <4>1. CASE p = s1.curr
        BY <3>5, <3>6, <3>10, <4>1
      <4>2. CASE p # s1.curr
        BY <1>4, <3>5, <3>8, <4>2 DEF OneAwaited
      <4>3. QED
        BY <4>1, <4>2
    <3>12. QED
      BY <3>4, <3>7, <3>11 DEF OneAwaited
  <2>4. CASE Sim!Instruction(s1) \notin {"yld", "io"}
    BY <1>1, <1>2, <1>4, <1>d, <2>4 DEF Sim!Execute
  <2>5. QED
    BY <2>2, <2>3, <2>4
<1>7. s3 \in TurnType /\ OneRuns(s3) /\ History(s3) /\ OneAwaited(s3.states, f, t)
  <2>1. CASE s3 = s2
    BY <1>6, <2>1
  <2>2. CASE s2.states[s2.curr] = "RUNNING" /\ s3 = Sim!next_proc(Sim!Become(s2, s2.curr, "DONE"))
    <3> DEFINE b == Sim!Become(s2, s2.curr, "DONE")
    <3>1. "DONE" \in ProcState \ {"RUNNING"} /\ s2.states \in [Sim!Pid -> ProcState] /\ s2.curr \in Sim!Pid
      BY <1>6 DEF ProcState, TurnType
    <3>2. b \in TurnType /\ NobodyRuns(b) /\ History(b) /\ b.states = [s2.states EXCEPT ![s2.curr] = "DONE"]
      BY <1>6, <2>2, <3>1, BecomeKeeps
    <3>3. s3 = Sim!next_proc(b)
      BY <2>2
    <3> HIDE DEF b
    <3>4. /\ s3 \in TurnType /\ OneRuns(s3) /\ History(s3)
          /\ \A p \in Sim!Pid : s3.states[p] = "WAITING" <=> b.states[p] = "WAITING"
      BY <1>2, <3>2, <3>3, NextProc
    <3>5. \A p \in Sim!Pid : s3.states[p] = "WAITING" <=> s2.states[p] = "WAITING"
      BY <2>2, <3>1, <3>2, <3>4
    <3>6. QED
      BY <1>6, <3>4, <3>5 DEF OneAwaited
  <2>3. QED
    BY <1>1, <2>1, <2>2 DEF Sim!check_if_done
<1>8. s3.states \in [Sim!Pid -> ProcState] /\ s3.curr \in Sim!Pid /\ s3.chosen \in Seq(Sim!Pid)
  BY <1>7 DEF TurnType
<1>9. ASSUME NEW p \in Sim!Pid
      PROVE  /\ rn[p] \in Seq(Sim!Pid)
             /\ IF s3.states[p] = "READY" THEN Approach(p, rn[p], s3.curr) ELSE rn[p] = << >>
  <2>1. rn[p] = IF s3.states[p] # "READY" \/ p \in Sim!ToSet(s3.chosen) THEN << >> ELSE ran[p] \o s3.chosen
    BY <1>d
  <2>2. ran[p] \o s3.chosen \in Seq(Sim!Pid) /\ << >> \in Seq(Sim!Pid)
    <3>1. ran[p] \in Seq(Sim!Pid)
      BY <1>2
    <3>2. QED
      BY <1>8, <3>1, ListsOfPids
  <2>3. Approach(p, << >>, s3.curr)
    BY DEF Approach
  <2>4. CASE s3.states[p] # "READY" \/ p \in Sim!ToSet(s3.chosen)
    <3>1. rn[p] = << >>
      BY <2>1, <2>4
    <3>2. QED
      BY <2>2, <2>3, <3>1
  <2>5. CASE s3.states[p] = "READY" /\ p \notin Sim!ToSet(s3.chosen)
    <3>1. \A i \in 1 .. Len(s3.chosen) : s3.chosen[i] # p
      <4>1. DOMAIN s3.chosen = 1 .. Len(s3.chosen)
        BY <1>8, ListsOfPids
      <4>2. Sim!ToSet(s3.chosen) = {s3.chosen[i] : i \in DOMAIN s3.chosen}
        BY DEF Sim!ToSet
      <4>3. QED
        BY <2>5, <4>1, <4>2
    <3>2. Approach(p, ran[p] \o s3.chosen, s3.curr)
      BY <1>7, <2>5, <3>1 DEF History
    <3>3. QED
      BY <2>1, <2>2, <2>5, <3>2
  <2>6. QED
    BY <2>4, <2>5
<1>10. rn \in [Sim!Pid -> Seq(Sim!Pid)]
  <2>1. rn = [p \in Sim!Pid |-> rn[p]]
    BY <1>d
  <2>2. QED
    BY <1>9, <2>1
<1>11. SimFits(s3.states, s3.curr, t, f, rn)
  BY <1>3, <1>6, <1>7, <1>8, <1>9, <1>10 DEF SimFits, OneRuns
<1>12. QED
  BY <1>a, <1>d, <1>11 DEF SimInv, f, rn

(* The start of run().                                                     *)
LEMMA SimStart ==
  ASSUME Sim!Init
  PROVE  SimInv
<1>1. /\ proc_state = [p \in Sim!Pid |-> IF p = 0 THEN "RUNNING" ELSE "READY"]
      /\ curr_proc = 0 /\ clock_tick = 0 /\ io_finish_times = [p \in Sim!Pid |-> {}]
      /\ ran = [p \in Sim!Pid |-> << >>]
  BY DEF Sim!Init
<1>2. 0 \in Sim!Pid
  BY SimNumbers
<1>3. proc_state \in [Sim!Pid -> ProcState] /\ proc_state[0] = "RUNNING"
  BY <1>1, <1>2 DEF ProcState
<1>4. ran \in [Sim!Pid -> Seq(Sim!Pid)] /\ io_finish_times \in [Sim!Pid -> SUBSET Nat]
  BY <1>1
<1>5. \A p \in Sim!Pid : IF proc_state[p] = "READY" THEN Approach(p, ran[p], curr_proc) ELSE ran[p] = << >>
  BY <1>1 DEF Approach
<1>6. OneAwaited(proc_state, io_finish_times, clock_tick)
  BY <1>1 DEF OneAwaited, Later
<1>7. QED
  BY <1>1, <1>2, <1>3, <1>4, <1>5, <1>6 DEF SimInv, SimFits

(* CpuIo has its own instance of the community modules.                    *)
LEMMA SimInvTurns ==
  ASSUME SimInv
  PROVE  Sim!NobodyLost /\ Sim!TakesTurns
<1>1. /\ proc_state \in [Sim!Pid -> ProcState] /\ curr_proc \in Sim!Pid /\ clock_tick \in Nat
      /\ io_finish_times \in [Sim!Pid -> SUBSET Nat] /\ ran \in [Sim!Pid -> Seq(Sim!Pid)]
      /\ \A p \in Sim!Pid : proc_state[p] = "RUNNING" => p = curr_proc
      /\ (\E p \in Sim!Pid : proc_state[p] = "READY") => proc_state[curr_proc] = "RUNNING"
      /\ \A p \in Sim!Pid : IF proc_state[p] = "READY" THEN Approach(p, ran[p], curr_proc) ELSE ran[p] = << >>
      /\ OneAwaited(proc_state, io_finish_times, clock_tick)
  BY DEF SimInv, SimFits
<1>2. ASSUME NEW p \in Sim!Pid
      PROVE  Sim!Cardinality(Sim!Pending(p)) = IF proc_state[p] = "WAITING" THEN 1 ELSE 0
  <2>1. Sim!Pending(p) = Later(io_finish_times[p], clock_tick)
    BY DEF Sim!Pending, Later
  <2>2. \A S : Sim!Cardinality(S) = Cardinality(S)
    BY DEF Sim!Cardinality, Cardinality, Sim!IsFiniteSet, IsFiniteSet
  <2>3. Cardinality({}) = 0 /\ \A x : Cardinality({x}) = 1
    BY FS_EmptySet, FS_Singleton
  <2>4. QED
    BY <1>1, <2>1, <2>2, <2>3 DEF OneAwaited
<1>3. ASSUME NEW p \in Sim!Pid
      PROVE  Sim!IsInjective(ran[p])
  <2>1. ran[p] \in Seq(Sim!Pid) /\ DOMAIN ran[p] = 1 .. Len(ran[p])
    BY <1>1
  <2>2. \A i, j \in 1 .. Len(ran[p]) : ran[p][i] = ran[p][j] => i = j
    <3>1. CASE proc_state[p] = "READY"
      <4>1. Approach(p, ran[p], curr_proc)
        BY <1>1, <3>1
      <4> DEFINE seq == ran[p]
      <4>2. seq \in Seq(Sim!Pid) /\ Approach(p, seq, curr_proc) /\ curr_proc \in Sim!Pid
        BY <1>1, <2>1, <4>1
      <4> HIDE DEF seq
      <4>3. \A i, j \in 1 .. Len(seq) : seq[i] = seq[j] => i = j
        BY <4>2, ApproachIsInjective
      <4>4. QED
        BY <4>3 DEF seq
    <3>2. CASE proc_state[p] # "READY"
      BY <1>1, <3>2
    <3>3. QED
      BY <3>1, <3>2
  <2>3. QED
    BY <2>1, <2>2 DEF Sim!IsInjective
<1>4. Sim!NobodyLost
  BY <1>1, <1>2 DEF Sim!NobodyLost
<1>5. QED
  BY <1>3, <1>4 DEF Sim!TakesTurns

(* For any number of processes and any programs: while a process is ready  *)
(* nobody gets the processor twice, the processor is never idle, and       *)
(* whoever waits has just one I/O to wait for.                             *)
THEOREM TurnsAreTaken == HomeworkSpec => []TakesTurns
<1> DEFINE Inv == program = "cpuio" => SimInv
<1>1. HomeworkInit => Inv
  BY SimStart DEF HomeworkInit
<1>2. Inv /\ [HomeworkNext]_allvars => Inv'
  <2> SUFFICES ASSUME Inv, [HomeworkNext]_allvars, program' = "cpuio"
               PROVE  SimInv'
    OBVIOUS
  <2>1. program = "cpuio"
    BY DEF HomeworkNext, allvars
  <2>2. CASE Sim!Tick
    BY <2>1, <2>2, TickKeeps
  <2>3. CASE UNCHANGED simvars
    BY <2>1, <2>3 DEF SimInv, simvars
  <2>4. QED
    BY <2>1, <2>2, <2>3 DEF HomeworkNext, allvars
<1>3. Inv => TakesTurns
  BY SimInvTurns DEF TakesTurns
<1>4. QED
  BY <1>1, <1>2, <1>3, PTL DEF HomeworkSpec
=============================================================================
