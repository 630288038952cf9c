---------------------------- MODULE StrideSched ----------------------------
(***************************************************************************)
(* The stride scheduling class of hw15/lab6_result, kern/schedule/         *)
(* default_sched.c, with its skew heap, under the calls that sched.c makes *)
(* of it: processes enter with stride 0, sleep with the stride they have,  *)
(* wake up and exit.                                                       *)
(***************************************************************************)
EXTENDS Integers, FiniteSets

CONSTANTS
  Proc,          \* the process structures, idleproc not included
  idleproc,      \* runs when there is no other, and is never in the queue
  NULL,
  HALF,          \* 2^31: half the number of strides
  Priority       \* what set_priority may be given

SchedAssumption ==
  /\ idleproc \notin Proc /\ NULL \notin Proc
  /\ HALF \in Nat /\ HALF > 1
  /\ Priority \subseteq Nat

VARIABLES
  state,         \* of each process: "FREE", "RUNNABLE" or "SLEEPING"
  stride,        \* proc->lab6_stride
  priority,      \* proc->lab6_priority
  heap,          \* proc->lab6_run_pool of every process
  root,          \* rq->lab6_run_pool
  proc_num,      \* rq->proc_num
  current

vars == <<state, stride, priority, heap, root, proc_num, current>>

-----------------------------------------------------------------------------
(* The skew heaps of libs/skew_heap.h.  A heap is a record of the three    *)
(* pointers of every process and is entered at its root r.  The comparison *)
(* is a set of pairs: <<a, b>> \in before when comp(a, b) is -1.           *)
Link == Proc \cup {NULL}
Heap == [left : [Proc -> Link], right : [Proc -> Link], parent : [Proc -> Link]]

NoLinks == [n \in Proc |-> NULL]
Empty   == [left |-> NoLinks, right |-> NoLinks, parent |-> NoLinks]

(* Give the node n the children l and r, and l its parent.                 *)
Adopt(h, n, l, r) ==
  [left   |-> [h.left EXCEPT ![n] = l],
   right  |-> [h.right EXCEPT ![n] = r],
   parent |-> [x \in Proc |-> IF x = l THEN n ELSE h.parent[x]]]

(***************************************************************************)
(* skew_heap_merge: the root that wins swaps its children, after the other *)
(* heap is merged into its right one.  It wins a tie as second argument.   *)
(***************************************************************************)
RECURSIVE Merge(_, _, _, _)
Merge(h, before, a, b) ==
  IF a = NULL THEN [heap |-> h, root |-> b]
  ELSE IF b = NULL THEN [heap |-> h, root |-> a]
  ELSE LET win == IF <<a, b>> \in before THEN a ELSE b
           m   == IF win = a THEN Merge(h, before, h.right[a], b)
                             ELSE Merge(h, before, a, h.right[b])
       IN  [heap |-> Adopt(m.heap, win, m.root, m.heap.left[win]), root |-> win]

(* skew_heap_insert of the node n into the heap at r.                      *)
Insert(h, before, r, n) ==
  LET init == [left   |-> [h.left EXCEPT ![n] = NULL],
               right  |-> [h.right EXCEPT ![n] = NULL],
               parent |-> [h.parent EXCEPT ![n] = NULL]]
  IN  Merge(init, before, r, n)

(* skew_heap_remove: the two children of n, merged, take its place.        *)
Remove(h, before, r, n) ==
  LET p   == h.parent[n]
      m   == Merge(h, before, h.left[n], h.right[n])
      set == [m.heap EXCEPT !.parent = [x \in Proc |-> IF x = m.root THEN p ELSE @[x]]]
  IN  IF p = NULL THEN [heap |-> set, root |-> m.root]
      ELSE [heap |-> IF set.left[p] = n
                     THEN [set EXCEPT !.left[p] = m.root]
                     ELSE [set EXCEPT !.right[p] = m.root],
            root |-> r]

(* The links of a node that is in no heap mean nothing until it is inserted *)
(* again: the model keeps none.                                            *)
Unlinked(h, n) ==
  [left   |-> [h.left EXCEPT ![n] = NULL],
   right  |-> [h.right EXCEPT ![n] = NULL],
   parent |-> [h.parent EXCEPT ![n] = NULL]]

-----------------------------------------------------------------------------
(* The nodes within k links of the root.                                   *)
RECURSIVE Within(_, _, _)
Within(h, r, k) ==
  IF k = 0 THEN {r} \ {NULL}
  ELSE LET near == Within(h, r, k - 1)
       IN  near \cup (({h.left[n] : n \in near} \cup {h.right[n] : n \in near}) \ {NULL})

Members(h, r) == Within(h, r, Cardinality(Proc))

(* The heap at r is a tree, and its parent pointers are right.             *)
IsTree(h, r) ==
  LET M == Members(h, r)
  IN  /\ r \in M => h.parent[r] = NULL
      /\ \A n \in M : h.left[n] # NULL => h.left[n] # h.right[n]
      /\ \A n, c \in M : (c \in {h.left[n], h.right[n]}) <=> h.parent[c] = n

-----------------------------------------------------------------------------
queue == Members(heap, root)

(* uint32_t and int32_t.                                                   *)
Unsigned(n) == n % (2 * HALF)
Signed(n)   == IF Unsigned(n) >= HALF THEN Unsigned(n) - 2 * HALF ELSE Unsigned(n)

(* proc_stride_comp_f, of the strides s.                                   *)
Before_Unsigned(s) == {<<p, q>> \in Proc \X Proc : s[p] < s[q]}
Before(s)          == {<<p, q>> \in Proc \X Proc : Signed(s[p] - s[q]) < 0}

(* How far each process in the heap lies ahead of the root: along the      *)
(* links, the differences that the comparison has seen.                    *)
RECURSIVE Below(_, _)
Below(p, k) ==
  IF k = 0 \/ p = NULL \/ heap.parent[p] = NULL THEN 0
  ELSE Below(heap.parent[p], k - 1) - Signed(stride[heap.parent[p]] - stride[p])

(* What the class promises of its order.                                   *)
Abs == INSTANCE Stride WITH ahead <- [p \in queue |-> Below(p, Cardinality(Proc))]

Init ==
  /\ state = [p \in Proc |-> "FREE"]
  /\ stride = [p \in Proc |-> 0]
  /\ priority = [p \in Proc |-> 0]
  /\ heap = Empty
  /\ root = NULL
  /\ proc_num = 0
  /\ current = idleproc

-----------------------------------------------------------------------------
(* stride_enqueue by wakeup_proc, of a process that is not the current one, *)
(* while the strides are s.                                                *)
Enqueue(p, s) ==
  LET m == Insert(heap, Before(s), root, p)
  IN  heap' = m.heap /\ root' = m.root /\ proc_num' = proc_num + 1

(* What pick_next adds to the stride of the root: nothing, if its priority *)
(* is above BIG_STRIDE.                                                    *)
Pass(p) == IF priority[p] = 0 THEN HALF - 1 ELSE (HALF - 1) \div priority[p]

(* stride_pick_next and stride_dequeue on the heap h with root r of n.     *)
PickNext(h, r, n, s) ==
  IF r = NULL
  THEN heap' = h /\ root' = NULL /\ current' = idleproc /\ proc_num' = n /\ stride' = s
  ELSE LET m == Remove(h, Before(stride), r, r)
       IN  /\ heap' = Unlinked(m.heap, r) /\ root' = m.root /\ proc_num' = n - 1
           /\ current' = r
           /\ stride' = [s EXCEPT ![r] = Unsigned(@ + Pass(r))]

(* schedule() by the current process, which is runnable: idleproc is not   *)
(* enqueued.                                                               *)
Yield ==
  /\ IF current = idleproc THEN PickNext(heap, root, proc_num, stride)
     ELSE LET m == Insert(heap, Before(stride), root, current)
          IN  PickNext(m.heap, m.root, proc_num + 1, stride)
  /\ UNCHANGED <<state, priority>>

(* schedule() by a process that has gone to sleep, with the stride it has. *)
Sleep ==
  /\ current # idleproc
  /\ state' = [state EXCEPT ![current] = "SLEEPING"]
  /\ PickNext(heap, root, proc_num, stride)
  /\ UNCHANGED priority

(* schedule() by a process that has exited: its structure is gone, and the *)
(* model keeps nothing of it.                                              *)
Exit ==
  /\ current # idleproc
  /\ state' = [state EXCEPT ![current] = "FREE"]
  /\ PickNext(heap, root, proc_num, [stride EXCEPT ![current] = 0])
  /\ priority' = [priority EXCEPT ![current] = 0]

Wakeup(p) ==
  /\ state[p] = "SLEEPING"
  /\ state' = [state EXCEPT ![p] = "RUNNABLE"]
  /\ Enqueue(p, stride)
  /\ UNCHANGED <<stride, priority, current>>

(* do_fork: alloc_proc clears the structure, wakeup_proc enqueues it.      *)
Fork(p) ==
  /\ state[p] = "FREE"
  /\ state' = [state EXCEPT ![p] = "RUNNABLE"]
  /\ stride' = [stride EXCEPT ![p] = 0]
  /\ priority' = [priority EXCEPT ![p] = 0]
  /\ Enqueue(p, stride')
  /\ UNCHANGED current

SetPriority(n) ==
  /\ current # idleproc
  /\ priority' = [priority EXCEPT ![current] = IF n = 0 THEN 1 ELSE n]
  /\ UNCHANGED <<state, stride, heap, root, proc_num, current>>

Next ==
  \/ Yield \/ Sleep \/ Exit
  \/ \E p \in Proc : Wakeup(p) \/ Fork(p)
  \/ \E n \in Priority : SetPriority(n)

Spec == Init /\ [][Next]_vars

-----------------------------------------------------------------------------
(* The pool holds the runnable processes but the current one, once each;   *)
(* the pointers of the heap are a tree and proc_num counts its nodes.      *)
PoolExact ==
  /\ heap \in Heap
  /\ queue = {p \in Proc : state[p] = "RUNNABLE" /\ p # current}
  /\ proc_num = Cardinality(queue)
  /\ IsTree(heap, root)

Schedule == Yield \/ Sleep \/ Exit
Present  == queue \cup ({current} \ {idleproc})

(* The class keeps the promise of Stride, whoever enters, sleeps, wakes up *)
(* and exits: the heap orders the processes by the leads that Stride gives *)
(* them, which are sums of the differences that the comparison has seen.   *)
KeepsPromise == [Abs!Next]_(Abs!vars)

(* pick_next picks the element with the minimum value of stride: none that *)
(* stays in the queue comes before it.                                     *)
PicksMinimum ==
  [][Schedule /\ current' # idleproc => \A q \in queue' : Signed(stride[current'] - stride[q]) <= 0]_vars
=============================================================================
