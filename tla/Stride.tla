------------------------------- MODULE Stride -------------------------------
(***************************************************************************)
(* What the stride scheduling class of hw15/lab6_result promises           *)
(* (kern/schedule/default_sched.c), without its heap, whoever enters and   *)
(* leaves.  Strides are unsigned numbers that wrap around, so that a       *)
(* stride alone does not tell how many turns a process is behind.  What    *)
(* the class keeps in its place is how far each process in the queue lies  *)
(* ahead of the first one, and it learns that when the process enters, by  *)
(* comparing its stride with that of the first as 32-bit numbers.          *)
(***************************************************************************)
EXTENDS Integers, FiniteSets

CONSTANTS
  Proc,          \* the process structures, idleproc not included
  idleproc,      \* runs when there is no other, and is never in the queue
  HALF,          \* 2^31: half the number of strides
  Priority       \* what set_priority may be given

ASSUME StrideAssumption ==
  /\ idleproc \notin Proc
  /\ HALF \in Nat /\ HALF > 1
  /\ Priority \subseteq Nat

BIG_STRIDE == HALF - 1
SPACE      == 2 * HALF

VARIABLES
  stride,        \* proc->lab6_stride
  priority,      \* proc->lab6_priority
  queue,         \* the processes in the run queue
  current,       \* the process on the processor
  ahead          \* of each process in the queue, how far it lies ahead of the first

vars == <<stride, priority, queue, current, ahead>>

Present == queue \cup ({current} \ {idleproc})

-----------------------------------------------------------------------------
(* a - b as an int32_t.                                                    *)
Diff(a, b) == IF a - b >= HALF THEN a - b - SPACE
              ELSE IF a - b < -HALF THEN a - b + SPACE
              ELSE a - b

(* What pick_next adds to the stride of the process it picks: nothing, if  *)
(* its priority is above BIG_STRIDE.                                       *)
Pass(p) == IF priority[p] = 0 THEN BIG_STRIDE ELSE BIG_STRIDE \div priority[p]

(* uint32_t addition of a pass.                                            *)
Plus(a, b) == IF a + b >= SPACE THEN a + b - SPACE ELSE a + b

(* The leads a of the processes q agree with their strides: one is first,  *)
(* none is more than HALF ahead of the next, and up to there a lead is the *)
(* difference of the strides.                                              *)
Laid(q, s, a) ==
  /\ a \in [q -> Nat]
  /\ q # {} => \E f \in q : a[f] = 0
  /\ \A x \in q : a[x] # 0 => \E y \in q : a[x] - a[y] \in 1 .. HALF
  /\ \A x, y \in q : a[x] - a[y] \in 0 .. HALF => s[x] = Plus(s[y], a[x] - a[y])

(* The leads when p, with a stride of lead over the first, has entered.    *)
(* Half the number of strides counts as ahead, and no lead as first.       *)
Placed(q, a, p, lead) ==
  [x \in q \cup {p} |-> IF x = p THEN (IF lead > 0 THEN lead ELSE 0)
                        ELSE IF lead < 0 THEN a[x] - lead ELSE a[x]]

Entered(q, a, s, p) ==
  IF q = {} THEN [x \in {p} |-> 0]
  ELSE LET f == CHOOSE f \in q : a[f] = 0
       IN  Placed(q, a, p, -Diff(s[f], s[p]))

(* The leads over the new first one of the processes q that are left.      *)
Closed(q, a) ==
  LET f == CHOOSE f \in q : \A x \in q : a[f] <= a[x]
  IN  [x \in q |-> a[x] - a[f]]

(* A slip: any process is picked.                                          *)
Pick_Any(q, a, s) ==
  \/ /\ q = {}
     /\ current' = idleproc
     /\ stride' = s
     /\ UNCHANGED <<queue, ahead>>
  \/ \E p \in q :
       /\ stride' = [s EXCEPT ![p] = Plus(s[p], Pass(p))]
       /\ current' = p
       /\ queue' = q \ {p}
       /\ ahead' = Closed(queue', a)

(***************************************************************************)
(* pick_next and dequeue, of the processes q with the leads a.  Two of     *)
(* those left that are half the number of strides apart come each before   *)
(* the other in the comparison: then the leads may come out in any way     *)
(* that agrees with the strides.                                           *)
(***************************************************************************)
Pick(q, a, s) ==
  \/ /\ q = {}
     /\ current' = idleproc
     /\ stride' = s
     /\ UNCHANGED <<queue, ahead>>
  \/ \E p \in q :
       /\ a[p] = 0
       /\ stride' = [s EXCEPT ![p] = Plus(s[p], Pass(p))]
       /\ current' = p
       /\ queue' = q \ {p}
       /\ \/ ahead' = Closed(queue', a)
          \/ /\ \E x, y \in queue' : a[x] - a[y] = HALF
             /\ \E b \in [queue' -> 0 .. HALF * Cardinality(queue')] :
                  Laid(queue', s, b) /\ ahead' = b

-----------------------------------------------------------------------------
TypeOK ==
  /\ stride \in [Proc -> 0 .. SPACE - 1]
  /\ priority \in [Proc -> Nat]
  /\ queue \subseteq Proc
  /\ current \in Proc \cup {idleproc}
  /\ current \notin queue

Init ==
  /\ stride = [p \in Proc |-> 0]
  /\ priority = [p \in Proc |-> 0]
  /\ queue = {}
  /\ current = idleproc
  /\ ahead = [p \in {} |-> 0]

(* A new process, with the stride 0 that alloc_proc gives it.              *)
Fork(p) ==
  /\ p \notin Present
  /\ stride' = [stride EXCEPT ![p] = 0]
  /\ priority' = [priority EXCEPT ![p] = 0]
  /\ ahead' = Entered(queue, ahead, stride', p)
  /\ queue' = queue \cup {p}
  /\ UNCHANGED current

(* A process that slept comes back with the stride it had.                 *)
Wakeup(p) ==
  /\ p \notin Present
  /\ ahead' = Entered(queue, ahead, stride, p)
  /\ queue' = queue \cup {p}
  /\ UNCHANGED <<stride, priority, current>>

(* schedule() by the current process, which stays runnable.                *)
Yield ==
  /\ IF current = idleproc THEN Pick(queue, ahead, stride)
     ELSE Pick(queue \cup {current}, Entered(queue, ahead, stride, current), stride)
  /\ UNCHANGED priority

(* schedule() by a process that has gone to sleep, or that has exited: its *)
(* structure is gone.                                                      *)
Leave ==
  /\ current # idleproc
  /\ \/ Pick(queue, ahead, stride) /\ UNCHANGED priority
     \/ /\ Pick(queue, ahead, [stride EXCEPT ![current] = 0])
        /\ priority' = [priority EXCEPT ![current] = 0]

(* lab6_set_priority.                                                      *)
SetPriority(n) ==
  /\ current # idleproc
  /\ priority' = [priority EXCEPT ![current] = IF n = 0 THEN 1 ELSE n]
  /\ UNCHANGED <<stride, queue, current, ahead>>

Next ==
  \/ \E p \in Proc : Fork(p) \/ Wakeup(p)
  \/ Yield \/ Leave
  \/ \E n \in Priority : SetPriority(n)

Spec == Init /\ [][Next]_vars

-----------------------------------------------------------------------------
(* No process of S comes before p in the comparison.                       *)
Least(p, S) == \A q \in S : Diff(stride[q], stride[p]) >= 0

(* The strides of S lie within BIG_STRIDE of one another.                  *)
Together(S) == \E b \in 0 .. SPACE - 1 : \A p \in S : Diff(stride[p], b) \in 0 .. BIG_STRIDE

(* Whenever one of the processes that are ready has the minimum stride, no *)
(* other before it, such a one is picked, even if others entered late and  *)
(* the strides form no order; and strides that lie together, among which   *)
(* there is a minimum, stay together while nobody enters, although they go *)
(* on and wrap around.                                                     *)
MinimumPicked ==
  /\ [][(Yield \/ Leave) /\ (\E m \in Present' : Least(m, Present'))
          => Least(current', Present')]_vars
  /\ [][Together(Present) /\ Present' \subseteq Present => Together(Present)']_vars
=============================================================================
