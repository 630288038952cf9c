-------------------------- MODULE KernelPartsProofs --------------------------
(***************************************************************************)
(* Proofs about the parts of the kernels that work by themselves: stride   *)
(* scheduling, the manager of physical pages, and the devices.             *)
(***************************************************************************)
EXTENDS KernelParts, Stride, SequenceLemmas

-----------------------------------------------------------------------------
(* Stride: for every width of the strides, every set of processes and all  *)
(* priorities, whoever enters and leaves, the leads by which the queue is  *)
(* ordered agree with the strides.                                         *)
StrideInv == TypeOK /\ Laid(queue, stride, ahead)

Number == 0 .. SPACE - 1

(* A difference added to the smaller of two strides gives the greater.     *)
LEMMA DiffPlus ==
  ASSUME NEW x \in Number, NEW y \in Number
  PROVE  /\ Diff(x, y) \in -HALF .. HALF - 1
         /\ Diff(x, y) >= 0 => x = Plus(y, Diff(x, y))
         /\ Diff(x, y) <= 0 => y = Plus(x, -Diff(x, y))
  BY StrideAssumption DEF Diff, Plus, SPACE, Number

(* The other way round; half the number of strides counts as before.       *)
LEMMA PlusDiff ==
  ASSUME NEW y \in Number, NEW k \in 0 .. HALF
  PROVE  /\ Plus(y, k) \in Number
         /\ k > 0 => Diff(y, Plus(y, k)) < 0
         /\ k < HALF => Diff(Plus(y, k), y) = k
  BY StrideAssumption DEF Diff, Plus, SPACE, Number

(* Sums that wrap are sums.                                                *)
LEMMA PlusPlus ==
  ASSUME NEW y \in Number, NEW m \in Nat, NEW n \in Nat, m + n <= SPACE
  PROVE  Plus(Plus(y, m), n) = Plus(y, m + n) /\ Plus(y, m) \in Number
  BY StrideAssumption DEF Plus, SPACE, Number

(* A pass is at most BIG_STRIDE, whatever the priority.                    *)
LEMMA DivBound ==
  ASSUME NEW a \in Nat, NEW n \in Nat, n > 0
  PROVE  a \div n \in 0 .. a
  OBVIOUS

(* So is what stride_pick_next adds, for priority 0 too.                   *)
LEMMA PassBound ==
  ASSUME TypeOK, NEW p \in Proc
  PROVE  Pass(p) \in 0 .. BIG_STRIDE
<1>1. BIG_STRIDE \in Nat /\ priority[p] \in Nat
  BY StrideAssumption DEF BIG_STRIDE, TypeOK
<1>2. CASE priority[p] = 0
  BY <1>1, <1>2 DEF Pass
<1>3. CASE priority[p] # 0
  BY <1>1, <1>3, DivBound DEF Pass
<1> QED  BY <1>2, <1>3

-----------------------------------------------------------------------------
(* Only the strides of the processes in the queue matter.                  *)
LEMMA LaidSame ==
  ASSUME NEW q, NEW s, NEW t, NEW a, Laid(q, s, a), \A x \in q : t[x] = s[x]
  PROVE  Laid(q, t, a)
  BY DEF Laid

(* One of the processes that a queue is ordered by has the least lead.     *)
LEMMA LeastLead ==
  ASSUME NEW q, NEW a, \A x \in q : a[x] \in Nat, q # {}
  PROVE  \E f \in q : \A x \in q : a[f] <= a[x]
<1> DEFINE I == {a[x] : x \in q}
<1>1. I \in SUBSET Nat /\ I # {}
  OBVIOUS
<1>2. Min(I) \in I /\ \A j \in I : Min(I) <= j
  <2> HIDE DEF I
  <2> QED  BY <1>1, MinProperties
<1>3. PICK f \in q : a[f] = Min(I)
  BY <1>2
<1>4. \A x \in q : a[f] <= a[x]
  BY <1>2, <1>3
<1> QED  BY <1>4

(* A lead over the first that is not more than all the strides there are   *)
(* is the difference of the two strides, although it may be made of two.   *)
LEMMA FromFirst ==
  ASSUME NEW q, NEW s, NEW a, Laid(q, s, a), \A x \in q : s[x] \in Number,
         NEW f \in q, a[f] = 0, NEW x \in q, a[x] <= SPACE
  PROVE  s[x] = Plus(s[f], a[x])
<1>1. /\ \A z \in q : a[z] \in Nat
      /\ \A z \in q : a[z] # 0 => \E y \in q : a[z] - a[y] \in 1 .. HALF
      /\ \A z, y \in q : a[z] - a[y] \in 0 .. HALF => s[z] = Plus(s[y], a[z] - a[y])
  BY DEF Laid
<1>2. HALF \in Nat /\ SPACE = HALF + HALF
  BY StrideAssumption DEF SPACE
<1>3. \A z \in q : a[z] <= HALF => s[z] = Plus(s[f], a[z])
  <2> TAKE z \in q
  <2>1. a[z] \in Nat /\ a[z] - a[f] = a[z]
    BY <1>1
  <2> QED  BY <1>1, <1>2, <2>1
<1>4. CASE a[x] <= HALF
  BY <1>3, <1>4
<1>5. CASE a[x] > HALF
  <2> DEFINE Far == {z \in q : a[z] > HALF}
  <2>1. \E z \in Far : \A w \in Far : a[z] <= a[w]
    <3>1. x \in Far /\ \A z \in Far : a[z] \in Nat
      BY <1>1, <1>5
    <3> HIDE DEF Far
    <3> QED  BY <3>1, LeastLead
  <2>2. PICK z \in q : a[z] > HALF /\ \A w \in q : a[w] > HALF => a[z] <= a[w]
    BY <2>1
  <2>3. PICK y \in q : a[z] - a[y] \in 1 .. HALF
    BY <1>1, <1>2, <2>2
  <2>4. a[x] \in Nat /\ a[y] \in Nat /\ a[z] \in Nat
    BY <1>1
  <2>5. a[y] <= HALF
    BY <2>2, <2>3, <2>4, <1>2
  <2>6. s[y] = Plus(s[f], a[y]) /\ s[z] = Plus(s[y], a[z] - a[y])
    BY <1>1, <1>2, <1>3, <2>3, <2>4, <2>5
  <2>7. s[f] \in Number
    OBVIOUS
  <2>8. a[z] <= a[x] /\ a[x] - a[z] \in 0 .. HALF
    BY <1>2, <1>5, <2>2, <2>4
  <2>9. s[x] = Plus(s[z], a[x] - a[z])
    BY <1>1, <2>8
  <2>10. /\ a[z] - a[y] \in Nat /\ a[y] + (a[z] - a[y]) = a[z] /\ a[z] <= SPACE
         /\ a[x] - a[z] \in Nat /\ a[z] + (a[x] - a[z]) = a[x]
    BY <1>2, <2>3, <2>4, <2>8
  <2>11. s[z] = Plus(s[f], a[z])
    BY <2>4, <2>6, <2>7, <2>10, PlusPlus
  <2> QED  BY <2>4, <2>7, <2>9, <2>10, <2>11, PlusPlus
<1> QED  BY <1>1, <1>2, <1>4, <1>5

(* A process that enters finds its place among the leads.                  *)
LEMMA PlacedLaid ==
  ASSUME NEW q, NEW s, NEW a, Laid(q, s, a), NEW p, p \notin q,
         \A x \in q \cup {p} : s[x] \in Number,
         NEW f \in q, a[f] = 0, NEW d \in Int, d = -Diff(s[f], s[p])
  PROVE  Laid(q \cup {p}, s, Placed(q, a, p, d))
<1> DEFINE b == Placed(q, a, p, d)
<1>1. /\ \A x \in q : a[x] \in Nat
      /\ \A x \in q : a[x] # 0 => \E y \in q : a[x] - a[y] \in 1 .. HALF
      /\ \A x, y \in q : a[x] - a[y] \in 0 .. HALF => s[x] = Plus(s[y], a[x] - a[y])
  BY DEF Laid
<1>2. HALF \in Nat /\ SPACE = HALF + HALF
  BY StrideAssumption DEF SPACE
<1>3. s[f] \in Number /\ s[p] \in Number
  OBVIOUS
<1>4. d \in -HALF .. HALF /\ (d >= 0 => s[p] = Plus(s[f], d)) /\ (d <= 0 => s[f] = Plus(s[p], -d))
  <2>1. /\ Diff(s[f], s[p]) \in -HALF .. HALF - 1
        /\ Diff(s[f], s[p]) >= 0 => s[f] = Plus(s[p], Diff(s[f], s[p]))
        /\ Diff(s[f], s[p]) <= 0 => s[p] = Plus(s[f], -Diff(s[f], s[p]))
    BY <1>3, DiffPlus
  <2>2. -d = Diff(s[f], s[p])
    BY <1>2, <2>1
  <2> QED  BY <1>2, <2>1, <2>2
<1>5. \A x \in q : a[x] <= SPACE => s[x] = Plus(s[f], a[x])
  <2>1. \A x \in q : s[x] \in Number
    OBVIOUS
  <2> QED  BY <2>1, FromFirst
<1>6. Plus(s[p], 0) = s[p]
  BY <1>2, <1>3 DEF Plus, Number
<1>7. CASE d >= 0
  <2>1. /\ b[p] = d /\ d \in 0 .. HALF
        /\ \A x \in q : b[x] = a[x]
        /\ b \in [q \cup {p} -> Nat]
    BY <1>1, <1>2, <1>4, <1>7 DEF Placed
  <2> HIDE DEF b
  <2>2. b[f] = 0
    BY <2>1
  <2>3. \A x \in q \cup {p} : b[x] # 0 => \E y \in q \cup {p} : b[x] - b[y] \in 1 .. HALF
    <3>1. b[p] # 0 => b[p] - b[f] \in 1 .. HALF
      BY <1>2, <2>1, <2>2
    <3> QED  BY <1>1, <2>1, <3>1
  <2>4. ASSUME NEW y \in q, b[p] - b[y] \in 0 .. HALF
        PROVE  s[p] = Plus(s[y], b[p] - b[y])
    <3>1. a[y] \in Nat /\ d - a[y] \in Nat /\ a[y] + (d - a[y]) = d /\ a[y] <= SPACE /\ d <= SPACE
      BY <1>1, <1>2, <2>1, <2>4
    <3>2. s[y] = Plus(s[f], a[y]) /\ s[p] = Plus(s[f], d)
      BY <1>4, <1>5, <1>7, <3>1
    <3> QED  BY <1>3, <2>1, <3>1, <3>2, PlusPlus
  <2>5. ASSUME NEW x \in q, b[x] - b[p] \in 0 .. HALF
        PROVE  s[x] = Plus(s[p], b[x] - b[p])
    <3>1. a[x] \in Nat /\ a[x] - d \in Nat /\ d + (a[x] - d) = a[x] /\ a[x] <= SPACE /\ d \in Nat
      BY <1>1, <1>2, <2>1, <2>5
    <3>2. s[x] = Plus(s[f], a[x]) /\ s[p] = Plus(s[f], d)
      BY <1>4, <1>5, <1>7, <3>1
    <3> QED  BY <1>3, <2>1, <3>1, <3>2, PlusPlus
  <2>6. s[p] = Plus(s[p], b[p] - b[p])
    BY <1>6, <2>1
  <2>7. \A x, y \in q \cup {p} : b[x] - b[y] \in 0 .. HALF => s[x] = Plus(s[y], b[x] - b[y])
    <3>1. \A x, y \in q : b[x] - b[y] \in 0 .. HALF => s[x] = Plus(s[y], b[x] - b[y])
      BY <1>1, <2>1
    <3> QED  BY ONLY <2>4, <2>5, <2>6, <3>1
  <2> QED  BY <2>1, <2>2, <2>3, <2>7 DEF Laid, b
<1>8. CASE d < 0
  <2>1. /\ b[p] = 0 /\ -d \in 1 .. HALF
        /\ \A x \in q : b[x] = a[x] - d
        /\ b \in [q \cup {p} -> Nat]
    <3>1. \A x \in q : a[x] - d \in Nat
      BY <1>1, <1>8
    <3> QED  BY <1>1, <1>2, <1>4, <1>8, <3>1 DEF Placed
  <2> HIDE DEF b
  <2>2. \A x, y \in q : b[x] - b[y] = a[x] - a[y]
    BY <1>1, <2>1
  <2>3. \A x \in q : a[x] \in Nat /\ b[x] - b[p] = a[x] - d /\ b[p] - b[x] = d - a[x]
    BY <1>1, <2>1
  <2>4. \A x \in q \cup {p} : b[x] # 0 => \E y \in q \cup {p} : b[x] - b[y] \in 1 .. HALF
    <3>1. ASSUME NEW x \in q, a[x] = 0
          PROVE  b[x] - b[p] \in 1 .. HALF
      BY <2>1, <2>3, <3>1
    <3> QED  BY <1>1, <2>1, <2>2, <3>1
  <2>5. ASSUME NEW x \in q, b[x] - b[p] \in 0 .. HALF
        PROVE  s[x] = Plus(s[p], b[x] - b[p])
    <3>1. a[x] \in Nat /\ -d \in Nat /\ (-d) + a[x] = a[x] - d /\ a[x] <= SPACE /\ a[x] - d <= SPACE
      BY <1>2, <2>1, <2>3, <2>5
    <3>2. s[x] = Plus(s[f], a[x]) /\ s[f] = Plus(s[p], -d)
      BY <1>4, <1>5, <1>8, <3>1
    <3> QED  BY <1>3, <2>3, <3>1, <3>2, PlusPlus
  <2>6. \A y \in q : b[p] - b[y] \notin 0 .. HALF
    BY <1>8, <2>3
  <2>7. s[p] = Plus(s[p], b[p] - b[p])
    BY <1>6, <2>1
  <2>8. \A x, y \in q \cup {p} : b[x] - b[y] \in 0 .. HALF => s[x] = Plus(s[y], b[x] - b[y])
    BY <1>1, <2>2, <2>5, <2>6, <2>7
  <2> QED  BY <2>1, <2>4, <2>8 DEF Laid, b
<1> QED  BY <1>7, <1>8

(* So it does when the queue is empty, and when the first one is any.      *)
LEMMA EnteredLaid ==
  ASSUME NEW q, NEW s, NEW a, Laid(q, s, a), NEW p, p \notin q,
         \A x \in q \cup {p} : s[x] \in Number
  PROVE  Laid(q \cup {p}, s, Entered(q, a, s, p))
<1>1. CASE q = {}
  <2>1. Entered(q, a, s, p) = [x \in {p} |-> 0] /\ q \cup {p} = {p}
    BY <1>1 DEF Entered
  <2>2. Plus(s[p], 0) = s[p] /\ HALF \in Nat
    BY StrideAssumption DEF Plus, Number, SPACE
  <2> QED  BY <2>1, <2>2 DEF Laid
<1>2. CASE q # {}
  <2> DEFINE f == CHOOSE f \in q : a[f] = 0
  <2>1. f \in q /\ a[f] = 0
    BY <1>2 DEF Laid
  <2>2. Entered(q, a, s, p) = Placed(q, a, p, -Diff(s[f], s[p]))
    BY <1>2 DEF Entered
  <2> HIDE DEF f
  <2>3. -Diff(s[f], s[p]) \in Int
    BY <2>1, DiffPlus, StrideAssumption
  <2> QED  BY <2>1, <2>2, <2>3, PlacedLaid
<1> QED  BY <1>1, <1>2

(* The leads when a first one is gone.                                     *)
LEMMA ClosedLaid ==
  ASSUME NEW q, NEW s, NEW a, Laid(q, s, a), NEW p \in q, a[p] = 0
  PROVE  Laid(q \ {p}, s, Closed(q \ {p}, a))
<1> DEFINE r == q \ {p}
           f == CHOOSE f \in r : \A x \in r : a[f] <= a[x]
           b == Closed(r, a)
<1>1. /\ \A x \in q : a[x] \in Nat
      /\ \A x \in q : a[x] # 0 => \E y \in q : a[x] - a[y] \in 1 .. HALF
      /\ \A x, y \in q : a[x] - a[y] \in 0 .. HALF => s[x] = Plus(s[y], a[x] - a[y])
  BY DEF Laid
<1>2. b = [x \in r |-> a[x] - a[f]]
  BY DEF Closed
<1>3. CASE r = {}
  BY <1>2, <1>3 DEF Laid
<1>4. CASE r # {}
  <2>1. f \in r /\ \A x \in r : a[f] <= a[x]
    <3>1. \E g \in r : \A x \in r : a[g] <= a[x]
      <4>1. \A x \in r : a[x] \in Nat
        BY <1>1
      <4> HIDE DEF r
      <4> QED  BY <1>4, <4>1, LeastLead
    <3> QED  BY <3>1
  <2> HIDE DEF f, b
  <2>2. b \in [r -> Nat] /\ b[f] = 0 /\ \A x, y \in r : b[x] - b[y] = a[x] - a[y]
    BY <1>1, <1>2, <2>1
  <2>3. ASSUME NEW x \in r, b[x] # 0
        PROVE  \E y \in r : b[x] - b[y] \in 1 .. HALF
    <3>1. b[x] = a[x] - a[f] /\ a[x] \in Nat /\ a[f] \in Nat /\ HALF \in Nat /\ a[f] <= a[x]
      BY <1>1, <1>2, <2>1, StrideAssumption
    <3>2. a[x] # 0
      BY <2>3, <3>1
    <3>3. PICK y \in q : a[x] - a[y] \in 1 .. HALF
      BY <1>1, <3>2
    <3>4. CASE y = p
      <4>1. b[x] - b[f] \in 1 .. HALF
        BY <2>2, <2>3, <3>1, <3>3, <3>4
      <4> QED  BY <2>1, <4>1
    <3>5. CASE y # p
      <4>1. y \in r /\ b[x] - b[y] \in 1 .. HALF
        BY <2>2, <3>3, <3>5
      <4> QED  BY <4>1
    <3> QED  BY <3>4, <3>5
  <2>4. \A x, y \in r : b[x] - b[y] \in 0 .. HALF => s[x] = Plus(s[y], b[x] - b[y])
    BY <1>1, <2>2
  <2> QED  BY <2>1, <2>2, <2>3, <2>4 DEF Laid, b
<1> QED  BY <1>3, <1>4

-----------------------------------------------------------------------------
(* Adding a pass to a stride wraps to a stride.                            *)
LEMMA StrideAdvances ==
  ASSUME TypeOK, NEW p \in Proc, NEW x \in Number
  PROVE  Plus(x, Pass(p)) \in Number /\ Diff(Plus(x, Pass(p)), x) \in 0 .. BIG_STRIDE
<1>1. Pass(p) \in 0 .. BIG_STRIDE /\ BIG_STRIDE = HALF - 1 /\ HALF \in Nat
  BY PassBound, StrideAssumption DEF BIG_STRIDE
<1>2. Pass(p) \in 0 .. HALF /\ Pass(p) < HALF
  BY <1>1
<1> QED  BY <1>1, <1>2, PlusDiff

(* What pick_next may be called with: the processes that are ready and     *)
(* their leads.                                                            *)
Ready(q, a, s) ==
  /\ q \subseteq Proc
  /\ Laid(q, s, a)
  /\ s \in [Proc -> Number]
  /\ q = {} => queue = {} /\ ahead = a

(* It picks a first one, if there is one, and keeps the leads.             *)
LEMMA PickLaid ==
  ASSUME TypeOK, NEW q, NEW a, NEW s, Ready(q, a, s), Pick(q, a, s)
  PROVE  /\ Laid(queue', stride', ahead')
         /\ stride' \in [Proc -> Number]
         /\ current' \in Proc \cup {idleproc}
         /\ queue' \subseteq Proc /\ current' \notin queue'
         /\ Present' = q
         /\ q # {} => \E p \in q : /\ a[p] = 0 /\ current' = p
                                   /\ stride' = [s EXCEPT ![p] = Plus(s[p], Pass(p))]
<1>1. idleproc \notin Proc
  BY StrideAssumption
<1>2. CASE q = {}
  BY <1>1, <1>2 DEF Pick, Ready, Present
<1>3. CASE q # {}
  <2>1. PICK p \in q :
          /\ a[p] = 0
          /\ stride' = [s EXCEPT ![p] = Plus(s[p], Pass(p))]
          /\ current' = p
          /\ queue' = q \ {p}
          /\ ahead' = Closed(queue', a) \/ Laid(queue', s, ahead')
    BY <1>3 DEF Pick
  <2>2. p \in Proc /\ q \subseteq Proc /\ Laid(q, s, a) /\ s \in [Proc -> Number]
    BY DEF Ready
  <2>3. Laid(queue', s, ahead')
    BY <2>1, <2>2, ClosedLaid
  <2>4. stride' \in [Proc -> Number] /\ \A x \in queue' : stride'[x] = s[x]
    <3>1. Plus(s[p], Pass(p)) \in Number
      BY <2>2, StrideAdvances
    <3> QED  BY <2>1, <2>2, <3>1
  <2>5. Laid(queue', stride', ahead')
    BY <2>3, <2>4, LaidSame
  <2>6. Present' = q
    BY <1>1, <2>1, <2>2 DEF Present
  <2> QED  BY <2>1, <2>2, <2>4, <2>5, <2>6
<1> QED  BY <1>2, <1>3

(* schedule() calls pick_next with what is ready: of a process that stays   *)
(* runnable with itself among them.                                        *)
LEMMA YieldReady ==
  ASSUME StrideInv, Yield
  PROVE  \E a : Ready(Present, a, stride) /\ Pick(Present, a, stride)
<1>1. queue \subseteq Proc /\ current \notin queue /\ stride \in [Proc -> Number]
      /\ current \in Proc \cup {idleproc} /\ Laid(queue, stride, ahead)
  BY DEF StrideInv, TypeOK, Number
<1>2. CASE current = idleproc
  <2>1. Present = queue
    BY <1>1, <1>2 DEF Present
  <2> QED  BY <1>1, <1>2, <2>1 DEF Yield, Ready
<1>3. CASE current # idleproc
  <2>1. Present = queue \cup {current} /\ current \in Proc
    BY <1>1, <1>3 DEF Present
  <2>2. \A x \in queue \cup {current} : stride[x] \in Number
    BY <1>1, <2>1
  <2>3. Laid(Present, stride, Entered(queue, ahead, stride, current))
    BY <1>1, <2>1, <2>2, EnteredLaid
  <2> QED  BY <1>1, <1>3, <2>1, <2>3 DEF Yield, Ready
<1> QED  BY <1>2, <1>3

(* Of one that goes with the others; if it has exited its stride is gone.  *)
LEMMA LeaveReady ==
  ASSUME StrideInv, Leave
  PROVE  /\ queue \subseteq Present
         /\ \E s : /\ Ready(queue, ahead, s) /\ Pick(queue, ahead, s)
                   /\ \A x \in queue : s[x] = stride[x]
<1>1. queue \subseteq Proc /\ current \notin queue /\ stride \in [Proc -> Number]
      /\ current \in Proc /\ Laid(queue, stride, ahead)
  BY DEF StrideInv, TypeOK, Number, Leave
<1> DEFINE t == [stride EXCEPT ![current] = 0]
<1>2. t \in [Proc -> Number] /\ \A x \in queue : t[x] = stride[x]
  BY <1>1, StrideAssumption DEF Number, SPACE
<1>3. Ready(queue, ahead, stride) /\ Ready(queue, ahead, t)
  <2> HIDE DEF t
  <2> QED  BY <1>1, <1>2, LaidSame DEF Ready
<1>4. queue \subseteq Present
  BY DEF Present
<1>5. CASE Pick(queue, ahead, stride)
  BY <1>3, <1>4, <1>5
<1>6. CASE Pick(queue, ahead, t)
  BY <1>2, <1>3, <1>4, <1>6
<1> QED  BY <1>5, <1>6 DEF Leave

-----------------------------------------------------------------------------
(* Every step keeps the invariant.                                         *)
LEMMA StrideStep == StrideInv /\ [Next]_vars => StrideInv'
<1> SUFFICES ASSUME StrideInv, [Next]_vars
             PROVE  StrideInv'
  OBVIOUS
<1>1. /\ queue \subseteq Proc /\ current \notin queue /\ stride \in [Proc -> Number]
      /\ priority \in [Proc -> Nat] /\ current \in Proc \cup {idleproc}
      /\ Laid(queue, stride, ahead) /\ TypeOK
  BY DEF StrideInv, TypeOK, Number
<1>2. 0 \in Number /\ Priority \subseteq Nat /\ idleproc \notin Proc
  BY StrideAssumption DEF Number, SPACE
<1>3. ASSUME NEW p \in Proc, Fork(p)
      PROVE  StrideInv'
  <2>1. /\ p \notin queue /\ p # current
        /\ stride' \in [Proc -> Number] /\ \A x \in queue : stride'[x] = stride[x]
        /\ priority' \in [Proc -> Nat]
    BY <1>1, <1>2, <1>3 DEF Fork, Present
  <2>2. Laid(queue, stride', ahead)
    BY <1>1, <2>1, LaidSame
  <2>3. Laid(queue \cup {p}, stride', Entered(queue, ahead, stride', p))
    <3>1. \A x \in queue \cup {p} : stride'[x] \in Number
      BY <1>1, <2>1
    <3> QED  BY <2>1, <2>2, <3>1, EnteredLaid
  <2> QED  BY <1>1, <1>3, <2>1, <2>3 DEF Fork, StrideInv, TypeOK, Number
<1>4. ASSUME NEW p \in Proc, Wakeup(p)
      PROVE  StrideInv'
  <2>1. p \notin queue /\ p # current
    BY <1>1, <1>2, <1>4 DEF Wakeup, Present
  <2>2. Laid(queue \cup {p}, stride, Entered(queue, ahead, stride, p))
    <3>1. \A x \in queue \cup {p} : stride[x] \in Number
      BY <1>1
    <3> QED  BY <1>1, <2>1, <3>1, EnteredLaid
  <2> QED  BY <1>1, <1>4, <2>1, <2>2 DEF Wakeup, StrideInv, TypeOK, Number
<1>5. CASE Yield
  <2>1. PICK a : Ready(Present, a, stride) /\ Pick(Present, a, stride)
    BY <1>5, YieldReady
  <2>2. priority' \in [Proc -> Nat]
    BY <1>1, <1>5 DEF Yield
  <2> QED  BY <1>1, <2>1, <2>2, PickLaid DEF StrideInv, TypeOK, Number
<1>6. CASE Leave
  <2>1. PICK s : Ready(queue, ahead, s) /\ Pick(queue, ahead, s)
    BY <1>6, LeaveReady
  <2>2. priority' \in [Proc -> Nat]
    BY <1>1, <1>6 DEF Leave
  <2> QED  BY <1>1, <2>1, <2>2, PickLaid DEF StrideInv, TypeOK, Number
<1>7. ASSUME NEW n \in Priority, SetPriority(n)
      PROVE  StrideInv'
  <2>1. priority' \in [Proc -> Nat]
    BY <1>1, <1>2, <1>7 DEF SetPriority
  <2>2. Laid(queue', stride', ahead')
    BY <1>1, <1>7 DEF SetPriority
  <2> QED  BY <1>1, <1>7, <2>1, <2>2 DEF SetPriority, StrideInv, TypeOK, Number
<1>8. CASE UNCHANGED vars
  <2>1. Laid(queue', stride', ahead')
    BY <1>1, <1>8 DEF vars
  <2> QED  BY <1>1, <1>8, <2>1 DEF vars, StrideInv, TypeOK, Number
<1> QED  BY <1>3, <1>4, <1>5, <1>6, <1>7, <1>8 DEF Next

(* The queue is empty when the kernel starts.                              *)
LEMMA StrideInit == Init => StrideInv
  BY StrideAssumption DEF Init, StrideInv, TypeOK, Laid, SPACE

(* The inductive invariant holds throughout.                               *)
LEMMA StrideInvariance == Spec => []StrideInv
<1> QED  BY StrideInit, StrideStep, PTL DEF Spec

(* The strides stay numbers of their width, and no process is both in the  *)
(* queue and on the processor.                                             *)
THEOREM StrideTypeCorrect == Spec => []TypeOK
<1>1. StrideInv => TypeOK
  BY DEF StrideInv
<1> QED  BY <1>1, StrideInvariance, PTL

(* The order in which the queue stands, built of the differences that the  *)
(* comparison saw when each process entered, agrees with the strides for   *)
(* ever: one process is first, none is more than half the numbers ahead of *)
(* the next, and up to there its lead is the difference of the strides,    *)
(* although they wrap around and whoever enters late.                      *)
THEOREM LeadsAgree == Spec => []Laid(queue, stride, ahead)
<1>1. StrideInv => Laid(queue, stride, ahead)
  BY DEF StrideInv
<1> QED  BY <1>1, StrideInvariance, PTL

-----------------------------------------------------------------------------
(* A process before which no other comes has the stride of the first one.  *)
LEMMA LeastIsFirst ==
  ASSUME NEW q, NEW s, NEW a, Laid(q, s, a), \A x \in q : s[x] \in Number,
         NEW p \in q, a[p] = 0, NEW m \in q, \A x \in q : Diff(s[x], s[m]) >= 0
  PROVE  s[p] = s[m]
<1>1. /\ a[m] \in Nat
      /\ a[m] # 0 => \E y \in q : a[m] - a[y] \in 1 .. HALF
      /\ \A y \in q : a[m] - a[y] \in 0 .. HALF => s[m] = Plus(s[y], a[m] - a[y])
  BY DEF Laid
<1>2. a[m] = 0
  <2> SUFFICES ASSUME a[m] # 0
               PROVE  FALSE
    OBVIOUS
  <2>1. PICK y \in q : a[m] - a[y] \in 1 .. HALF
    BY <1>1
  <2> DEFINE k == a[m] - a[y]
  <2>2. k \in 0 .. HALF /\ k > 0 /\ s[m] = Plus(s[y], k)
    BY <1>1, <2>1, StrideAssumption
  <2> HIDE DEF k
  <2>3. Diff(s[y], s[m]) < 0 /\ Diff(s[y], s[m]) >= 0
    BY <2>2, PlusDiff
  <2>4. Diff(s[y], s[m]) \in Int
    BY DiffPlus, StrideAssumption
  <2> QED  BY <2>3, <2>4
<1>3. s[m] = Plus(s[p], 0)
  BY <1>1, <1>2, StrideAssumption
<1>4. Plus(s[p], 0) = s[p]
  BY StrideAssumption DEF Plus, Number, SPACE
<1> QED  BY <1>3, <1>4

(* pick_next picks such a process.                                         *)
LEMMA PickIsLeast ==
  ASSUME TypeOK, NEW q, NEW a, NEW s, Ready(q, a, s), Pick(q, a, s),
         NEW m \in q, \A x \in q : Diff(s[x], s[m]) >= 0
  PROVE  /\ current' \in q /\ s[current'] = s[m]
         /\ stride' = [s EXCEPT ![current'] = Plus(s[m], Pass(current'))]
<1>1. PICK p \in q : /\ a[p] = 0 /\ current' = p
                     /\ stride' = [s EXCEPT ![p] = Plus(s[p], Pass(p))]
  BY PickLaid
<1>2. Laid(q, s, a) /\ \A x \in q : s[x] \in Number
  BY DEF Ready
<1>3. s[p] = s[m]
  BY <1>1, <1>2, LeastIsFirst
<1> QED  BY <1>1, <1>3

(* Strides that lie together have such a process among them, and the one   *)
(* that is picked stays with the others.                                   *)
LEMMA PickStaysTogether ==
  ASSUME TypeOK, NEW q, NEW a, NEW s, Ready(q, a, s), Pick(q, a, s),
         NEW b \in Number, \A x \in q : Diff(s[x], b) \in 0 .. BIG_STRIDE
  PROVE  Together(Present)'
<1>1. q \subseteq Proc /\ s \in [Proc -> Number] /\ \A x \in q : s[x] \in Number
  BY DEF Ready
<1>2. Present' = q
  BY PickLaid
<1>3. BIG_STRIDE = HALF - 1 /\ HALF \in Nat /\ 0 \in Number /\ SPACE = HALF + HALF
  BY StrideAssumption DEF BIG_STRIDE, Number, SPACE
<1>4. CASE q = {}
  BY <1>2, <1>3, <1>4 DEF Together, Number
<1>5. CASE q # {}
  <2> DEFINE off == [x \in q |-> Diff(s[x], b)]
  <2>1. PICK m \in q : \A x \in q : off[m] <= off[x]
    <3>1. \A x \in q : off[x] \in Nat
      BY <1>3
    <3> HIDE DEF off
    <3> QED  BY <1>5, <3>1, LeastLead
  <2>2. \A x \in q : Diff(s[m], b) <= Diff(s[x], b)
    BY <2>1
  <2>3. \A x \in q : Diff(s[x], s[m]) \in 0 .. BIG_STRIDE
    <3> TAKE x \in q
    <3>1. /\ s[x] \in Number /\ s[m] \in Number /\ Diff(s[m], b) <= Diff(s[x], b)
          /\ Diff(s[x], b) \in 0 .. BIG_STRIDE /\ Diff(s[m], b) \in 0 .. BIG_STRIDE
      BY <1>1, <2>2
    <3> QED  BY <1>3, <3>1 DEF Diff, Number
  <2>4. \A x \in q : Diff(s[x], s[m]) >= 0
    BY <1>3, <2>3
  <2>5. /\ current' \in q
        /\ stride' = [s EXCEPT ![current'] = Plus(s[m], Pass(current'))]
    BY <2>4, PickIsLeast
  <2>6. Diff(Plus(s[m], Pass(current')), s[m]) \in 0 .. BIG_STRIDE
    BY <1>1, <2>5, StrideAdvances
  <2>7. \A x \in q : Diff(stride'[x], s[m]) \in 0 .. BIG_STRIDE
    BY <1>1, <2>3, <2>5, <2>6
  <2>8. s[m] \in Number
    BY <1>1
  <2> QED  BY <1>2, <2>7, <2>8 DEF Together, Number, Diff, SPACE, BIG_STRIDE
<1> QED  BY <1>4, <1>5

(* The first part of MinimumPicked.                                        *)
LEMMA StepPicksLeast ==
  ASSUME StrideInv, Yield \/ Leave, NEW m \in Present', Least(m, Present')
  PROVE  Least(current', Present')
<1>1. TypeOK
  BY DEF StrideInv
<1>2. CASE Yield
  <2>1. PICK a : Ready(Present, a, stride) /\ Pick(Present, a, stride)
    BY <1>2, YieldReady
  <2>2. Present' = Present
    BY <1>1, <2>1, PickLaid
  <2>3. stride[current'] = stride[m]
    BY <1>1, <2>1, <2>2, PickIsLeast DEF Least
  <2> QED  BY <2>3 DEF Least
<1>3. CASE Leave
  <2>1. PICK s : /\ Ready(queue, ahead, s) /\ Pick(queue, ahead, s)
                 /\ \A x \in queue : s[x] = stride[x]
    BY <1>3, LeaveReady
  <2>2. Present' = queue
    BY <1>1, <2>1, PickLaid
  <2>3. m \in queue /\ \A x \in queue : Diff(s[x], s[m]) >= 0
    BY <2>1, <2>2 DEF Least
  <2>4. current' \in queue /\ s[current'] = s[m]
    BY <1>1, <2>1, <2>3, PickIsLeast
  <2>5. stride[current'] = stride[m]
    BY <2>1, <2>3, <2>4
  <2> QED  BY <2>5 DEF Least
<1> QED  BY <1>2, <1>3

(* The second.                                                             *)
LEMMA StepStaysTogether ==
  ASSUME StrideInv, [Next]_vars, Together(Present), Present' \subseteq Present
  PROVE  Together(Present)'
<1>1. TypeOK /\ queue \subseteq Proc /\ current \notin queue
  BY DEF StrideInv, TypeOK
<1>2. PICK b \in Number : \A x \in Present : Diff(stride[x], b) \in 0 .. BIG_STRIDE
  BY DEF Together, Number
<1>3. ASSUME NEW p \in Proc, Fork(p) \/ Wakeup(p)
      PROVE  FALSE
  BY <1>3 DEF Fork, Wakeup, Present
<1>4. CASE Yield
  BY <1>1, <1>2, <1>4, YieldReady, PickStaysTogether
<1>5. CASE Leave
  <2>1. PICK s : /\ Ready(queue, ahead, s) /\ Pick(queue, ahead, s)
                 /\ \A x \in queue : s[x] = stride[x]
    BY <1>5, LeaveReady
  <2>2. \A x \in queue : Diff(s[x], b) \in 0 .. BIG_STRIDE
    BY <1>2, <1>5, <2>1, LeaveReady
  <2> QED  BY <1>1, <2>1, <2>2, PickStaysTogether
<1>6. CASE UNCHANGED <<stride, queue, current>>
  BY <1>6 DEF Together, Present, Diff, SPACE, BIG_STRIDE
<1> QED  BY <1>3, <1>4, <1>5, <1>6 DEF Next, SetPriority, vars

(* default_sched.c picks "the element with the minimum value of stride"    *)
(* whenever one of the processes that are ready has it, for every width of *)
(* the strides, every priority and whoever enters late; and strides that   *)
(* lie together, among which there is a minimum, stay together.            *)
THEOREM MinimumIsPicked == Spec => MinimumPicked
<1>1. StrideInv /\ [Next]_vars
        => [(Yield \/ Leave) /\ (\E m \in Present' : Least(m, Present'))
              => Least(current', Present')]_vars
  BY StepPicksLeast
<1>2. StrideInv /\ [Next]_vars
        => [Together(Present) /\ Present' \subseteq Present => Together(Present)']_vars
  BY StepStaysTogether
<1> QED  BY <1>1, <1>2, StrideInvariance, PTL DEF Spec, MinimumPicked

-----------------------------------------------------------------------------
(* First fit: what is always true of the manager.  The free pages are      *)
(* those that page_init handed over and no caller holds; what callers hold *)
(* does not overlap; and inside a block that is out every page but the     *)
(* first has property 0, so that a part of it can be freed.                *)
Given == Pmm!PagesOf(handed)
RunIn(b) == b[1] .. b[1] + b[2] - 1
InBlocks == {p \in Given : \A b \in lent : p \notin RunIn(b)}
Inside(b) == b[1] + 1 .. b[1] + b[2] - 1

(* The blocks that are out, by their pages and the marks in them.          *)
LentExact(L, f) ==
  /\ \A b \in L : RunIn(b) \subseteq Given
  /\ \A b, c \in L : b # c => RunIn(b) \cap RunIn(c) = {}
  /\ \A b \in L : \A q \in Inside(b) : f[q] = 0

(* The list and its marks; a page that no caller holds is in the list.     *)
PmmInv ==
  /\ Pmm!TypeOK
  /\ Increasing(free_list)
  /\ nr_free = Len(free_list)
  /\ ToSet(free_list) = InBlocks
  /\ \A b \in lent : RunIn(b) \subseteq reserved
  /\ LentExact(lent, property)
  /\ Blocks(ToSet(free_list), property)

(* Blocks that page_init hands over are of pages, and those it handed over *)
(* before lie below with a gap.                                            *)
LEMMA UsableBlock ==
  ASSUME NEW k \in 0 .. Len(Usable) - 1, NEW base, NEW m, <<base, m>> = Usable[k + 1]
  PROVE  /\ base \in Pmm!Page /\ m \in 1 .. npage /\ base + m <= npage
         /\ Pmm!PagesOf(k + 1) = Pmm!PagesOf(k) \cup (base .. base + m - 1)
         /\ \A q \in Pmm!PagesOf(k) : q \in Nat /\ q < base - 1
<1>1. /\ npage \in Nat /\ Usable \in Seq((0 .. npage - 1) \X (1 .. npage))
      /\ \A i \in DOMAIN Usable : Usable[i][1] + Usable[i][2] <= npage
      /\ \A i, j \in DOMAIN Usable : i < j => Usable[i][1] + Usable[i][2] < Usable[j][1]
  BY KernelPartsAssumption DEF Pmm!FirstFitAssumption
<1>2. /\ Len(Usable) \in Nat /\ DOMAIN Usable = 1 .. Len(Usable) /\ k + 1 \in 1 .. Len(Usable)
      /\ \A i \in 1 .. Len(Usable) : Usable[i] \in (0 .. npage - 1) \X (1 .. npage)
  BY <1>1, LenProperties, ElementOfSeq
<1>3. Usable[k + 1][1] = base /\ Usable[k + 1][2] = m /\ Usable[k + 1] \in (0 .. npage - 1) \X (1 .. npage)
  BY <1>2
<1>4. base \in Pmm!Page /\ m \in 1 .. npage /\ base + m <= npage
  BY <1>1, <1>2, <1>3 DEF Pmm!Page
<1>5. Pmm!PagesOf(k + 1) = Pmm!PagesOf(k) \cup (base .. base + m - 1)
  <2> DEFINE R(i) == Usable[i][1] .. Usable[i][1] + Usable[i][2] - 1
  <2>1. 1 .. k + 1 = (1 .. k) \cup {k + 1}
    OBVIOUS
  <2>2. R(k + 1) = base .. base + m - 1
    BY <1>3
  <2>3. Pmm!PagesOf(k + 1) = UNION {R(i) : i \in 1 .. k + 1} /\ Pmm!PagesOf(k) = UNION {R(i) : i \in 1 .. k}
    BY DEF Pmm!PagesOf, Pmm!RunOf
  <2> HIDE DEF R
  <2> QED  BY <2>1, <2>2, <2>3
<1>6. ASSUME NEW q \in Pmm!PagesOf(k)
      PROVE  q \in Nat /\ q < base - 1
  <2>1. PICK i \in 1 .. k : q \in Usable[i][1] .. Usable[i][1] + Usable[i][2] - 1
    BY DEF Pmm!PagesOf, Pmm!RunOf
  <2>2. i \in 1 .. Len(Usable) /\ i < k + 1
    BY <1>2
  <2> DEFINE x == Usable[i][1]
             y == Usable[i][2]
  <2>3. x \in 0 .. npage - 1 /\ y \in 1 .. npage /\ x + y < base
    BY <1>1, <1>2, <1>3, <2>2
  <2>4. q \in x .. x + y - 1 /\ base \in 0 .. npage - 1
    BY <1>2, <1>3, <2>1
  <2> HIDE DEF x, y
  <2>5. q \in Nat /\ q <= x + y - 1 /\ x \in Nat /\ y \in Nat /\ base \in Nat
    BY <1>1, <2>3, <2>4
  <2> QED  BY <2>3, <2>5
<1> QED  BY <1>4, <1>5, <1>6

(* What has been handed over is usable, and what is usable is a page.      *)
LEMMA GivenPages ==
  ASSUME NEW k \in 0 .. Len(Usable)
  PROVE  Pmm!PagesOf(k) \subseteq Pmm!Pages /\ Pmm!PagesOf(k) \subseteq Pmm!Page
<1>1. /\ npage \in Nat /\ Usable \in Seq((0 .. npage - 1) \X (1 .. npage))
      /\ \A i \in DOMAIN Usable : Usable[i][1] + Usable[i][2] <= npage
  BY KernelPartsAssumption DEF Pmm!FirstFitAssumption
<1>2. /\ Len(Usable) \in Nat /\ DOMAIN Usable = 1 .. Len(Usable)
      /\ \A i \in 1 .. Len(Usable) : Usable[i] \in (0 .. npage - 1) \X (1 .. npage)
  BY <1>1, LenProperties, ElementOfSeq
<1>3. ASSUME NEW q \in Pmm!PagesOf(k)
      PROVE  q \in Pmm!Pages /\ q \in Pmm!Page
  <2>1. PICK i \in 1 .. k : q \in Usable[i][1] .. Usable[i][1] + Usable[i][2] - 1
    BY DEF Pmm!PagesOf, Pmm!RunOf
  <2>2. i \in 1 .. Len(Usable)
    BY <1>2
  <2> DEFINE x == Usable[i][1]
             y == Usable[i][2]
  <2>3. x \in 0 .. npage - 1 /\ y \in 1 .. npage /\ x + y <= npage /\ q \in x .. x + y - 1
    BY <1>1, <1>2, <2>1, <2>2
  <2>4. q \in Pmm!Pages
    BY <2>1, <2>2 DEF Pmm!PagesOf, Pmm!RunOf, Pmm!Pages
  <2> HIDE DEF x, y
  <2>5. q \in 0 .. npage - 1
    <3>1. x \in Nat /\ y \in Nat /\ npage \in Nat /\ q \in Nat
      BY <1>1, <2>3
    <3>2. q <= x + y - 1
      BY <2>3, <3>1
    <3> QED  BY <2>3, <3>1, <3>2
  <2> QED  BY <2>4, <2>5 DEF Pmm!Page
<1> QED  BY <1>3

(* The usable pages are numbers.                                           *)
LEMMA UsablePages ==
  ASSUME NEW q \in Pmm!Pages
  PROVE  q \in Nat
<1>1. npage \in Nat /\ Len(Usable) \in Nat
  BY KernelPartsAssumption, LenProperties DEF Pmm!FirstFitAssumption
<1>2. Len(Usable) \in 0 .. Len(Usable)
  BY <1>1
<1>3. Pmm!PagesOf(Len(Usable)) \subseteq Pmm!Page
  BY <1>2, GivenPages
<1>4. q \in Pmm!Page
  BY <1>3 DEF Pmm!Pages
<1> QED  BY <1>1, <1>4 DEF Pmm!Page

(* The free pages are the list's, and numbers.                             *)
LEMMA PmmFacts ==
  ASSUME PmmInv
  PROVE  /\ Pmm!Free = ToSet(free_list)
         /\ free_list \in Seq(Nat) /\ Len(free_list) \in Nat /\ DOMAIN free_list = 1 .. Len(free_list)
         /\ npage \in Nat /\ NoPage \notin Nat
         /\ ToSet(free_list) \in SUBSET Nat
         /\ \A p \in ToSet(free_list) : p \in Pmm!Page /\ property[p] \in 0 .. npage
         /\ \A i \in 1 .. Len(free_list) : free_list[i] \in ToSet(free_list)
         /\ \A p \in ToSet(free_list) : \E i \in 1 .. Len(free_list) : p = free_list[i]
<1>1. npage \in Nat /\ NoPage \notin Nat
  BY KernelPartsAssumption DEF Pmm!FirstFitAssumption
<1>2. Pmm!Free = ToSet(free_list)
  BY DEF Pmm!Free, Pmm!ToSet, ToSet
<1>3. free_list \in Seq(Pmm!Page) /\ property \in [Pmm!Page -> 0 .. npage]
  BY DEF PmmInv, Pmm!TypeOK
<1>4. Pmm!Page \subseteq Nat
  BY <1>1 DEF Pmm!Page
<1>5. /\ Len(free_list) \in Nat /\ DOMAIN free_list = 1 .. Len(free_list)
      /\ \A i \in 1 .. Len(free_list) : free_list[i] \in Pmm!Page
  BY <1>3, LenProperties, ElementOfSeq
<1>6. /\ \A i \in 1 .. Len(free_list) : free_list[i] \in ToSet(free_list)
      /\ \A p \in ToSet(free_list) : \E i \in 1 .. Len(free_list) : p = free_list[i]
  BY <1>5 DEF ToSet
<1>7. \A p \in ToSet(free_list) : p \in Pmm!Page
  BY <1>5, <1>6
<1>8. free_list \in [1 .. Len(free_list) -> Nat]
  BY <1>3, <1>4, <1>5, LenProperties
<1>9. free_list \in Seq(Nat)
  BY <1>5, <1>8, IsASeq
<1> QED  BY <1>1, <1>2, <1>3, <1>4, <1>5, <1>6, <1>7, <1>9

-----------------------------------------------------------------------------
(* First fit: default_alloc_pages.                                         *)
LEMMA PmmMin ==
  ASSUME NEW I \in SUBSET Nat, I # {}
  PROVE  Pmm!Min(I) \in I /\ \A j \in I : Pmm!Min(I) <= j
<1>1. Pmm!Min(I) = Min(I)
  BY DEF Pmm!Min, Min
<1> QED  BY <1>1, MinProperties

(* The search finds the first page whose block is long enough, if any.     *)
LEMMA FirstFound ==
  ASSUME PmmInv, NEW n \in Nat, NEW k, k = Pmm!FirstOf(n)
  PROVE  /\ k = 0 => \A i \in 1 .. Len(free_list) : ~ (property[free_list[i]] >= n)
         /\ k # 0 => /\ k \in 1 .. Len(free_list)
                     /\ property[free_list[k]] >= n
                     /\ \A i \in 1 .. Len(free_list) : i < k => ~ (property[free_list[i]] >= n)
<1> DEFINE I == {i \in 1 .. Len(free_list) : property[free_list[i]] >= n}
<1>1. k = IF I # {} THEN Pmm!Min(I) ELSE 0
  BY DEF Pmm!FirstOf, Pmm!SelectInSeq
<1>2. Len(free_list) \in Nat
  BY PmmFacts
<1>3. I \in SUBSET Nat /\ 0 \notin I
  BY <1>2
<1>4. CASE I = {}
  BY <1>1, <1>4
<1>5. CASE I # {}
  <2>1. k = Pmm!Min(I) /\ k \in I /\ \A j \in I : k <= j
    <3> HIDE DEF I
    <3> QED  BY <1>1, <1>3, <1>5, PmmMin
  <2>2. \A i \in 1 .. Len(free_list) : i < k => i \notin I
    BY <1>2, <2>1
  <2> QED  BY <1>3, <2>1, <2>2
<1> QED  BY <1>4, <1>5

(* The step takes the first n pages of the block at p, ...                 *)
TakesRun(p, n) ==
  /\ p \in ToSet(free_list) /\ p - 1 \notin ToSet(free_list)
  /\ property[p] >= n /\ p .. p + n - 1 \subseteq ToSet(free_list)
  /\ free_list' \in Seq(Pmm!Page) /\ Increasing(free_list')
  /\ ToSet(free_list') = ToSet(free_list) \ (p .. p + n - 1)
  /\ nr_free' = Len(free_list')
  /\ property' = IF property[p] > n THEN [property EXCEPT ![p + n] = property[p] - n] ELSE property
  /\ reserved' = reserved \cup (p .. p + n - 1)
  /\ valid' = valid \ (p .. p + n - 1)
  /\ lent' = lent \cup {<<p, n>>} /\ result' = p /\ handed' = handed

(* ... the lowest page where n pages are free.                             *)
LEMMA AllocTakesRun ==
  ASSUME PmmInv, NEW n \in 1 .. npage, Pmm!AllocPages(n)
  PROVE  \E p \in Pmm!Page :
           TakesRun(p, n) /\ \A q \in ToSet(free_list) : q .. q + n - 1 \subseteq ToSet(free_list) => p <= q
<1> DEFINE F == ToSet(free_list)
           k == Pmm!FirstOf(n)
           p == free_list[k]
           t == Cut(free_list, k, n)
<1>1. /\ k # 0 /\ free_list' = t
      /\ property' = Pmm!Shrink(p, Pmm!At(k + n), n)
      /\ reserved' = reserved \cup Pmm!Taken(k, n)
      /\ valid' = valid \ Pmm!Taken(k, n)
      /\ nr_free' = nr_free - n /\ result' = p
      /\ lent' = lent \cup {<<p, n>>} /\ handed' = handed
  BY DEF Pmm!AllocPages, Cut
<1> HIDE DEF t
<1>2. /\ free_list \in Seq(Nat) /\ Len(free_list) \in Nat /\ npage \in Nat
      /\ F \in SUBSET Nat /\ \A i \in 1 .. Len(free_list) : free_list[i] \in F
      /\ \A x \in F : x \in Pmm!Page /\ property[x] \in 0 .. npage
      /\ \A x \in F : \E i \in 1 .. Len(free_list) : x = free_list[i]
  BY PmmFacts
<1>3. n \in Nat \ {0} /\ n \in Nat
  BY <1>2
<1>4. Increasing(free_list) /\ Blocks(F, property) /\ nr_free = Len(free_list) /\ free_list \in Seq(Pmm!Page)
  BY DEF PmmInv, Pmm!TypeOK
<1>5. /\ k \in 1 .. Len(free_list) /\ property[p] >= n
      /\ \A i \in 1 .. Len(free_list) : i < k => ~ (property[free_list[i]] >= n)
  BY <1>1, <1>3, FirstFound
<1> HIDE DEF k
<1>6. p \in F /\ p \in Nat /\ p \in Pmm!Page /\ property[p] \in Nat
  BY <1>2, <1>5
<1> HIDE DEF p, F
<1>7. p - 1 \notin F
  BY <1>3, <1>4, <1>5, <1>6 DEF Blocks
<1>8. p .. p + property[p] - 1 \subseteq F /\ p + property[p] \notin F
  BY <1>4, <1>6, <1>7 DEF Blocks
<1>9. \A i \in 0 .. property[p] - 1 : k + i \in 1 .. Len(free_list) /\ free_list[k + i] = p + i
  <2>1. free_list[k] = p
    BY DEF p
  <2>2. Covers(free_list, free_list[k], free_list[k] + property[p] - 1)
    BY <1>2, <1>8, <2>1 DEF Covers
  <2>3. RunAt(free_list, k, free_list[k], property[p])
    BY <1>2, <1>4, <1>5, <1>6, <2>2, Consecutive
  <2> QED  BY <2>1, <2>3 DEF RunAt
<1>10. k + n - 1 <= Len(free_list)
  <2>1. n - 1 \in 0 .. property[p] - 1
    BY <1>3, <1>5, <1>6
  <2>2. k + (n - 1) <= Len(free_list)
    BY <1>2, <1>9, <2>1
  <2> QED  BY <1>2, <1>3, <1>5, <2>2
<1>11. Pmm!Taken(k, n) = p .. p + n - 1
  <2>1. ASSUME NEW x \in p .. p + n - 1
        PROVE  x \in Pmm!Taken(k, n)
    <3>1. x - p \in 0 .. property[p] - 1 /\ k + (x - p) \in k .. k + n - 1 /\ p + (x - p) = x
      BY <1>3, <1>5, <1>6
    <3>2. free_list[k + (x - p)] = x
      BY <1>9, <3>1
    <3> QED  BY <3>1, <3>2 DEF Pmm!Taken, Pmm!RunOf
  <2>2. ASSUME NEW i \in k .. k + n - 1
        PROVE  free_list[i] \in p .. p + n - 1
    <3>1. i - k \in 0 .. property[p] - 1 /\ k + (i - k) = i /\ i - k <= n - 1
      BY <1>3, <1>5, <1>6
    <3>2. free_list[i] = p + (i - k)
      BY <1>9, <3>1
    <3> QED  BY <1>3, <1>6, <3>1, <3>2
  <2> QED  BY <2>1, <2>2 DEF Pmm!Taken, Pmm!RunOf
<1>12. n \in 1 .. Len(free_list)
  BY <1>2, <1>3, <1>5, <1>10
<1>13. t \in Seq(Pmm!Page) /\ IsCut(free_list, k, n, t) /\ Len(t) = Len(free_list) - n
  <2>1. t \in Seq(Pmm!Page) /\ IsCut(free_list, k, n, t)
    BY <1>4, <1>5, <1>10, <1>12, CutProperties DEF t
  <2> QED  BY <2>1 DEF IsCut
<1>14. Increasing(t) /\ ToSet(t) = F \ Values(free_list, k, n)
  <2>1. t \in Seq(Nat)
    BY <1>2, <1>4, <1>5, <1>10, <1>12, CutProperties DEF t
  <2> QED  BY <1>2, <1>4, <1>5, <1>10, <1>12, <1>13, <2>1, CutOrder DEF F
<1>15. ToSet(t) = F \ (p .. p + n - 1)
  <2>1. Values(free_list, k, n) = Pmm!Taken(k, n)
    BY DEF Values, Pmm!Taken, Pmm!RunOf
  <2> QED  BY <1>11, <1>14, <2>1
<1>16. property' = IF property[p] > n THEN [property EXCEPT ![p + n] = property[p] - n] ELSE property
  <2>1. CASE property[p] > n
    <3>1. n \in 0 .. property[p] - 1
      BY <1>3, <1>6, <2>1
    <3>2. k + n \in 1 .. Len(free_list) /\ free_list[k + n] = p + n
      BY <1>9, <3>1
    <3>3. Pmm!At(k + n) = p + n
      <4>1. k + n \in DOMAIN free_list
        BY <3>2, PmmFacts
      <4> QED  BY <3>2, <4>1 DEF Pmm!At
    <3> QED  BY <1>1, <2>1, <3>3 DEF Pmm!Shrink
  <2>2. CASE ~ (property[p] > n)
    BY <1>1, <2>2 DEF Pmm!Shrink
  <2> QED  BY <2>1, <2>2
<1>17. nr_free' = Len(free_list')
  BY <1>1, <1>4, <1>13
<1>18. p .. p + n - 1 \subseteq F
  BY <1>3, <1>5, <1>6, <1>8
<1>19. TakesRun(p, n)
  BY <1>1, <1>5, <1>6, <1>7, <1>11, <1>13, <1>14, <1>15, <1>16, <1>17, <1>18 DEF TakesRun, F
<1>20. ASSUME NEW q \in F, q .. q + n - 1 \subseteq F
       PROVE  p <= q
  <2>1. PICK h \in F : h <= q /\ property[h] \in Nat /\ property[h] >= n
    BY <1>2, <1>3, <1>4, <1>20, RunInBlock DEF F
  <2>2. PICK i \in 1 .. Len(free_list) : h = free_list[i]
    BY <1>2
  <2>3. i >= k
    BY <1>2, <1>5, <2>1, <2>2
  <2>4. free_list[k] <= free_list[i]
    <3>1. CASE i = k
      BY <1>2, <1>5, <1>6, <3>1 DEF p
    <3>2. CASE i # k
      <4>1. k < i /\ k \in DOMAIN free_list /\ i \in DOMAIN free_list
        BY <1>2, <1>5, <2>3, <3>2, PmmFacts
      <4>2. free_list[k] < free_list[i] /\ free_list[k] \in Nat /\ free_list[i] \in Nat
        BY <1>2, <1>4, <1>5, <4>1 DEF Increasing
      <4> QED  BY <4>2
    <3> QED  BY <3>1, <3>2
  <2>5. q \in Nat /\ h \in Nat
    BY <1>2
  <2> QED  BY <1>6, <2>1, <2>2, <2>4, <2>5 DEF p
<1> QED  BY <1>6, <1>19, <1>20 DEF F

(* nr_free is in range, whatever the list has become.                      *)
LEMMA CountInRange ==
  ASSUME NEW s \in Seq(Pmm!Page), Increasing(s)
  PROVE  Len(s) \in 0 .. npage
<1>1. npage \in Nat
  BY KernelPartsAssumption DEF Pmm!FirstFitAssumption
<1> QED  BY <1>1, IncreasingLength DEF Pmm!Page

(* default_alloc_pages: what it takes is lent, and what remains of the     *)
(* block is one.                                                           *)
LEMMA AllocKeepsInv ==
  ASSUME PmmInv, NEW n \in 1 .. npage, NEW p \in Pmm!Page, TakesRun(p, n)
  PROVE  PmmInv'
<1> DEFINE F == ToSet(free_list)
           R == p .. p + n - 1
<1>1. /\ npage \in Nat /\ F \in SUBSET Nat
      /\ \A x \in F : x \in Pmm!Page /\ property[x] \in 0 .. npage
  BY PmmFacts
<1>2. /\ p \in F /\ p - 1 \notin F /\ property[p] >= n /\ R \subseteq F
      /\ ToSet(free_list') = F \ R
      /\ property' = IF property[p] > n THEN [property EXCEPT ![p + n] = property[p] - n] ELSE property
      /\ lent' = lent \cup {<<p, n>>} /\ handed' = handed
  BY DEF TakesRun
<1>3. /\ F = InBlocks /\ LentExact(lent, property) /\ Blocks(F, property)
      /\ property \in [Pmm!Page -> 0 .. npage]
      /\ \A b \in lent : RunIn(b) \subseteq reserved
  BY DEF PmmInv, Pmm!TypeOK
<1>4. n \in Nat \ {0} /\ p \in Nat /\ property[p] \in 0 .. npage
  BY <1>1, <1>2
<1>5. RunIn(<<p, n>>) = R /\ Inside(<<p, n>>) = p + 1 .. p + n - 1
  BY DEF RunIn, Inside
<1>6. Given' = Given
  BY <1>2 DEF Given, Pmm!PagesOf
<1>7. property[p] > n => p + n \in F
  BY <1>1, <1>2, <1>3, <1>4 DEF Blocks
<1>8. \A x \in Pmm!Page : property'[x] = IF property[p] > n /\ x = p + n THEN property[p] - n ELSE property[x]
  BY <1>2, <1>3
<1>9. property' \in [Pmm!Page -> 0 .. npage]
  <2>1. property[p] > n => property[p] - n \in 0 .. npage
    BY <1>1, <1>4
  <2> QED  BY <1>2, <1>3, <2>1
<1> HIDE DEF F, R
<1>10. Blocks(F \ R, property')
  <2>1. Shortened(F, property, p, n, property')
    BY <1>1, <1>8 DEF Shortened
  <2> DEFINE g == property'
  <2>2. Shortened(F, property, p, n, g)
    BY <2>1
  <2> HIDE DEF g
  <2>3. Blocks(F \ (p .. p + n - 1), g)
    BY <1>1, <1>2, <1>3, <1>4, <2>2, BlocksTake
  <2> QED  BY <2>3 DEF g, R
<1>11. Pmm!TypeOK'
  <2>1. nr_free' \in 0 .. npage /\ free_list' \in Seq(Pmm!Page)
    BY CountInRange DEF TakesRun
  <2>2. reserved' \subseteq Pmm!Page /\ valid' \subseteq Pmm!Page
    BY <1>1, <1>2 DEF TakesRun, PmmInv, Pmm!TypeOK, R
  <2>3. lent' \subseteq Pmm!Page \X (1 .. npage) /\ result' \in Pmm!Page \cup {NoPage}
    BY DEF TakesRun, PmmInv, Pmm!TypeOK
  <2>4. handed' \in 0 .. Len(Usable)
    BY <1>2 DEF PmmInv, Pmm!TypeOK
  <2> QED  BY <1>9, <2>1, <2>2, <2>3, <2>4 DEF Pmm!TypeOK, Pmm!Page
<1>12. InBlocks' = F \ R
  <2>1. InBlocks' = {x \in Given : \A b \in lent' : x \notin RunIn(b)}
    BY <1>6 DEF InBlocks, RunIn
  <2>2. \A x : (\A b \in lent' : x \notin RunIn(b)) <=> x \notin R /\ \A b \in lent : x \notin RunIn(b)
    BY <1>2, <1>5
  <2> QED  BY <1>3, <2>1, <2>2 DEF InBlocks
<1>13. \A b \in lent' : RunIn(b) \subseteq Given /\ RunIn(b) \subseteq reserved'
  <2>1. R \subseteq Given
    BY <1>2, <1>3 DEF InBlocks
  <2>2. reserved' = reserved \cup R
    BY DEF TakesRun, R
  <2> QED  BY <1>2, <1>3, <1>5, <2>1, <2>2 DEF LentExact
<1>14. \A b, c \in lent' : b # c => RunIn(b) \cap RunIn(c) = {}
  <2>1. \A b \in lent : RunIn(b) \cap R = {}
    BY <1>2, <1>3 DEF InBlocks
  <2> QED  BY <1>2, <1>3, <1>5, <2>1 DEF LentExact
<1>15. ASSUME NEW b \in lent', NEW q \in Inside(b)
       PROVE  property'[q] = 0
  <2>1. CASE b = <<p, n>>
    <3>1. q \in p + 1 .. p + n - 1
      BY <1>5, <2>1
    <3>2. q \in F /\ q - 1 \in F /\ q # p + n
      BY <1>2, <1>4, <3>1 DEF R
    <3>3. property[q] = 0
      BY <1>3, <3>2 DEF Blocks
    <3> QED  BY <1>1, <1>8, <3>2, <3>3
  <2>2. CASE b \in lent
    <3>1. property[q] = 0
      BY <1>3, <2>2 DEF LentExact
    <3>2. q \in RunIn(b)
      <4>1. b \in Pmm!Page \X (1 .. npage)
        BY <2>2 DEF PmmInv, Pmm!TypeOK
      <4>2. b[1] \in Nat /\ b[2] \in Nat
        BY <1>1, <4>1 DEF Pmm!Page
      <4> QED  BY <4>2 DEF RunIn, Inside
    <3>3. q \notin F
      BY <1>3, <2>2, <3>2 DEF InBlocks
    <3>4. q \in Pmm!Page
      <4>1. q \in Given
        BY <1>3, <2>2, <3>2 DEF LentExact
      <4> QED  BY <4>1, GivenPages DEF Given, PmmInv, Pmm!TypeOK
    <3> QED  BY <1>7, <1>8, <3>1, <3>3, <3>4
  <2> QED  BY <1>2, <2>1, <2>2
<1>16. LentExact(lent, property)'
  BY <1>6, <1>13, <1>14, <1>15 DEF LentExact, RunIn, Inside
<1>17. \A b \in lent' : (RunIn(b) \subseteq reserved)'
  BY <1>13 DEF RunIn
<1>18. Increasing(free_list') /\ nr_free' = Len(free_list')
  BY DEF TakesRun
<1>19. Increasing(free_list)' /\ ToSet(free_list)' = InBlocks' /\ Blocks(ToSet(free_list), property)'
  BY <1>2, <1>10, <1>12, <1>18 DEF Increasing, ToSet, Blocks
<1> QED  BY <1>11, <1>16, <1>17, <1>18, <1>19 DEF PmmInv, RunIn

-----------------------------------------------------------------------------
(* First fit: default_free_pages and default_init_memmap.                  *)

(* A run of pages comes back: it is in its place in the list and its       *)
(* blocks are joined; no property of a page that is out changes.           *)
GivesRun(base, m) ==
  /\ free_list' \in Seq(Pmm!Page) /\ Increasing(free_list')
  /\ ToSet(free_list') = ToSet(free_list) \cup (base .. base + m - 1)
  /\ nr_free' = Len(free_list')
  /\ property' \in [Pmm!Page -> 0 .. npage]
  /\ Blocks(ToSet(free_list'), property')
  /\ \A q \in Pmm!Page : q \notin ToSet(free_list') => property'[q] = property[q]

(* The place of the run in the list, and its neighbours there.             *)
LEMMA PlaceFound ==
  ASSUME PmmInv, NEW base \in Nat, NEW m \in Nat \ {0}, Outside(ToSet(free_list), base, m),
         NEW k, k = Pmm!PlaceOf(base)
  PROVE  /\ k \in 1 .. Len(free_list) + 1
         /\ Fits(free_list, k, base, m)
         /\ Pmm!At(k) = base + m <=> base + m \in ToSet(free_list)
         /\ base - 1 \in ToSet(free_list) =>
              k - 1 \in 1 .. Len(free_list) /\ free_list[k - 1] = base - 1 /\ k > 1 /\ Pmm!At(k - 1) = base - 1
         /\ base - 1 \notin ToSet(free_list) => ~ (k > 1 /\ Pmm!At(k - 1) = base - 1)
<1> DEFINE F == ToSet(free_list)
           I == {i \in 1 .. Len(free_list) : free_list[i] > base}
           x == Pmm!SelectInSeq(free_list, LAMBDA p : p > base)
<1>1. /\ free_list \in Seq(Nat) /\ Len(free_list) \in Nat /\ DOMAIN free_list = 1 .. Len(free_list)
      /\ \A i \in 1 .. Len(free_list) : free_list[i] \in F
      /\ NoPage \notin Nat
      /\ \A p \in F : \E i \in 1 .. Len(free_list) : p = free_list[i]
  BY PmmFacts
<1>2. Increasing(free_list)
  BY DEF PmmInv
<1>3. x = IF I # {} THEN Pmm!Min(I) ELSE 0
  BY DEF Pmm!SelectInSeq
<1>4. k = IF x = 0 THEN Len(free_list) + 1 ELSE x
  BY DEF Pmm!PlaceOf
<1>5. I \in SUBSET Nat /\ 0 \notin I
  BY <1>1
<1> HIDE DEF x
<1>6. k \in 1 .. Len(free_list) + 1 /\ IsPlace(free_list, base, k)
  <2>1. CASE I = {}
    <3>1. k = Len(free_list) + 1 /\ k \notin 1 .. Len(free_list) /\ k \in 1 .. Len(free_list) + 1
      BY <1>1, <1>3, <1>4, <2>1
    <3>2. \A i \in 1 .. k - 1 : i \in 1 .. Len(free_list)
      BY <1>1, <3>1
    <3>3. \A i \in 1 .. Len(free_list) : ~ (free_list[i] > base)
      BY <2>1
    <3> QED  BY <3>1, <3>2, <3>3 DEF IsPlace
  <2>2. CASE I # {}
    <3>1. x = Pmm!Min(I) /\ Pmm!Min(I) \in I /\ \A j \in I : Pmm!Min(I) <= j
      <4> HIDE DEF I
      <4> QED  BY <1>3, <1>5, <2>2, PmmMin
    <3>2. k \in I /\ \A j \in I : k <= j
      BY <1>4, <1>5, <3>1
    <3>3. k \in 1 .. Len(free_list) /\ free_list[k] > base
      BY <3>2
    <3>4. ASSUME NEW i \in 1 .. k - 1
          PROVE  ~ (free_list[i] > base)
      <4>1. i \in 1 .. Len(free_list) /\ ~ (k <= i)
        BY <1>1, <3>3
      <4> QED  BY <3>2, <4>1
    <3>5. k \in 1 .. Len(free_list) + 1
      BY <1>1, <3>3
    <3> QED  BY <3>3, <3>4, <3>5 DEF IsPlace
  <2> QED  BY <2>1, <2>2
<1> HIDE DEF I
<1>8. /\ Fits(free_list, k, base, m)
      /\ \A i \in 1 .. Len(free_list) : free_list[i] = base + m => k \in 1 .. Len(free_list) /\ free_list[k] = base + m
      /\ \A i \in 1 .. Len(free_list) : free_list[i] = base - 1 => k - 1 \in 1 .. Len(free_list) /\ free_list[k - 1] = base - 1
  <2>1. Fits(free_list, k, base, m) /\ NextTo(free_list, k, base, m)
    BY <1>1, <1>2, <1>6, PlaceFits
  <2> QED  BY <2>1 DEF NextTo
<1> HIDE DEF F
<1>9. Pmm!At(k) = base + m <=> base + m \in F
  <2>1. base + m \in Nat
    OBVIOUS
  <2>2. ASSUME base + m \in F
        PROVE  k \in 1 .. Len(free_list) /\ free_list[k] = base + m
    BY <1>1, <1>8, <2>2
  <2>3. ASSUME Pmm!At(k) = base + m
        PROVE  base + m \in F
    <3>1. k \in DOMAIN free_list /\ free_list[k] = base + m
      BY <1>1, <2>1, <2>3 DEF Pmm!At
    <3> QED  BY <1>1, <3>1
  <2> QED  BY <1>1, <2>2, <2>3 DEF Pmm!At
<1>10. ASSUME base - 1 \in F
       PROVE  k - 1 \in 1 .. Len(free_list) /\ free_list[k - 1] = base - 1 /\ k > 1 /\ Pmm!At(k - 1) = base - 1
  <2>1. k - 1 \in 1 .. Len(free_list) /\ free_list[k - 1] = base - 1
    BY <1>1, <1>8, <1>10
  <2>2. k > 1
    BY <1>1, <1>6, <2>1
  <2> QED  BY <1>1, <2>1, <2>2 DEF Pmm!At
<1>11. ASSUME k > 1, Pmm!At(k - 1) = base - 1
       PROVE  base - 1 \in F
  <2>1. k - 1 \in 1 .. Len(free_list)
    BY <1>1, <1>6, <1>11
  <2>2. Pmm!At(k - 1) = free_list[k - 1]
    BY <1>1, <2>1 DEF Pmm!At
  <2> QED  BY <1>1, <1>11, <2>1, <2>2
<1> QED  BY <1>6, <1>8, <1>9, <1>10, <1>11 DEF F

(* What the search backwards from a place finds.                           *)
SearchBack(s, l, g) == Pmm!SelectLastInSubSeq(s, 1, l, LAMBDA p : g[p] # 0)

(* It is the last page up to there with a mark, if there is one.           *)
LEMMA LastMarkFound ==
  ASSUME NEW s, NEW l \in Nat, NEW g, NEW j, LastMark(s, l, g, j)
  PROVE  SearchBack(s, l, g) = j
<1> DEFINE I == {i \in 1 .. l : g[s[i]] # 0}
<1>1. j \in I /\ \A i \in I : i <= j /\ i \in Nat
  BY DEF LastMark
<1>2. SearchBack(s, l, g) = IF I # {} THEN Pmm!Max(I) ELSE 0
  BY DEF SearchBack, Pmm!SelectLastInSubSeq
<1> HIDE DEF I
<1>3. ASSUME NEW y \in I, \A i \in I : y >= i
      PROVE  y = j
  <2>1. y \in Nat /\ j \in Nat /\ y <= j /\ y >= j
    BY <1>1, <1>3
  <2> QED  BY <2>1
<1>4. \A i \in I : j >= i
  BY <1>1
<1>5. Pmm!Max(I) = j
  BY <1>1, <1>3, <1>4 DEF Pmm!Max
<1> QED  BY <1>1, <1>2, <1>5

(* The marks after a run of pages inside a lent block came back.           *)
LEMMA MarksJoined ==
  ASSUME PmmInv, NEW base \in Pmm!Page, NEW m \in 1 .. npage, base + m <= npage, Outside(ToSet(free_list), base, m),
         NEW k, k = Pmm!PlaceOf(base),
         NEW up, up = Pmm!JoinUp([property EXCEPT ![base] = m], base, m, k),
         NEW g, g = Pmm!JoinDown(up, base, k)
  PROVE  \E bottom \in Nat : /\ BottomOf(ToSet(free_list), property, base, bottom)
                             /\ JoinedMarks(npage, ToSet(free_list), property, base, m, bottom, g)
<1> DEFINE F == ToSet(free_list)
           fresh == [property EXCEPT ![base] = m]
           above == IF base + m \in F THEN property[base + m] ELSE 0
<1>1. /\ npage \in Nat /\ F \in SUBSET Nat /\ Len(free_list) \in Nat /\ free_list \in Seq(Nat)
      /\ \A p \in F : p \in Pmm!Page
      /\ \A i \in 1 .. Len(free_list) : free_list[i] \in F
  BY PmmFacts
<1>2. property \in [Pmm!Page -> 0 .. npage] /\ Blocks(F, property) /\ Increasing(free_list)
  BY DEF PmmInv, Pmm!TypeOK
<1>3. base \in Nat /\ base \in 0 .. npage - 1 /\ m \in Nat \ {0} /\ Pmm!Page = 0 .. npage - 1
  BY <1>1 DEF Pmm!Page
<1>4. /\ k \in 1 .. Len(free_list) + 1
      /\ Fits(free_list, k, base, m)
      /\ Pmm!At(k) = base + m <=> base + m \in F
      /\ base - 1 \in F => k - 1 \in 1 .. Len(free_list) /\ free_list[k - 1] = base - 1 /\ k > 1 /\ Pmm!At(k - 1) = base - 1
      /\ base - 1 \notin F => ~ (k > 1 /\ Pmm!At(k - 1) = base - 1)
  BY <1>3, PlaceFound
<1>5. base \notin F
  <2>1. base \in base .. base + m - 1
    BY <1>3
  <2> QED  BY <2>1 DEF Outside
<1>6. \A q \in 0 .. npage - 1 : property[q] \in Nat
  BY <1>1, <1>2, <1>3
<1>7. fresh \in [0 .. npage - 1 -> Nat] /\ fresh[base] = m /\ \A q \in 0 .. npage - 1 : q # base => fresh[q] = property[q]
  BY <1>2, <1>3, <1>6
<1> HIDE DEF F, fresh
<1>8. above \in Nat
  BY <1>1, <1>3, <1>6
<1>9. /\ up \in [0 .. npage - 1 -> Nat] /\ up[base] = m + above
      /\ base + m \in F => up[base + m] = 0
      /\ \A q \in 0 .. npage - 1 : q # base /\ (q = base + m => q \notin F) => up[q] = property[q]
  <2>1. CASE base + m \in F
    <3> DEFINE t == base + m
    <3>1. t \in 0 .. npage - 1 /\ t # base
      BY <1>1, <1>3, <2>1
    <3>2. up = [fresh EXCEPT ![base] = m + fresh[t], ![t] = 0]
      BY <1>4, <2>1 DEF Pmm!JoinUp, fresh
    <3>3. above = property[t] /\ fresh[t] = property[t] /\ m + fresh[t] \in Nat
      BY <1>3, <1>6, <1>7, <2>1, <3>1
    <3>4. t = base + m
      OBVIOUS
    <3> DEFINE v == m + fresh[t]
    <3>5. up = [fresh EXCEPT ![base] = v, ![t] = 0] /\ v = m + above /\ v \in Nat
      BY <3>2, <3>3
    <3> HIDE DEF t, above, v
    <3>6. /\ up \in [0 .. npage - 1 -> Nat] /\ up[base] = v /\ up[t] = 0
          /\ \A q \in 0 .. npage - 1 : q # base /\ q # t => up[q] = fresh[q]
      <4> DEFINE D == 0 .. npage - 1
      <4>1. 0 \in Nat
        OBVIOUS
      <4>2. fresh \in [D -> Nat] /\ base \in D /\ t \in D /\ base # t
        BY <1>3, <1>7, <3>1
      <4>3. up = [fresh EXCEPT ![base] = v, ![t] = 0] /\ v \in Nat
        BY <3>5
      <4>4. /\ up \in [D -> Nat] /\ up[base] = v /\ up[t] = 0
            /\ \A q \in D : q # base /\ q # t => up[q] = fresh[q]
        <5> HIDE DEF D
        <5> QED  BY ONLY <4>1, <4>2, <4>3
      <4> QED  BY <4>4
    <3> QED  BY <1>7, <2>1, <3>4, <3>5, <3>6
  <2>2. CASE base + m \notin F
    <3>1. up = fresh
      BY <1>4, <2>2 DEF Pmm!JoinUp, fresh
    <3>2. above = 0 /\ m + 0 = m
      BY <1>3, <2>2
    <3> QED  BY <1>7, <2>2, <3>1, <3>2
  <2> QED  BY <2>1, <2>2
<1>10. CASE base - 1 \in F
  <2> DEFINE l == k - 1
  <2>1. /\ l \in 1 .. Len(free_list) /\ free_list[l] = base - 1 /\ k > 1 /\ Pmm!At(l) = base - 1 /\ l \in Nat
        /\ \A i \in 1 .. l : i \in 1 .. Len(free_list) /\ free_list[i] < base
    BY <1>1, <1>4, <1>10 DEF Fits
  <2>2. l = k - 1
    OBVIOUS
  <2> HIDE DEF l
  <2>3. PICK j \in 1 .. l : /\ LastMark(free_list, l, property, j)
                            /\ property[free_list[j]] \in Nat \ {0} /\ free_list[j] + property[free_list[j]] = base
                            /\ free_list[j] < base
                            /\ free_list[j] .. base - 1 \subseteq F /\ free_list[j] - 1 \notin F
    BY <1>1, <1>2, <1>3, <1>5, <2>1, BlockBelow DEF F
  <2>4. ASSUME NEW i \in 1 .. l
        PROVE  /\ free_list[i] \in 0 .. npage - 1 /\ free_list[i] # base
               /\ up[free_list[i]] = property[free_list[i]]
    <3>1. free_list[i] \in F /\ free_list[i] \in 0 .. npage - 1 /\ free_list[i] < base
      BY <1>1, <1>3, <2>1
    <3>2. free_list[i] # base /\ free_list[i] # base + m
      BY <1>3, <3>1
    <3> QED  BY <1>9, <3>1, <3>2
  <2>5. LastMark(free_list, l, up, j)
    BY <2>3, <2>4 DEF LastMark
  <2>6. SearchBack(free_list, l, up) = j
    BY <2>1, <2>5, LastMarkFound
  <2> DEFINE h == free_list[j]
  <2>7. j # 0
    BY <2>1
  <2>8. g = [up EXCEPT ![h] = @ + up[base], ![base] = 0]
    BY <2>1, <2>2, <2>6, <2>7 DEF Pmm!JoinDown, SearchBack
  <2>9. /\ h \in 0 .. npage - 1 /\ h # base /\ up[h] = property[h] /\ property[h] \in Nat
        /\ h + property[h] = base /\ h < base /\ h .. base - 1 \subseteq F /\ h - 1 \notin F
    BY <2>3, <2>4
  <2> HIDE DEF h
  <2>10. BottomOf(F, property, base, h) /\ h \in Nat
    <3>1. h <= base /\ h \in Nat /\ property[h] = base - h
      BY <1>3, <2>9
    <3> QED  BY <2>9, <3>1 DEF BottomOf
  <2> DEFINE v == up[h] + up[base]
  <2>11. v \in Int /\ v = property[h] + m + above
    <3> HIDE DEF above
    <3>1. up[h] \in Nat /\ up[base] \in Nat /\ up[base] = m + above /\ up[h] = property[h]
      BY <1>3, <1>9, <2>9
    <3> QED  BY <1>3, <1>8, <3>1
  <2>12. up \in [0 .. npage - 1 -> Int]
    <3>1. up \in [0 .. npage - 1 -> Nat]
      BY <1>9
    <3> QED  BY <3>1, FuncIntoInt
  <2>13. g = [up EXCEPT ![h] = v, ![base] = 0]
    BY <2>8
  <2> HIDE DEF v
  <2>14. /\ g \in [0 .. npage - 1 -> Int] /\ g[h] = v /\ g[base] = 0
         /\ \A q \in 0 .. npage - 1 : q # h /\ q # base => g[q] = up[q]
    <3> DEFINE D == 0 .. npage - 1
    <3>1. 0 \in Int
      OBVIOUS
    <3>2. up \in [D -> Int] /\ h \in D /\ base \in D /\ h # base
      BY <1>3, <2>9, <2>12
    <3>3. /\ g \in [D -> Int] /\ g[h] = v /\ g[base] = 0
          /\ \A q \in D : q # h /\ q # base => g[q] = up[q]
      <4> HIDE DEF D
      <4> QED  BY ONLY <2>11, <2>13, <3>1, <3>2
    <3> QED  BY <3>3
  <2>15. base + m \in F => g[base + m] = 0
    <3>1. base + m # base /\ base + m # h
      BY <1>3, <2>9
    <3>2. base + m \in F => base + m \in 0 .. npage - 1
      BY <1>1, <1>3
    <3> QED  BY <1>9, <2>14, <3>1, <3>2
  <2>16. g[h] = (IF h < base THEN property[h] ELSE 0) + m + above
    BY <2>9, <2>11, <2>14
  <2>17. \A q \in 0 .. npage - 1 : q \notin {h, base} /\ (q = base + m => q \notin F) => g[q] = property[q]
    <3>1. ASSUME NEW q \in 0 .. npage - 1, q \notin {h, base}, q = base + m => q \notin F
          PROVE  g[q] = property[q]
      <4>1. q # h /\ q # base
        BY <3>1
      <4>2. up[q] = property[q]
        BY <1>9, <3>1, <4>1
      <4> QED  BY <2>14, <4>1, <4>2
    <3> QED  BY <3>1
  <2>18. JoinedMarks(npage, F, property, base, m, h, g)
    BY <2>14, <2>15, <2>16, <2>17 DEF JoinedMarks
  <2> QED  BY <2>10, <2>18 DEF F
<1>11. CASE base - 1 \notin F
  <2>1. g = up
    BY <1>4, <1>11 DEF Pmm!JoinDown
  <2>2. base .. base - 1 = {} /\ ~ (base < base) /\ base <= base
    BY <1>3
  <2>3. BottomOf(F, property, base, base)
    BY <1>11, <2>2 DEF BottomOf
  <2>4. up \in [0 .. npage - 1 -> Int]
    <3>1. up \in [0 .. npage - 1 -> Nat]
      BY <1>9
    <3> QED  BY <3>1, FuncIntoInt
  <2>5. 0 + m + above = m + above
    BY <1>3, <1>8
  <2>6. JoinedMarks(npage, F, property, base, m, base, g)
    BY <1>9, <2>1, <2>2, <2>4, <2>5 DEF JoinedMarks
  <2> QED  BY <1>3, <2>3, <2>6 DEF F
<1> QED  BY <1>10, <1>11

(* A part of a run of pages.                                               *)
LEMMA PartOfRun ==
  ASSUME NEW p \in Int, NEW n \in Int, NEW base \in Int, NEW m \in Int, p <= base, base + m <= p + n
  PROVE  base .. base + m - 1 \subseteq p .. p + n - 1
OBVIOUS

(* default_free_pages of a part of a lent block.                           *)
LEMMA FreeGivesRun ==
  ASSUME PmmInv, NEW b \in lent, NEW base \in RunIn(b), NEW m \in 1 .. b[1] + b[2] - base,
         Pmm!FreePages(b[1], b[2], base, m)
  PROVE  /\ GivesRun(base, m)
         /\ base .. base + m - 1 \subseteq RunIn(b)
         /\ base \in Pmm!Page /\ m \in 1 .. npage
<1> DEFINE F == ToSet(free_list)
           R == base .. base + m - 1
           k == Pmm!PlaceOf(base)
           up == Pmm!JoinUp([property EXCEPT ![base] = m], base, m, k)
           g == Pmm!JoinDown(up, base, k)
           t == Splice(free_list, k, base, m)
<1>1. /\ npage \in Nat /\ free_list \in Seq(Nat) /\ F \in SUBSET Nat
      /\ \A x \in F : x \in Pmm!Page
  BY PmmFacts
<1>2. free_list' = t /\ property' = g /\ nr_free' = nr_free + m
  BY DEF Pmm!FreePages, Splice
<1> HIDE DEF k, up, g, t
<1>3. b[1] \in 0 .. npage - 1 /\ b[2] \in 1 .. npage
  BY DEF PmmInv, Pmm!TypeOK, Pmm!Page
<1>4. base \in Nat /\ m \in Nat \ {0} /\ b[1] <= base /\ base + m <= b[1] + b[2]
  BY <1>1, <1>3 DEF RunIn
<1>5. R \subseteq RunIn(b)
  <2>1. b[1] \in Int /\ b[2] \in Int /\ base \in Int /\ m \in Int
    BY <1>1, <1>3, <1>4
  <2> QED  BY ONLY <1>4, <2>1, PartOfRun DEF RunIn
<1>6. RunIn(b) \subseteq Pmm!Page
  <2>1. RunIn(b) \subseteq Given
    BY DEF PmmInv, LentExact
  <2> QED  BY <2>1, GivenPages DEF Given, PmmInv, Pmm!TypeOK
<1>7. base \in Pmm!Page /\ m \in 1 .. npage /\ base + m <= npage
  <2>1. base + m - 1 \in R /\ base \in R
    BY <1>4
  <2>2. base + m - 1 \in 0 .. npage - 1 /\ base \in Pmm!Page
    BY <1>5, <1>6, <2>1 DEF Pmm!Page
  <2>3. base + m <= npage
    BY <1>1, <1>4, <2>2
  <2>4. m \in 1 .. npage
    BY <1>1, <1>4, <2>3
  <2> QED  BY <2>2, <2>3, <2>4
<1>8. Outside(ToSet(free_list), base, m)
  BY <1>5 DEF PmmInv, InBlocks, Outside
<1>9. Unmarked(property, base, m)
  <2>1. \A q \in base + 1 .. base + m - 1 : q \in Inside(b)
    BY <1>1, <1>3, <1>4 DEF Inside
  <2> QED  BY <2>1 DEF PmmInv, LentExact, Unmarked
<1>10. /\ g \in [Pmm!Page -> 0 .. npage]
       /\ Blocks(F \cup R, g)
       /\ \A q \in Pmm!Page : q \notin F \cup R => g[q] = property[q]
  <2>1. PICK bottom \in Nat : /\ BottomOf(F, property, base, bottom)
                              /\ JoinedMarks(npage, F, property, base, m, bottom, g)
    BY <1>7, <1>8, MarksJoined DEF k, up, g
  <2>2. /\ Pmm!Page = 0 .. npage - 1 /\ property \in [0 .. npage - 1 -> 0 .. npage] /\ Blocks(F, property)
        /\ F \in SUBSET (0 .. npage - 1)
    BY <1>1 DEF Pmm!Page, PmmInv, Pmm!TypeOK
  <2>3. Outside(F, base, m)
    BY <1>8
  <2> HIDE DEF F
  <2>4. base \in 0 .. npage - 1
    BY <1>7, <2>2
  <2>5. Rejoined(npage, F, property, base, m, g)
    BY <1>1, <1>7, <1>9, <2>1, <2>2, <2>3, <2>4, JoinMarks
  <2> QED  BY <2>2, <2>5 DEF Rejoined
<1>11. k \in 1 .. Len(free_list) + 1 /\ Fits(free_list, k, base, m)
  BY <1>4, <1>8, PlaceFound DEF k
<1>12. Increasing(free_list) /\ nr_free = Len(free_list)
  BY DEF PmmInv
<1>13. t \in Seq(Nat) /\ IsSplice(free_list, k, base, m, t)
  BY <1>1, <1>4, <1>11, SpliceProperties DEF t
<1>14. Increasing(t) /\ ToSet(t) = F \cup R /\ Len(t) = Len(free_list) + m
  <2>1. Increasing(t) /\ ToSet(t) = ToSet(free_list) \cup (base .. base + m - 1)
    BY <1>1, <1>4, <1>11, <1>12, <1>13, SpliceOrder
  <2> QED  BY <1>13, <2>1 DEF IsSplice
<1>15. t \in Seq(Pmm!Page)
  <2>1. \A x \in ToSet(t) : x \in Pmm!Page
    BY <1>1, <1>5, <1>6, <1>14
  <2> QED  BY <1>13, <2>1, SeqOfMembers
<1>16. GivesRun(base, m)
  BY <1>2, <1>10, <1>12, <1>14, <1>15 DEF GivesRun
<1> QED  BY <1>5, <1>7, <1>16

(* default_init_memmap of the next usable block, above all that are free.  *)
LEMMA InitGivesRun ==
  ASSUME PmmInv, NEW base, NEW m, Pmm!InitMemmap(base, m)
  PROVE  /\ GivesRun(base, m)
         /\ base \in Pmm!Page /\ m \in 1 .. npage
         /\ Given' = Given \cup (base .. base + m - 1)
         /\ base .. base + m - 1 \subseteq Pmm!Page
         /\ \A q \in Given : q \notin base .. base + m - 1
<1> DEFINE F == ToSet(free_list)
           R == base .. base + m - 1
           r == [i \in 1 .. m |-> base + i - 1]
           g == [p \in Pmm!Page |-> IF p = base THEN m ELSE IF p \in R THEN 0 ELSE property[p]]
<1>1. /\ npage \in Nat /\ free_list \in Seq(Nat) /\ Len(free_list) \in Nat /\ F \in SUBSET Nat
      /\ \A x \in F : x \in Pmm!Page
      /\ \A i \in 1 .. Len(free_list) : free_list[i] \in F
  BY PmmFacts
<1>2. /\ handed < Len(Usable) /\ <<base, m>> = Usable[handed + 1] /\ handed' = handed + 1
      /\ free_list' = free_list \o r /\ property' = g /\ nr_free' = nr_free + m
  BY DEF Pmm!InitMemmap, Pmm!RunOf
<1>3. handed \in 0 .. Len(Usable) - 1
  <2>1. handed \in 0 .. Len(Usable) /\ Len(Usable) \in Nat
    BY KernelPartsAssumption, LenProperties DEF PmmInv, Pmm!TypeOK, Pmm!FirstFitAssumption
  <2> QED  BY <1>2, <2>1
<1>4. /\ base \in Pmm!Page /\ m \in 1 .. npage /\ base + m <= npage
      /\ Pmm!PagesOf(handed + 1) = Pmm!PagesOf(handed) \cup R
      /\ \A q \in Pmm!PagesOf(handed) : q \in Nat /\ q < base - 1
  BY <1>2, <1>3, UsableBlock
<1>5. base \in Nat /\ m \in Nat \ {0}
  BY <1>1, <1>4 DEF Pmm!Page
<1>6. Given' = Given \cup R
  <2>1. Given' = Pmm!PagesOf(handed + 1)
    BY <1>2 DEF Given, Pmm!PagesOf
  <2> QED  BY <1>4, <2>1 DEF Given
<1>7. R \subseteq Pmm!Page
  BY <1>1, <1>4, <1>5 DEF Pmm!Page
<1>8. \A q \in Given : q \notin R
  BY <1>4, <1>5 DEF Given
<1>9. \A q \in F : q \in Nat /\ q < base - 1
  BY <1>4 DEF PmmInv, InBlocks, Given
<1> HIDE DEF F
<1>10. Increasing(free_list) /\ nr_free = Len(free_list) /\ Blocks(F, property) /\ property \in [Pmm!Page -> 0 .. npage]
  BY DEF PmmInv, Pmm!TypeOK, F
<1>11. /\ free_list \o r \in Seq(Nat) /\ Increasing(free_list \o r) /\ ToSet(free_list \o r) = F \cup R
       /\ Len(free_list \o r) = Len(free_list) + m
  <2> DEFINE k == Len(free_list) + 1
             t == Splice(free_list, k, base, m)
  <2>1. k \in 1 .. Len(free_list) + 1
    BY <1>1
  <2>2. t = free_list \o r
    BY <1>1, <1>5, SpliceAtEnd
  <2>3. Fits(free_list, k, base, m)
    <3>1. \A i \in 1 .. k - 1 : i \in 1 .. Len(free_list)
      BY <1>1
    <3>2. ASSUME NEW i \in 1 .. k - 1
          PROVE  free_list[i] < base
      <4>1. free_list[i] \in Nat /\ free_list[i] < base - 1
        BY <1>1, <1>9, <3>1
      <4> QED  BY <1>5, <4>1
    <3>3. k .. Len(free_list) = {}
      BY <1>1
    <3> HIDE DEF k
    <3> QED  BY <3>2, <3>3 DEF Fits
  <2> HIDE DEF t, k
  <2>4. t \in Seq(Nat) /\ IsSplice(free_list, k, base, m, t)
    BY <1>1, <1>5, <2>1, SpliceProperties DEF t
  <2>5. Increasing(t) /\ ToSet(t) = F \cup R
    BY <1>1, <1>5, <1>10, <2>1, <2>3, <2>4, SpliceOrder DEF F
  <2>6. Len(t) = Len(free_list) + m
    BY <2>4 DEF IsSplice
  <2> QED  BY <2>2, <2>4, <2>5, <2>6
<1>12. free_list \o r \in Seq(Pmm!Page)
  <2>1. \A x \in F \cup R : x \in Pmm!Page
    BY <1>1, <1>7 DEF F
  <2> DEFINE t == free_list \o r
  <2>2. t \in Seq(Nat) /\ ToSet(t) = F \cup R
    BY <1>11
  <2> HIDE DEF t, R
  <2>3. t \in Seq(Pmm!Page)
    BY <2>1, <2>2, SeqOfMembers
  <2> QED  BY <2>3 DEF t
<1>13. /\ g \in [Pmm!Page -> 0 .. npage]
       /\ \A q \in Pmm!Page : q \notin R => g[q] = property[q]
       /\ g[base] = m /\ \A q \in base + 1 .. base + m - 1 : g[q] = 0
  <2>1. 0 \in 0 .. npage /\ m \in 0 .. npage
    BY <1>1, <1>4, <1>5
  <2>2. \A q \in Pmm!Page : g[q] \in 0 .. npage
    BY <1>10, <2>1
  <2>3. base \in R
    BY <1>5
  <2>4. \A q \in base + 1 .. base + m - 1 : q \in R /\ q # base
    BY <1>5
  <2> QED  BY <1>4, <1>7, <2>2, <2>3, <2>4
<1> HIDE DEF g
<1>14. Blocks(F \cup R, g)
  <2>1. base - 1 \notin F /\ base + m \notin F
    BY <1>5, <1>9
  <2>2. base .. base - 1 = {} /\ base + m .. base + m - 1 = {} /\ base + m \in Nat /\ (base + m) - base = m
    BY <1>5
  <2>3. \A q \in F : g[q] = property[q]
    BY <1>1, <1>5, <1>9, <1>13 DEF F
  <2>4. F \in SUBSET Nat
    BY <1>1 DEF F
  <2>5. base .. base - 1 \subseteq F /\ base + m .. base + m - 1 \subseteq F
    BY <2>2
  <2>6. g[base] = (base + m) - base
    BY <1>13, <2>2
  <2>7. Merged(F, property, base, m, base, base + m, g)
    BY <1>5, <1>13, <2>1, <2>2, <2>3, <2>5, <2>6 DEF Merged
  <2> QED  BY <1>5, <1>10, <2>2, <2>4, <2>7, BlocksGive
<1>15. GivesRun(base, m)
  BY <1>2, <1>10, <1>11, <1>12, <1>13, <1>14 DEF GivesRun, F
<1> QED  BY <1>4, <1>6, <1>7, <1>8, <1>15

(* What is below and above a part of a run of pages.                       *)
LEMMA BelowPart ==
  ASSUME NEW p \in Int, NEW n \in Int, NEW base \in Int, NEW m \in Int, p <= base, m >= 1, base + m <= p + n
  PROVE  /\ p .. base - 1 \subseteq p .. p + n - 1 /\ p + 1 .. base - 1 \subseteq p + 1 .. p + n - 1
         /\ (p .. base - 1) \cap (base .. base + m - 1) = {}
<1>1. p .. base - 1 \subseteq p .. p + n - 1
  OBVIOUS
<1>2. p + 1 .. base - 1 \subseteq p + 1 .. p + n - 1
  OBVIOUS
<1>3. (p .. base - 1) \cap (base .. base + m - 1) = {}
  OBVIOUS
<1> QED  BY <1>1, <1>2, <1>3

LEMMA AbovePart ==
  ASSUME NEW p \in Int, NEW n \in Int, NEW base \in Int, NEW m \in Int, p <= base, m >= 1, base + m <= p + n
  PROVE  /\ base + m .. p + n - 1 \subseteq p .. p + n - 1 /\ base + m + 1 .. p + n - 1 \subseteq p + 1 .. p + n - 1
         /\ (base + m .. p + n - 1) \cap (base .. base + m - 1) = {}
<1>1. base + m .. p + n - 1 \subseteq p .. p + n - 1
  OBVIOUS
<1>2. base + m + 1 .. p + n - 1 \subseteq p + 1 .. p + n - 1
  OBVIOUS
<1>3. (base + m .. p + n - 1) \cap (base .. base + m - 1) = {}
  OBVIOUS
<1> QED  BY <1>1, <1>2, <1>3

LEMMA BothParts ==
  ASSUME NEW p \in Int, NEW n \in Int, NEW base \in Int, NEW m \in Int, p <= base, m >= 1, base + m <= p + n
  PROVE  /\ (p .. base - 1) \cap (base + m .. p + n - 1) = {}
         /\ \A x \in p .. p + n - 1 : x \in base .. base + m - 1 \/ x \in p .. base - 1 \/ x \in base + m .. p + n - 1
<1>1. (p .. base - 1) \cap (base + m .. p + n - 1) = {}
  OBVIOUS
<1>2. ASSUME NEW x \in p .. p + n - 1
      PROVE  x \in base .. base + m - 1 \/ x \in p .. base - 1 \/ x \in base + m .. p + n - 1
  OBVIOUS
<1> QED  BY <1>1, <1>2

(* What the caller keeps of a block of which it frees a part: two blocks   *)
(* or one or none, which are the block without the part.                   *)
RestExact(b, base, m, rest) ==
  /\ rest \subseteq (0 .. npage - 1) \X (1 .. npage)
  /\ \A c \in rest : /\ RunIn(c) \subseteq RunIn(b) /\ Inside(c) \subseteq Inside(b)
                      /\ RunIn(c) \cap (base .. base + m - 1) = {}
  /\ \A c, d \in rest : c # d => RunIn(c) \cap RunIn(d) = {}
  /\ \A x \in RunIn(b) : x \in base .. base + m - 1 \/ \E c \in rest : x \in RunIn(c)

LEMMA RestOfBlock ==
  ASSUME NEW b \in (0 .. npage - 1) \X (1 .. npage), NEW base \in RunIn(b), NEW m \in 1 .. b[1] + b[2] - base,
         b[1] + b[2] <= npage, npage \in Nat,
         NEW rest, rest = Pmm!Rest(b[1], b[2], base, m)
  PROVE  RestExact(b, base, m, rest)
<1> DEFINE low == <<b[1], base - b[1]>>
           high == <<base + m, b[1] + b[2] - base - m>>
<1>1. b[1] \in 0 .. npage - 1 /\ b[2] \in 1 .. npage
  OBVIOUS
<1>2. base \in b[1] .. b[1] + b[2] - 1 /\ base \in Nat /\ m \in Nat \ {0}
  BY <1>1 DEF RunIn
<1>3. rest = {c \in {low, high} : c[2] > 0}
  BY DEF Pmm!Rest
<1>4. low[1] = b[1] /\ low[2] = base - b[1] /\ high[1] = base + m /\ high[2] = b[1] + b[2] - base - m
  OBVIOUS
<1>5. RunIn(low) = b[1] .. base - 1 /\ Inside(low) = b[1] + 1 .. base - 1
  BY <1>1, <1>2, <1>4 DEF RunIn, Inside
<1>6. RunIn(high) = base + m .. b[1] + b[2] - 1 /\ Inside(high) = base + m + 1 .. b[1] + b[2] - 1
  <2>1. base + m + (b[1] + b[2] - base - m) = b[1] + b[2]
    BY <1>1, <1>2
  <2> QED  BY <1>4, <2>1 DEF RunIn, Inside
<1>7. low[2] > 0 => low \in (0 .. npage - 1) \X (1 .. npage)
  <2>1. low[2] > 0 => b[1] \in 0 .. npage - 1 /\ base - b[1] \in 1 .. npage
    BY <1>1, <1>2, <1>4
  <2> QED  BY <2>1
<1>8. high[2] > 0 => high \in (0 .. npage - 1) \X (1 .. npage)
  <2>1. high[2] > 0 => base + m \in 0 .. npage - 1 /\ b[1] + b[2] - base - m \in 1 .. npage
    BY <1>1, <1>2, <1>4
  <2> QED  BY <2>1
<1> HIDE DEF low, high
<1>9. RunIn(b) = b[1] .. b[1] + b[2] - 1 /\ Inside(b) = b[1] + 1 .. b[1] + b[2] - 1
  BY DEF RunIn, Inside
<1>0. /\ b[1] \in Int /\ b[2] \in Int /\ base \in Int /\ m \in Int /\ m >= 1
      /\ b[1] <= base /\ base + m <= b[1] + b[2]
  BY <1>1, <1>2
<1>10. /\ RunIn(low) \subseteq RunIn(b) /\ Inside(low) \subseteq Inside(b)
       /\ RunIn(low) \cap (base .. base + m - 1) = {}
  <2>1. /\ b[1] .. base - 1 \subseteq b[1] .. b[1] + b[2] - 1 /\ b[1] + 1 .. base - 1 \subseteq b[1] + 1 .. b[1] + b[2] - 1
        /\ (b[1] .. base - 1) \cap (base .. base + m - 1) = {}
    BY ONLY <1>0, BelowPart
  <2> QED  BY ONLY <1>5, <1>9, <2>1
<1>11. /\ RunIn(high) \subseteq RunIn(b) /\ Inside(high) \subseteq Inside(b)
       /\ RunIn(high) \cap (base .. base + m - 1) = {}
  <2>1. /\ base + m .. b[1] + b[2] - 1 \subseteq b[1] .. b[1] + b[2] - 1
        /\ base + m + 1 .. b[1] + b[2] - 1 \subseteq b[1] + 1 .. b[1] + b[2] - 1
        /\ (base + m .. b[1] + b[2] - 1) \cap (base .. base + m - 1) = {}
    BY ONLY <1>0, AbovePart
  <2> QED  BY ONLY <1>6, <1>9, <2>1
<1>12. RunIn(low) \cap RunIn(high) = {}
  BY ONLY <1>5, <1>6, <1>0, BothParts
<1>13. \A x \in RunIn(b) : x \in base .. base + m - 1 \/ (low[2] > 0 /\ x \in RunIn(low)) \/ (high[2] > 0 /\ x \in RunIn(high))
  <2>1. ASSUME NEW x \in b[1] .. base - 1
        PROVE  low[2] > 0
    BY ONLY <1>4, <1>0, <2>1
  <2>2. ASSUME NEW x \in base + m .. b[1] + b[2] - 1
        PROVE  high[2] > 0
    BY ONLY <1>4, <1>0, <2>2
  <2>3. \A x \in b[1] .. b[1] + b[2] - 1 :
          x \in base .. base + m - 1 \/ x \in b[1] .. base - 1 \/ x \in base + m .. b[1] + b[2] - 1
    BY ONLY <1>0, BothParts
  <2> QED  BY ONLY <1>5, <1>6, <1>9, <2>1, <2>2, <2>3
<1>14. rest \subseteq (0 .. npage - 1) \X (1 .. npage)
  BY <1>3, <1>7, <1>8
<1>15. \A c \in rest : c = low \/ c = high
  BY <1>3
<1>16. \A x \in RunIn(b) : x \in base .. base + m - 1 \/ \E c \in rest : x \in RunIn(c)
  BY <1>3, <1>13
<1>17. \A c, d \in rest : c # d => RunIn(c) \cap RunIn(d) = {}
  BY <1>12, <1>15
<1>18. \A c \in rest : /\ RunIn(c) \subseteq RunIn(b) /\ Inside(c) \subseteq Inside(b)
                       /\ RunIn(c) \cap (base .. base + m - 1) = {}
  BY <1>10, <1>11, <1>15
<1> QED  BY <1>14, <1>16, <1>17, <1>18 DEF RestExact

(* The pages of a block that is out are pages.                             *)
LEMMA LentPages ==
  ASSUME PmmInv, NEW b \in lent
  PROVE  /\ b \in (0 .. npage - 1) \X (1 .. npage) /\ b[1] + b[2] <= npage
         /\ Inside(b) \subseteq RunIn(b) /\ RunIn(b) \subseteq Given /\ RunIn(b) \subseteq Pmm!Page
         /\ \A q \in RunIn(b) : q \notin ToSet(free_list)
<1>1. npage \in Nat
  BY PmmFacts
<1>2. b \in (0 .. npage - 1) \X (1 .. npage)
  BY DEF PmmInv, Pmm!TypeOK, Pmm!Page
<1>3. b[1] \in 0 .. npage - 1 /\ b[2] \in 1 .. npage
  BY <1>2
<1>4. RunIn(b) \subseteq Given
  BY DEF PmmInv, LentExact
<1>5. RunIn(b) \subseteq Pmm!Page
  BY <1>4, GivenPages DEF Given, PmmInv, Pmm!TypeOK
<1>6. b[1] + b[2] <= npage
  <2>1. b[1] + b[2] - 1 \in RunIn(b)
    BY <1>1, <1>3 DEF RunIn
  <2> QED  BY <1>1, <1>3, <1>5, <2>1 DEF Pmm!Page
<1>7. Inside(b) \subseteq RunIn(b)
  BY <1>1, <1>3 DEF Inside, RunIn
<1>8. \A q \in RunIn(b) : q \notin ToSet(free_list)
  BY DEF PmmInv, InBlocks
<1> QED  BY <1>2, <1>4, <1>5, <1>6, <1>7, <1>8

(* default_free_pages: the caller keeps the rest of its block.             *)
LEMMA FreeKeepsInv ==
  ASSUME PmmInv, NEW b \in lent, NEW base \in RunIn(b), NEW m \in 1 .. b[1] + b[2] - base,
         Pmm!FreePages(b[1], b[2], base, m)
  PROVE  PmmInv'
<1> DEFINE F == ToSet(free_list)
           R == base .. base + m - 1
           rest == Pmm!Rest(b[1], b[2], base, m)
<1>1. GivesRun(base, m) /\ R \subseteq RunIn(b) /\ base \in Pmm!Page /\ m \in 1 .. npage
  BY FreeGivesRun
<1>2. npage \in Nat /\ F \in SUBSET Nat
  BY PmmFacts
<1>3. b \in (0 .. npage - 1) \X (1 .. npage) /\ b[1] + b[2] <= npage
  BY LentPages
<1>4. /\ rest \subseteq (0 .. npage - 1) \X (1 .. npage)
      /\ \A c \in rest : RunIn(c) \subseteq RunIn(b) /\ Inside(c) \subseteq Inside(b) /\ RunIn(c) \cap R = {}
      /\ \A c, d \in rest : c # d => RunIn(c) \cap RunIn(d) = {}
      /\ \A x \in RunIn(b) : x \in R \/ \E c \in rest : x \in RunIn(c)
  <2>1. RestExact(b, base, m, rest)
    BY <1>2, <1>3, RestOfBlock
  <2> HIDE DEF rest
  <2> QED  BY <2>1 DEF RestExact
<1>5. lent' = (lent \ {b}) \cup rest
  <2>1. b = <<b[1], b[2]>>
    BY <1>3
  <2> QED  BY <2>1 DEF Pmm!FreePages
<1>6. /\ reserved' = reserved \ {base} /\ valid' = valid \cup {base}
      /\ handed' = handed /\ result' = result
  BY DEF Pmm!FreePages
<1> HIDE DEF rest, F, R
<1>7. Given' = Given
  BY <1>6 DEF Given, Pmm!PagesOf
<1>8. /\ F = InBlocks /\ LentExact(lent, property)
      /\ \A c \in lent : RunIn(c) \subseteq reserved
  BY DEF PmmInv, F
<1>9. base \in R
  BY <1>1, <1>2 DEF R, Pmm!Page
<1>10. Pmm!TypeOK'
  <2>1. nr_free' \in 0 .. npage /\ free_list' \in Seq(Pmm!Page) /\ property' \in [Pmm!Page -> 0 .. npage]
    BY <1>1, CountInRange DEF GivesRun
  <2>2. reserved' \subseteq Pmm!Page /\ valid' \subseteq Pmm!Page
    BY <1>1, <1>6 DEF PmmInv, Pmm!TypeOK
  <2>3. lent' \subseteq Pmm!Page \X (1 .. npage)
    BY <1>4, <1>5 DEF PmmInv, Pmm!TypeOK, Pmm!Page
  <2>4. handed' \in 0 .. Len(Usable) /\ result' \in Pmm!Page \cup {NoPage}
    BY <1>6 DEF PmmInv, Pmm!TypeOK
  <2> QED  BY <2>1, <2>2, <2>3, <2>4 DEF Pmm!TypeOK, Pmm!Page
<1>11. InBlocks' = F \cup R
  <2>1. InBlocks' = {x \in Given : \A c \in lent' : x \notin RunIn(c)}
    BY <1>7 DEF InBlocks, RunIn
  <2>2. ASSUME NEW x \in Given
        PROVE  (\A c \in lent' : x \notin RunIn(c)) <=> x \in F \/ x \in R
    <3>1. CASE x \in R
      <4>1. x \in RunIn(b)
        BY <1>1, <3>1 DEF R
      <4>2. \A c \in lent : c # b => x \notin RunIn(c)
        BY <1>8, <4>1 DEF LentExact
      <4> QED  BY <1>4, <1>5, <3>1, <4>2
    <3>2. CASE x \notin R /\ x \in RunIn(b)
      <4>1. x \notin F
        BY <3>2, LentPages DEF F
      <4> QED  BY <1>4, <1>5, <3>2, <4>1
    <3>3. CASE x \notin RunIn(b)
      <4>1. x \notin R
        BY <1>1, <3>3 DEF R
      <4>2. \A c \in rest : x \notin RunIn(c)
        BY <1>4, <3>3
      <4>3. (\A c \in lent' : x \notin RunIn(c)) <=> \A c \in lent : x \notin RunIn(c)
        BY <1>5, <3>3, <4>2
      <4> QED  BY <1>8, <4>1, <4>3 DEF InBlocks
    <3> QED  BY <3>1, <3>2, <3>3
  <2>3. F \subseteq Given /\ R \subseteq Given
    BY <1>1, <1>8, LentPages DEF InBlocks, R
  <2> QED  BY <2>1, <2>2, <2>3
<1>12. \A c \in lent' : RunIn(c) \subseteq Given /\ RunIn(c) \subseteq reserved'
  <2>1. ASSUME NEW c \in lent, c # b
        PROVE  RunIn(c) \subseteq Given /\ RunIn(c) \subseteq reserved'
    <3>1. base \notin RunIn(c)
      BY <1>8, <2>1 DEF LentExact
    <3> QED  BY <1>6, <1>8, <3>1, LentPages
  <2>2. ASSUME NEW c \in rest
        PROVE  RunIn(c) \subseteq Given /\ RunIn(c) \subseteq reserved'
    <3>1. RunIn(c) \subseteq RunIn(b) /\ base \notin RunIn(c)
      BY <1>4, <1>9, <2>2
    <3> QED  BY <1>6, <1>8, <3>1, LentPages
  <2> QED  BY <1>5, <2>1, <2>2
<1>13. \A c, d \in lent' : c # d => RunIn(c) \cap RunIn(d) = {}
  <2>1. \A c \in lent, d \in rest : c # b => RunIn(c) \cap RunIn(d) = {}
    BY <1>4, <1>8 DEF LentExact
  <2>2. \A c, d \in lent : c # d => RunIn(c) \cap RunIn(d) = {}
    BY <1>8 DEF LentExact
  <2> QED  BY <1>4, <1>5, <2>1, <2>2
<1>14. ASSUME NEW c \in lent', NEW q \in Inside(c)
       PROVE  property'[q] = 0
  <2>1. property[q] = 0 /\ q \in Pmm!Page /\ q \in RunIn(c) /\ q \notin F
    <3>1. CASE c \in lent
      BY <1>8, <3>1, LentPages DEF LentExact, F
    <3>2. CASE c \in rest
      <4>1. q \in Inside(b)
        BY <1>4, <3>2
      <4>2. property[q] = 0 /\ q \in Pmm!Page /\ q \notin F
        BY <1>8, <4>1, LentPages DEF LentExact, F
      <4>3. q \in RunIn(c)
        <5>1. c[1] \in Nat /\ c[2] \in Nat
          BY <1>2, <1>4, <3>2
        <5> QED  BY <5>1 DEF RunIn, Inside
      <4> QED  BY <4>2, <4>3
    <3> QED  BY <1>5, <3>1, <3>2
  <2>2. q \notin R
    <3>1. CASE c \in lent /\ c # b
      <4>1. RunIn(c) \cap RunIn(b) = {}
        BY <1>8, <3>1 DEF LentExact
      <4> QED  BY <1>1, <2>1, <4>1 DEF R
    <3>2. CASE c \in rest
      BY <1>4, <2>1, <3>2
    <3> QED  BY <1>5, <3>1, <3>2
  <2>3. property'[q] = property[q]
    BY <1>1, <2>1, <2>2 DEF GivesRun, F, R
  <2> QED  BY <2>1, <2>3
<1>15. LentExact(lent, property)'
  BY <1>7, <1>12, <1>13, <1>14 DEF LentExact, RunIn, Inside
<1>16. \A c \in lent' : (RunIn(c) \subseteq reserved)'
  BY <1>12 DEF RunIn
<1>17. /\ Increasing(free_list') /\ nr_free' = Len(free_list')
       /\ ToSet(free_list') = F \cup R /\ Blocks(ToSet(free_list'), property')
  BY <1>1 DEF GivesRun, F, R
<1>18. Increasing(free_list)' /\ ToSet(free_list)' = InBlocks' /\ Blocks(ToSet(free_list), property)'
  BY <1>11, <1>17 DEF Increasing, ToSet, Blocks
<1> QED  BY <1>10, <1>15, <1>16, <1>17, <1>18 DEF PmmInv, RunIn

(* default_init_memmap: the block is one above all others.                 *)
LEMMA InitMemmapKeepsInv ==
  ASSUME PmmInv, NEW base, NEW m, Pmm!InitMemmap(base, m)
  PROVE  PmmInv'
<1> DEFINE F == ToSet(free_list)
           R == base .. base + m - 1
<1>1. /\ GivesRun(base, m) /\ base \in Pmm!Page /\ m \in 1 .. npage
      /\ Given' = Given \cup R /\ R \subseteq Pmm!Page
      /\ \A q \in Given : q \notin R
  BY InitGivesRun
<1>2. /\ handed < Len(Usable) /\ handed' = handed + 1 /\ lent' = lent /\ result' = result
      /\ reserved' = reserved \ R /\ valid' = valid \cup R
  BY DEF Pmm!InitMemmap, Pmm!RunOf
<1> HIDE DEF F, R
<1>3. /\ F = InBlocks /\ LentExact(lent, property)
      /\ \A c \in lent : RunIn(c) \subseteq reserved
  BY DEF PmmInv, F
<1>4. Pmm!TypeOK'
  <2>1. nr_free' \in 0 .. npage /\ free_list' \in Seq(Pmm!Page) /\ property' \in [Pmm!Page -> 0 .. npage]
    BY <1>1, CountInRange DEF GivesRun
  <2>2. reserved' \subseteq Pmm!Page /\ valid' \subseteq Pmm!Page
    BY <1>1, <1>2 DEF PmmInv, Pmm!TypeOK
  <2>3. lent' \subseteq Pmm!Page \X (1 .. npage) /\ result' \in Pmm!Page \cup {NoPage}
    BY <1>2 DEF PmmInv, Pmm!TypeOK
  <2>4. handed' \in 0 .. Len(Usable)
    <3>1. handed \in 0 .. Len(Usable) /\ Len(Usable) \in Nat
      BY KernelPartsAssumption, LenProperties DEF PmmInv, Pmm!TypeOK, Pmm!FirstFitAssumption
    <3> QED  BY <1>2, <3>1
  <2> QED  BY <2>1, <2>2, <2>3, <2>4 DEF Pmm!TypeOK, Pmm!Page
<1>5. \A c \in lent : RunIn(c) \subseteq Given /\ RunIn(c) \cap R = {}
  BY <1>1, LentPages
<1>6. InBlocks' = F \cup R
  <2>1. InBlocks' = {x \in Given \cup R : \A c \in lent : x \notin RunIn(c)}
    BY <1>1, <1>2 DEF InBlocks, RunIn
  <2> QED  BY <1>3, <1>5, <2>1 DEF InBlocks
<1>7. ASSUME NEW c \in lent, NEW q \in Inside(c)
      PROVE  property'[q] = 0
  <2>1. property[q] = 0 /\ q \in Pmm!Page /\ q \notin F /\ q \in RunIn(c)
    BY <1>3, LentPages DEF LentExact, F
  <2>2. q \notin R
    BY <1>5, <2>1
  <2> QED  BY <1>1, <2>1, <2>2 DEF GivesRun, F, R
<1>8. LentExact(lent, property)'
  <2>1. \A c \in lent : RunIn(c) \subseteq Given'
    BY <1>1, <1>5
  <2> QED  BY <1>2, <1>3, <1>7, <2>1 DEF LentExact, RunIn, Inside
<1>9. \A c \in lent' : (RunIn(c) \subseteq reserved)'
  <2>1. \A c \in lent : RunIn(c) \subseteq reserved'
    BY <1>2, <1>3, <1>5
  <2> QED  BY <1>2, <2>1 DEF RunIn
<1>10. /\ Increasing(free_list') /\ nr_free' = Len(free_list')
       /\ ToSet(free_list') = F \cup R /\ Blocks(ToSet(free_list'), property')
  BY <1>1 DEF GivesRun, F, R
<1>11. Increasing(free_list)' /\ ToSet(free_list)' = InBlocks' /\ Blocks(ToSet(free_list), property)'
  BY <1>6, <1>10 DEF Increasing, ToSet, Blocks
<1> QED  BY <1>4, <1>8, <1>9, <1>10, <1>11 DEF PmmInv, RunIn

(* A step that leaves the manager alone but for its answer.                *)
LEMMA PmmStutter ==
  ASSUME PmmInv, UNCHANGED <<handed, free_list, nr_free, property, reserved, valid, lent>>,
         result' \in Pmm!Page \cup {NoPage}
  PROVE  PmmInv'
<1>1. Pmm!TypeOK'
  <2>1. Pmm!TypeOK
    BY DEF PmmInv
  <2> QED  BY <2>1 DEF Pmm!TypeOK, Pmm!Page
<1>2. Given' = Given /\ ToSet(free_list)' = ToSet(free_list)
  BY DEF Given, Pmm!PagesOf, ToSet
<1>3. InBlocks' = InBlocks
  BY <1>2 DEF InBlocks, RunIn
<1>4. LentExact(lent, property)'
  <2>1. LentExact(lent, property)
    BY DEF PmmInv
  <2> QED  BY <1>2, <2>1 DEF LentExact, RunIn, Inside
<1>5. Increasing(free_list)' /\ Blocks(ToSet(free_list), property)'
  <2>1. Increasing(free_list) /\ Blocks(ToSet(free_list), property)
    BY DEF PmmInv
  <2> QED  BY <1>2, <2>1 DEF Increasing, Blocks
<1>6. \A b \in lent' : (RunIn(b) \subseteq reserved)'
  BY DEF PmmInv, RunIn
<1>7. nr_free' = Len(free_list)' /\ ToSet(free_list)' = InBlocks'
  BY <1>2, <1>3 DEF PmmInv
<1> QED  BY <1>1, <1>4, <1>5, <1>6, <1>7 DEF PmmInv, RunIn

(* Before page_init hands anything over nothing is free.                   *)
LEMMA PmmInitInv ==
  ASSUME Pmm!Init
  PROVE  PmmInv
<1>1. npage \in Nat /\ Len(Usable) \in Nat
  BY KernelPartsAssumption, LenProperties DEF Pmm!FirstFitAssumption
<1>2. /\ handed = 0 /\ free_list = << >> /\ nr_free = 0 /\ property = [p \in Pmm!Page |-> 0]
      /\ reserved = Pmm!Page /\ valid = {} /\ lent = {} /\ result = NoPage
  BY DEF Pmm!Init
<1>3. Pmm!TypeOK
  <2>1. 0 \in 0 .. npage /\ 0 \in 0 .. Len(Usable)
    BY <1>1
  <2>2. free_list \in Seq(Pmm!Page)
    BY <1>2
  <2> QED  BY <1>2, <2>1, <2>2 DEF Pmm!TypeOK
<1>4. ToSet(free_list) = {} /\ Increasing(free_list) /\ Len(free_list) = 0
  BY <1>2 DEF ToSet, Increasing
<1>5. InBlocks = {}
  <2>1. 1 .. 0 = {}
    OBVIOUS
  <2>2. Given = {}
    BY <1>2, <2>1 DEF Given, Pmm!PagesOf
  <2> QED  BY <2>2 DEF InBlocks
<1> QED  BY <1>2, <1>3, <1>4, <1>5 DEF PmmInv, LentExact, Blocks

(* Every step of the manager.                                              *)
LEMMA PmmNextInv ==
  ASSUME PmmInv, Pmm!Next
  PROVE  PmmInv'
<1>1. ASSUME NEW base \in Pmm!Page, NEW m \in 1 .. npage, Pmm!InitMemmap(base, m)
      PROVE  PmmInv'
  BY <1>1, InitMemmapKeepsInv
<1>2. ASSUME NEW n \in 1 .. npage, Pmm!AllocFails(n)
      PROVE  PmmInv'
  BY <1>2, PmmStutter DEF Pmm!AllocFails
<1>3. ASSUME NEW n \in 1 .. npage, Pmm!AllocPages(n)
      PROVE  PmmInv'
  <2>1. PICK p \in Pmm!Page : TakesRun(p, n)
    BY <1>3, AllocTakesRun
  <2> QED  BY <2>1, AllocKeepsInv
<1>4. ASSUME NEW b \in lent, NEW base \in Pmm!RunOf(b[1], b[2]), NEW m \in 1 .. b[1] + b[2] - base,
             Pmm!FreePages(b[1], b[2], base, m)
      PROVE  PmmInv'
  <2>1. base \in RunIn(b)
    BY DEF Pmm!RunOf, RunIn
  <2> QED  BY <1>4, <2>1, FreeKeepsInv
<1> QED  BY <1>1, <1>2, <1>3, <1>4 DEF Pmm!Next

-----------------------------------------------------------------------------
(* First fit: the manager is an allocator of the lowest runs.              *)
LEMMA AllocRefines ==
  ASSUME PmmInv, NEW n \in 1 .. npage, Pmm!AllocPages(n)
  PROVE  Pmm!Abs!Alloc(n)
<1> DEFINE F == ToSet(free_list)
<1>1. PICK p \in Pmm!Page :
        TakesRun(p, n) /\ \A q \in F : q .. q + n - 1 \subseteq F => p <= q
  BY AllocTakesRun
<1>2. /\ p \in F /\ p .. p + n - 1 \subseteq F /\ result' = p
      /\ ToSet(free_list') = F \ (p .. p + n - 1)
  BY <1>1 DEF TakesRun
<1>3. Pmm!Free = F /\ Pmm!Free' = ToSet(free_list') /\ F \in SUBSET Nat /\ npage \in Nat
  BY PmmFacts DEF Pmm!Free, Pmm!ToSet, ToSet
<1>4. F \subseteq Pmm!Pages
  BY GivenPages DEF PmmInv, Pmm!TypeOK, InBlocks, Given
<1> DEFINE S == {q \in Pmm!Pages : q .. q + n - 1 \subseteq F}
<1>5. Pmm!Abs!Runs(n) = S
  BY <1>3 DEF Pmm!Abs!Runs, Pmm!Abs!Run
<1>6. p \in S
  BY <1>2, <1>4
<1>7. ASSUME NEW q \in S
      PROVE  p <= q /\ q \in Nat
  <2>1. q \in F
    <3>1. q \in Nat
      BY UsablePages
    <3>2. q \in q .. q + n - 1
      BY <3>1
    <3> QED  BY <3>2
  <2> QED  BY <1>1, <1>3, <2>1
<1>8. Pmm!Abs!Lowest(S) = p
  <2> HIDE DEF S
  <2>1. ASSUME NEW y \in S, \A q \in S : y <= q
        PROVE  y = p
    BY <1>6, <1>7, <2>1
  <2> QED  BY <1>6, <1>7, <2>1 DEF Pmm!Abs!Lowest
<1> HIDE DEF S, F
<1>9. Pmm!Abs!Runs(n) # {} /\ result' = Pmm!Abs!Lowest(Pmm!Abs!Runs(n)) /\ Pmm!Free' = Pmm!Free \ Pmm!Abs!Run(result', n)
  BY <1>2, <1>3, <1>5, <1>6, <1>8 DEF Pmm!Abs!Run
<1> QED  BY <1>9 DEF Pmm!Abs!Alloc

(* A request is refused only when no run is long enough.                   *)
LEMMA AllocFailsRefines ==
  ASSUME PmmInv, NEW n \in 1 .. npage, Pmm!AllocFails(n)
  PROVE  Pmm!Abs!Alloc(n)
<1> DEFINE F == ToSet(free_list)
<1>1. /\ Pmm!Free = F /\ F \in SUBSET Nat /\ npage \in Nat /\ free_list \in Seq(Nat) /\ Len(free_list) \in Nat
      /\ \A x \in F : x \in Pmm!Page /\ property[x] \in 0 .. npage
      /\ \A x \in F : \E i \in 1 .. Len(free_list) : x = free_list[i]
  BY PmmFacts
<1>2. Increasing(free_list) /\ Blocks(F, property) /\ nr_free = Len(free_list)
  BY DEF PmmInv
<1>3. n \in Nat \ {0}
  BY <1>1
<1>4. (n > nr_free \/ Pmm!FirstOf(n) = 0) /\ result' = NoPage /\ UNCHANGED free_list
  BY DEF Pmm!AllocFails
<1> HIDE DEF F
<1>5. ASSUME NEW q \in F, q .. q + n - 1 \subseteq F
      PROVE  FALSE
  <2>1. PICK k \in 1 .. Len(free_list) : q = free_list[k]
    BY <1>1
  <2>2. n <= Len(free_list)
    <3>1. RunAt(free_list, k, free_list[k], n)
      <4>1. Covers(free_list, free_list[k], free_list[k] + n - 1)
        BY <1>1, <1>5, <2>1 DEF Covers
      <4> QED  BY <1>1, <1>2, <1>3, <4>1, Consecutive
    <3>2. n - 1 \in 0 .. n - 1
      BY <1>3
    <3>3. k + (n - 1) \in 1 .. Len(free_list)
      BY <3>1, <3>2 DEF RunAt
    <3> QED  BY <1>1, <1>3, <3>3
  <2>3. PICK h \in F : h <= q /\ property[h] \in Nat /\ property[h] >= n
    BY <1>1, <1>2, <1>3, <1>5, RunInBlock
  <2>4. PICK i \in 1 .. Len(free_list) : h = free_list[i]
    BY <1>1
  <2>5. Pmm!FirstOf(n) # 0
    BY <1>3, <2>3, <2>4, FirstFound
  <2> QED  BY <1>1, <1>2, <1>3, <1>4, <2>2, <2>5
<1>6. Pmm!Abs!Runs(n) = {}
  <2> SUFFICES ASSUME NEW q \in Pmm!Pages, q .. q + n - 1 \subseteq F
               PROVE  FALSE
    BY <1>1 DEF Pmm!Abs!Runs, Pmm!Abs!Run
  <2>1. q \in Nat
    BY UsablePages
  <2>2. q \in q .. q + n - 1
    BY <1>3, <2>1
  <2> QED  BY <1>5, <2>2
<1>7. UNCHANGED Pmm!Free
  BY <1>4 DEF Pmm!Free, Pmm!ToSet
<1> QED  BY <1>4, <1>6, <1>7 DEF Pmm!Abs!Alloc

(* A run that comes back was not free, and is again.                       *)
LEMMA GiveRefines ==
  ASSUME PmmInv, NEW base \in Pmm!Pages, NEW m \in 1 .. npage, GivesRun(base, m), result' = result,
         base .. base + m - 1 \subseteq Pmm!Pages,
         \A q \in base .. base + m - 1 : q \notin ToSet(free_list)
  PROVE  Pmm!Abs!Next
<1>1. Pmm!Free = ToSet(free_list) /\ Pmm!Free' = ToSet(free_list')
  BY PmmFacts DEF Pmm!Free, Pmm!ToSet, ToSet
<1>2. Pmm!Free' = Pmm!Free \cup (base .. base + m - 1)
  BY <1>1 DEF GivesRun
<1>3. Pmm!Abs!Free(base, m)
  BY <1>1, <1>2 DEF Pmm!Abs!Free, Pmm!Abs!Run
<1> QED  BY <1>3 DEF Pmm!Abs!Next

(* Every step of the manager is a step of the allocator, or changes        *)
(* neither the free pages nor the answer.                                  *)
LEMMA PmmNextRefines ==
  ASSUME PmmInv, Pmm!Next
  PROVE  Pmm!Abs!Next
<1>0. handed \in 0 .. Len(Usable)
  BY DEF PmmInv, Pmm!TypeOK
<1>1. ASSUME NEW base \in Pmm!Page, NEW m \in 1 .. npage, Pmm!InitMemmap(base, m)
      PROVE  Pmm!Abs!Next
  <2>1. /\ GivesRun(base, m) /\ Given' = Given \cup (base .. base + m - 1)
        /\ \A q \in Given : q \notin base .. base + m - 1
    BY <1>1, InitGivesRun
  <2>2. Given' \subseteq Pmm!Pages
    <3>1. handed' \in 0 .. Len(Usable)
      BY <1>1, InitMemmapKeepsInv DEF PmmInv, Pmm!TypeOK
    <3>2. Given' = Pmm!PagesOf(handed')
      BY DEF Given, Pmm!PagesOf
    <3> QED  BY <3>1, <3>2, GivenPages
  <2>3. base \in base .. base + m - 1
    BY PmmFacts DEF Pmm!Page
  <2>4. \A q \in base .. base + m - 1 : q \notin ToSet(free_list)
    BY <2>1 DEF PmmInv, InBlocks
  <2>5. result' = result
    BY <1>1 DEF Pmm!InitMemmap
  <2> QED  BY <2>1, <2>2, <2>3, <2>4, <2>5, GiveRefines
<1>2. ASSUME NEW n \in 1 .. npage, Pmm!AllocFails(n)
      PROVE  Pmm!Abs!Next
  BY <1>2, AllocFailsRefines DEF Pmm!Abs!Next
<1>3. ASSUME NEW n \in 1 .. npage, Pmm!AllocPages(n)
      PROVE  Pmm!Abs!Next
  BY <1>3, AllocRefines DEF Pmm!Abs!Next
<1>4. ASSUME NEW b \in lent, NEW base \in Pmm!RunOf(b[1], b[2]), NEW m \in 1 .. b[1] + b[2] - base,
             Pmm!FreePages(b[1], b[2], base, m)
      PROVE  Pmm!Abs!Next
  <2>1. base \in RunIn(b)
    BY DEF Pmm!RunOf, RunIn
  <2>2. GivesRun(base, m) /\ base .. base + m - 1 \subseteq RunIn(b) /\ m \in 1 .. npage
    BY <1>4, <2>1, FreeGivesRun
  <2>3. RunIn(b) \subseteq Pmm!Pages /\ \A q \in RunIn(b) : q \notin ToSet(free_list)
    BY <1>0, LentPages, GivenPages DEF Given
  <2>4. result' = result
    BY <1>4 DEF Pmm!FreePages
  <2>5. base \in Pmm!Pages
    BY <2>1, <2>3
  <2> QED  BY <2>2, <2>3, <2>4, <2>5, GiveRefines
<1> QED  BY <1>1, <1>2, <1>3, <1>4 DEF Pmm!Next

(* Whatever part of the kernel runs, the manager of physical pages is in   *)
(* order (default_pmm.c), for every number of pages, all usable blocks and *)
(* all requests.                                                           *)
THEOREM FirstFitInvariant == PartsSpec => []PmmInv
<1>1. PartsInit => PmmInv
  BY PmmInitInv DEF PartsInit
<1>2. PmmInv /\ [PartsNext]_allvars => PmmInv'
  <2> SUFFICES ASSUME PmmInv, [PartsNext]_allvars
               PROVE  PmmInv'
    OBVIOUS
  <2>1. CASE Pmm!Next
    BY <2>1, PmmNextInv
  <2>2. CASE UNCHANGED pmmvars
    <3>1. result' \in Pmm!Page \cup {NoPage}
      BY <2>2 DEF pmmvars, PmmInv, Pmm!TypeOK
    <3>2. UNCHANGED <<handed, free_list, nr_free, property, reserved, valid, lent>>
      BY <2>2 DEF pmmvars
    <3> QED  BY <3>1, <3>2, PmmStutter
  <2> QED  BY <2>1, <2>2 DEF PartsNext, allvars
<1> QED  BY <1>1, <1>2, PTL DEF PartsSpec

(* default_pmm.c implements an allocator that always hands out the lowest  *)
(* run of free pages that is long enough, and refuses only when there is   *)
(* none.                                                                   *)
THEOREM FirstFitKeepsPromise == PartsSpec => KeepsPromise
<1>1. PartsInit => Pmm!Abs!Init
  BY DEF PartsInit, Pmm!Init, Pmm!Abs!Init, Pmm!Free, Pmm!ToSet
<1>2. PmmInv /\ [PartsNext]_allvars => [Pmm!Abs!Next]_<<Pmm!Free, result>>
  <2> SUFFICES ASSUME PmmInv, [PartsNext]_allvars
               PROVE  Pmm!Abs!Next \/ UNCHANGED <<Pmm!Free, result>>
    OBVIOUS
  <2>1. CASE Pmm!Next
    BY <2>1, PmmNextRefines
  <2>2. CASE UNCHANGED pmmvars
    BY <2>2 DEF pmmvars, Pmm!Free, Pmm!ToSet
  <2> QED  BY <2>1, <2>2 DEF PartsNext, allvars
<1> QED  BY <1>1, <1>2, FirstFitInvariant, PTL DEF PartsSpec, KeepsPromise, Pmm!KeepsPromise, Pmm!Abs!Spec

(* What the invariant says in the words of the checks of default_check.    *)
LEMMA PmmExact ==
  ASSUME PmmInv
  PROVE  Pmm!TypeOK /\ Pmm!ListExact /\ Pmm!BlocksJoined
<1> DEFINE F == ToSet(free_list)
<1>1. /\ Pmm!Free = F /\ F \in SUBSET Nat /\ npage \in Nat
      /\ \A p \in F : p \in Pmm!Page /\ property[p] \in 0 .. npage
  BY PmmFacts
<1>2. Blocks(F, property)
  BY DEF PmmInv
<1>3. Pmm!ListExact
  <2> DEFINE out == UNION {Pmm!RunOf(b[1], b[2]) : b \in lent}
  <2>1. \A x : x \in out <=> \E b \in lent : x \in RunIn(b)
    BY DEF Pmm!RunOf, RunIn
  <2>2. F = Pmm!PagesOf(handed) \ out /\ out \subseteq reserved
    BY <2>1 DEF PmmInv, InBlocks, Given
  <2> QED  BY <1>1, <2>2 DEF Pmm!ListExact, PmmInv, Increasing
<1>4. ASSUME NEW p \in F
      PROVE  property[p] = IF p - 1 \in F THEN 0
                           ELSE CHOOSE n \in 1 .. npage : Pmm!RunOf(p, n) \subseteq F /\ p + n \notin F
  <2>1. CASE p - 1 \in F
    BY <1>2, <2>1 DEF Blocks
  <2>2. CASE p - 1 \notin F
    <3>1. /\ property[p] \in 1 .. npage /\ p \in Nat
          /\ p .. p + property[p] - 1 \subseteq F /\ p + property[p] \notin F
      BY <1>1, <1>2, <2>2 DEF Blocks
    <3> DEFINE N == {n \in 1 .. npage : p .. p + n - 1 \subseteq F /\ p + n \notin F}
    <3>2. ASSUME NEW n \in 1 .. npage, p .. p + n - 1 \subseteq F, p + n \notin F
          PROVE  n = property[p]
      <4>1. p + n \notin p .. p + property[p] - 1 /\ p + property[p] \notin p .. p + n - 1
        BY <3>1, <3>2
      <4> QED  BY <1>1, <3>1, <4>1
    <3>3. (CHOOSE n \in 1 .. npage : p .. p + n - 1 \subseteq F /\ p + n \notin F) = property[p]
      BY <3>1, <3>2
    <3> QED  BY <2>2, <3>3 DEF Pmm!RunOf
  <2> QED  BY <2>1, <2>2
<1>5. Pmm!BlocksJoined
  BY <1>1, <1>4 DEF Pmm!BlocksJoined
<1>6. Pmm!TypeOK
  BY DEF PmmInv
<1> QED  BY <1>3, <1>5, <1>6

(* No page is lost or owned twice, the free list is in order and free      *)
(* blocks are joined, for every number of pages (default_pmm.c).           *)
THEOREM PagesStayExact == PartsSpec => []PagesExact
<1>1. PmmInv => PagesExact
  BY PmmExact DEF PagesExact
<1> QED  BY <1>1, FirstFitInvariant, PTL

-----------------------------------------------------------------------------
(* The disk: what is always true of a transfer.  The sectors that have     *)
(* gone over are the first ones of the page; one may be on its way; and    *)
(* what is still on its way when the driver has returned is the last       *)
(* sector of a page, the one whose error nobody would see.                 *)
DiskPart == [page : Content \cup {"blank"}, part : 0 .. PAGE_NSECT]
Sector(s, i) == s * PAGE_NSECT + i - 1
Writing(s) == op.pc # "idle" /\ op.cmd = "write" /\ op.slot = s
(* The first k sectors of the slot s, but for the last of all, hold v.     *)
Stored(d, s, v, k) == \A i \in 1 .. PAGE_NSECT - 1 : i <= k => d[Sector(s, i)] = Ide!PageOf(v)[i]

DiskType ==
  /\ device \in [Ide!Sectors -> DiskPart]
  /\ disk \in [busy : BOOLEAN, err : BOOLEAN, secno : Nat, left : Int, data : DiskPart]
  /\ op \in [pc : {"idle", "setup", "transfer", "over"}, cmd : {"none", "read", "write"}, slot : Nat,
             page : Seq(DiskPart), nsecs : 0 .. PAGE_NSECT, ret : {0, -1}]
  /\ swapped \in [Slot -> Content \cup {"none"}]
  /\ op.pc # "idle" => op.slot \in Slot
  /\ op.pc \in {"setup", "transfer"} => op.cmd # "none"

(* Reading: n sectors of the page are there.                               *)
ReadSoFar(n) ==
  /\ Len(op.page) = n
  /\ \A i \in 1 .. PAGE_NSECT - 1 : i <= n => op.page[i] = Ide!PageOf(swapped[op.slot])[i]

(* Writing the page v: the disk is idle behind the sector it stored, or    *)
(* has one on its way, or has failed.                                      *)
WrittenSoFar(v) ==
  /\ disk.data # Ide!Blank =>
       /\ disk.busy /\ op.nsecs < PAGE_NSECT
       /\ disk.secno = Sector(op.slot, PAGE_NSECT - op.nsecs)
       /\ disk.data = Ide!PageOf(v)[PAGE_NSECT - op.nsecs]
       /\ Stored(device, op.slot, v, PAGE_NSECT - op.nsecs - 1)
  /\ disk.data = Ide!Blank /\ ~disk.err =>
       /\ ~disk.busy
       /\ disk.secno = Sector(op.slot, PAGE_NSECT - op.nsecs + 1)
       /\ Stored(device, op.slot, v, PAGE_NSECT - op.nsecs)
  /\ op.nsecs = 0 => Stored(device, op.slot, v, PAGE_NSECT)

DiskInv ==
  /\ DiskType
  /\ \A s \in Slot : swapped[s] # "none" /\ ~Writing(s) => Stored(device, s, swapped[s], PAGE_NSECT)
  /\ op.pc # "idle" /\ op.cmd = "write" => \E v \in Content : op.page = Ide!PageOf(v)
  /\ op.pc # "idle" /\ op.cmd = "read" => swapped[op.slot] # "none"
  /\ op.pc \in {"setup", "transfer"} => op.ret = 0
  /\ op.pc = "setup" => op.nsecs = PAGE_NSECT /\ (op.cmd = "read" => op.page = << >>)
  /\ op.pc # "transfer" /\ disk.data # Ide!Blank => \E t \in Slot : disk.secno = Sector(t, PAGE_NSECT)
  /\ op.pc = "transfer" /\ op.cmd = "read" =>
       /\ disk.data = Ide!Blank /\ ReadSoFar(PAGE_NSECT - op.nsecs)
       /\ op.nsecs > 0 => disk.secno = Sector(op.slot, PAGE_NSECT - op.nsecs + 1) /\ disk.left = op.nsecs
  /\ op.pc = "over" /\ op.cmd = "read" /\ op.ret = 0 => ReadSoFar(PAGE_NSECT)
  /\ op.pc = "transfer" /\ op.cmd = "write" => \A v \in Content : op.page = Ide!PageOf(v) => WrittenSoFar(v)
  /\ op.pc = "over" /\ op.cmd = "write" /\ op.ret = 0 =>
       \A v \in Content : op.page = Ide!PageOf(v) => Stored(device, op.slot, v, PAGE_NSECT)

(* The assumption of Disk, as the proofs use it.                           *)
LEMMA DiskConstants == PAGE_NSECT \in Nat \ {0} /\ Slot \subseteq Nat
BY KernelPartsAssumption DEF Ide!DiskAssumption

(* Sectors of different pages, and different sectors of a page, differ.    *)
LEMMA SectorsApart ==
  ASSUME NEW s \in Nat, NEW t \in Nat, NEW i \in 1 .. PAGE_NSECT, NEW j \in 1 .. PAGE_NSECT,
         Sector(s, i) = Sector(t, j)
  PROVE  s = t /\ i = j
<1>1. PAGE_NSECT \in Nat \ {0}
  BY DiskConstants
<1>2. ASSUME NEW x \in Nat, NEW y \in Nat, x < y
      PROVE  x * PAGE_NSECT + PAGE_NSECT <= y * PAGE_NSECT
  <2>1. PICK d \in Nat : y = x + 1 + d
    <3>1. y - x - 1 \in Nat /\ y = x + 1 + (y - x - 1)
      BY <1>2
    <3> QED  BY <3>1
  <2>2. y * PAGE_NSECT = x * PAGE_NSECT + PAGE_NSECT + d * PAGE_NSECT /\ d * PAGE_NSECT \in Nat
    BY <1>1, <2>1
  <2> QED  BY <1>1, <2>2
<1> DEFINE a == s * PAGE_NSECT
           b == t * PAGE_NSECT
<1>3. a \in Nat /\ b \in Nat /\ a + i - 1 = b + j - 1
  BY <1>1 DEF Sector
<1>4. ~ (a + PAGE_NSECT <= b) /\ ~ (b + PAGE_NSECT <= a)
  <2> HIDE DEF a, b
  <2> QED  BY <1>1, <1>3
<1>5. s = t
  BY <1>2, <1>4
<1>6. a = b
  BY <1>5
<1> HIDE DEF a, b
<1> QED  BY <1>1, <1>3, <1>5, <1>6

(* The next sector of a page, and the page it belongs to.                  *)
LEMMA SectorSteps ==
  ASSUME NEW s \in Slot, NEW i \in 1 .. PAGE_NSECT
  PROVE  /\ Sector(s, i) \in Nat /\ Sector(s, i + 1) = Sector(s, i) + 1
         /\ Sector(s, 1) = s * PAGE_NSECT /\ Sector(s, i) \in Ide!Sectors
<1>1. PAGE_NSECT \in Nat \ {0} /\ s \in Nat
  BY DiskConstants
<1>2. s * PAGE_NSECT \in Nat
  BY <1>1
<1>3. Sector(s, i) \in s * PAGE_NSECT .. (s + 1) * PAGE_NSECT - 1
  <2>1. (s + 1) * PAGE_NSECT = s * PAGE_NSECT + PAGE_NSECT
    BY <1>1
  <2> QED  BY <1>1, <1>2, <2>1 DEF Sector
<1>4. Sector(s, i) \in Ide!Sectors
  <2> DEFINE R(x) == x * PAGE_NSECT .. (x + 1) * PAGE_NSECT - 1
  <2>1. Sector(s, i) \in R(s)
    BY <1>3
  <2>2. Ide!Sectors = UNION {R(x) : x \in Slot}
    BY DEF Ide!Sectors
  <2> HIDE DEF R
  <2> QED  BY <2>1, <2>2
<1> QED  BY <1>1, <1>2, <1>4 DEF Sector

(* A sector that is stored elsewhere leaves a page alone, and so does the  *)
(* last sector of any page.                                                *)
Puts(d, t, j, x, e) == e = [d EXCEPT ![Sector(t, j)] = x]

LEMMA StoredElsewhere ==
  ASSUME NEW d, d \in [Ide!Sectors -> DiskPart], NEW s \in Slot, NEW t \in Slot, NEW j \in 1 .. PAGE_NSECT,
         NEW x, NEW e, Puts(d, t, j, x, e), NEW k \in Int, NEW v, Stored(d, s, v, k), s # t \/ j = PAGE_NSECT \/ j > k
  PROVE  Stored(e, s, v, k)
<1>1. PAGE_NSECT \in Nat \ {0} /\ s \in Nat /\ t \in Nat
  BY DiskConstants
<1>2. ASSUME NEW i \in 1 .. PAGE_NSECT - 1, i <= k
      PROVE  e[Sector(s, i)] = Ide!PageOf(v)[i]
  <2>1. Sector(s, i) # Sector(t, j)
    <3>1. i \in 1 .. PAGE_NSECT /\ (s # t \/ i # j)
      BY <1>1, <1>2
    <3> QED  BY <1>1, <3>1, SectorsApart
  <2>2. Sector(s, i) \in Ide!Sectors
    <3>1. i \in 1 .. PAGE_NSECT
      BY <1>1
    <3> QED  BY <3>1, SectorSteps
  <2>3. d[Sector(s, i)] = Ide!PageOf(v)[i]
    BY <1>2 DEF Stored
  <2> QED  BY <2>1, <2>2, <2>3 DEF Puts
<1> QED  BY <1>2 DEF Stored

(* The next sector is stored.                                              *)
LEMMA StoredNext ==
  ASSUME NEW d, d \in [Ide!Sectors -> DiskPart], NEW s \in Slot, NEW k \in 1 .. PAGE_NSECT,
         NEW v, NEW e, Puts(d, s, k, Ide!PageOf(v)[k], e), Stored(d, s, v, k - 1)
  PROVE  Stored(e, s, v, k)
<1>1. PAGE_NSECT \in Nat \ {0} /\ s \in Nat
  BY DiskConstants
<1>2. Stored(e, s, v, k - 1)
  <2>1. k - 1 \in Int /\ k > k - 1
    BY <1>1
  <2> QED  BY <2>1, StoredElsewhere
<1>3. e[Sector(s, k)] = Ide!PageOf(v)[k]
  BY SectorSteps DEF Puts
<1>4. ASSUME NEW i \in 1 .. PAGE_NSECT - 1, i <= k
      PROVE  e[Sector(s, i)] = Ide!PageOf(v)[i]
  <2>1. CASE i <= k - 1
    BY <1>2, <2>1 DEF Stored
  <2>2. CASE i = k
    BY <1>3, <2>2
  <2> QED  BY <1>1, <1>4, <2>1, <2>2
<1> QED  BY <1>4 DEF Stored

(* The part i of the page v.                                               *)
LEMMA PartFacts ==
  ASSUME NEW v \in Content, NEW i \in 1 .. PAGE_NSECT
  PROVE  Ide!PageOf(v)[i] \in DiskPart /\ Ide!PageOf(v)[i] # Ide!Blank /\ Ide!PageOf(v)[i].page = v
<1>1. Ide!PageOf(v)[i] = [page |-> v, part |-> i]
  BY DEF Ide!PageOf
<1>2. PAGE_NSECT \in Nat \ {0}
  BY DiskConstants
<1>3. [page |-> v, part |-> i] # [page |-> "blank", part |-> 0]
  <2>1. [page |-> v, part |-> i].part = i /\ [page |-> "blank", part |-> 0].part = 0 /\ i # 0
    BY <1>2
  <2> QED  BY <2>1
<1>4. [page |-> v, part |-> i] \in DiskPart
  BY <1>2 DEF DiskPart
<1> QED  BY <1>1, <1>3, <1>4 DEF Ide!Blank

(* Different contents make different pages.                                *)
LEMMA PagesDiffer ==
  ASSUME NEW v \in Content, NEW w \in Content, NEW pg, pg = Ide!PageOf(v), pg = Ide!PageOf(w)
  PROVE  v = w
<1>1. 1 \in 1 .. PAGE_NSECT
  BY DiskConstants
<1>2. Ide!PageOf(v)[1].page = v /\ Ide!PageOf(w)[1].page = w
  BY <1>1, PartFacts
<1> QED  BY <1>2

(* At the start the disk is idle and blank.                                *)
LEMMA DiskInitInv ==
  ASSUME Ide!Init
  PROVE  DiskInv
<1>1. PAGE_NSECT \in Nat \ {0} /\ Slot \subseteq Nat
  BY DiskConstants
<1>2. Ide!Blank \in DiskPart
  BY <1>1 DEF Ide!Blank, DiskPart
<1>3. /\ device = [x \in Ide!Sectors |-> Ide!Blank] /\ disk = Ide!Quiet /\ op = Ide!NoOp
      /\ swapped = [x \in Slot |-> "none"]
  BY DEF Ide!Init
<1>4. disk.data = Ide!Blank
  BY <1>3 DEF Ide!Quiet
<1>5. op.pc = "idle"
  BY <1>3 DEF Ide!NoOp
<1>6. disk \in [busy : BOOLEAN, err : BOOLEAN, secno : Nat, left : Int, data : DiskPart]
  BY <1>2, <1>3 DEF Ide!Quiet
<1>7. op \in [pc : {"idle", "setup", "transfer", "over"}, cmd : {"none", "read", "write"}, slot : Nat,
               page : Seq(DiskPart), nsecs : 0 .. PAGE_NSECT, ret : {0, -1}]
  <2>1. << >> \in Seq(DiskPart) /\ 0 \in 0 .. PAGE_NSECT
    BY <1>1
  <2> QED  BY <1>3, <2>1 DEF Ide!NoOp
<1>8. DiskType
  BY <1>2, <1>3, <1>5, <1>6, <1>7 DEF DiskType
<1> QED  BY <1>3, <1>4, <1>5, <1>8 DEF DiskInv

(* swapfs_write and swapfs_read begin.                                     *)
LEMMA BeginInv ==
  ASSUME DiskInv, NEW s \in Slot,
         NEW cmd \in {"read", "write"}, NEW pg \in Seq(DiskPart),
         cmd = "write" => \E v \in Content : pg = Ide!PageOf(v),
         cmd = "read" => pg = << >> /\ swapped[s] # "none",
         Ide!Begin(cmd, s, pg)
  PROVE  DiskInv'
<1>1. PAGE_NSECT \in Nat \ {0} /\ Slot \subseteq Nat
  BY DiskConstants
<1>2. /\ op.pc = "idle"
      /\ op' = [pc |-> "setup", cmd |-> cmd, slot |-> s, page |-> pg, nsecs |-> PAGE_NSECT, ret |-> 0]
      /\ UNCHANGED <<device, disk, swapped>>
  BY DEF Ide!Begin
<1>3. /\ op'.pc = "setup" /\ op'.cmd = cmd /\ op'.slot = s /\ op'.page = pg
      /\ op'.nsecs = PAGE_NSECT /\ op'.ret = 0
  BY <1>2
<1>4. op' \in [pc : {"idle", "setup", "transfer", "over"}, cmd : {"none", "read", "write"}, slot : Nat,
               page : Seq(DiskPart), nsecs : 0 .. PAGE_NSECT, ret : {0, -1}]
  <2>1. PAGE_NSECT \in 0 .. PAGE_NSECT /\ s \in Nat
    BY <1>1
  <2> QED  BY <1>2, <2>1
<1>5. DiskType'
  BY <1>2, <1>3, <1>4 DEF DiskInv, DiskType
<1>6. \A t \in Slot : swapped[t] # "none" => Stored(device, t, swapped[t], PAGE_NSECT)
  BY <1>2 DEF DiskInv, Writing
<1>7. \A t \in Slot : (swapped[t] # "none" /\ ~Writing(t) => Stored(device, t, swapped[t], PAGE_NSECT))'
  BY <1>2, <1>6 DEF Stored
<1>8. disk.data # Ide!Blank => \E t \in Slot : disk.secno = Sector(t, PAGE_NSECT)
  BY <1>2 DEF DiskInv
<1>9. (op.pc # "transfer" /\ disk.data # Ide!Blank => \E t \in Slot : disk.secno = Sector(t, PAGE_NSECT))'
  BY <1>2, <1>8 DEF Sector
<1> QED  BY <1>2, <1>3, <1>5, <1>7, <1>9 DEF DiskInv

(* ide_read_secs and ide_write_secs give the command, and wait for the     *)
(* disk.                                                                   *)
LEMMA CommandInv ==
  ASSUME DiskInv, Ide!Command
  PROVE  DiskInv'
<1>1. PAGE_NSECT \in Nat \ {0} /\ Slot \subseteq Nat
  BY DiskConstants
<1>2. DiskType
  BY DEF DiskInv
<1>3. /\ op.pc = "setup" /\ ~disk.busy /\ op' = [op EXCEPT !.pc = "transfer"]
      /\ disk' = [busy |-> op.cmd = "read", err |-> FALSE, data |-> Ide!Blank,
                  secno |-> op.slot * PAGE_NSECT, left |-> PAGE_NSECT]
      /\ UNCHANGED <<device, swapped>>
  BY DEF Ide!Command, Ide!WaitReady
<1>4. /\ op' \in [pc : {"idle", "setup", "transfer", "over"}, cmd : {"none", "read", "write"}, slot : Nat,
                 page : Seq(DiskPart), nsecs : 0 .. PAGE_NSECT, ret : {0, -1}]
      /\ op'.pc = "transfer" /\ op'.cmd = op.cmd /\ op'.slot = op.slot /\ op'.page = op.page
      /\ op'.nsecs = op.nsecs /\ op'.ret = op.ret
  BY <1>2, <1>3 DEF DiskType
<1>5. /\ op.slot \in Slot /\ op.nsecs = PAGE_NSECT /\ op.ret = 0 /\ op.cmd \in {"read", "write"}
      /\ op.cmd = "read" => op.page = << >> /\ swapped[op.slot] # "none"
      /\ op.cmd = "write" => \E v \in Content : op.page = Ide!PageOf(v)
  BY <1>3 DEF DiskInv, DiskType
<1>6. Sector(op.slot, 1) = op.slot * PAGE_NSECT /\ Sector(op.slot, 1) \in Nat
  BY <1>1, <1>5, SectorSteps
<1>7. /\ disk'.busy = (op.cmd = "read") /\ disk'.err = FALSE /\ disk'.data = Ide!Blank
      /\ disk'.secno = Sector(op.slot, 1) /\ disk'.left = PAGE_NSECT
  BY <1>3, <1>6
<1>8. disk' \in [busy : BOOLEAN, err : BOOLEAN, secno : Nat, left : Int, data : DiskPart]
  <2>1. Ide!Blank \in DiskPart
    BY <1>1 DEF Ide!Blank, DiskPart
  <2>2. op.slot * PAGE_NSECT \in Nat /\ PAGE_NSECT \in Int
    BY <1>1, <1>6
  <2> QED  BY <1>3, <2>1, <2>2
<1>9. DiskType'
  BY <1>2, <1>3, <1>4, <1>5, <1>8 DEF DiskType
<1>10. \A t \in Slot : (swapped[t] # "none" /\ ~Writing(t) => Stored(device, t, swapped[t], PAGE_NSECT))'
  BY <1>3, <1>4 DEF DiskInv, Writing, Stored
<1>11. PAGE_NSECT - op'.nsecs = 0 /\ PAGE_NSECT - op'.nsecs + 1 = 1 /\ op'.nsecs # 0
  BY <1>1, <1>4, <1>5
<1>12. (op.pc = "transfer" /\ op.cmd = "read" =>
         /\ disk.data = Ide!Blank /\ ReadSoFar(PAGE_NSECT - op.nsecs)
         /\ op.nsecs > 0 => disk.secno = Sector(op.slot, PAGE_NSECT - op.nsecs + 1) /\ disk.left = op.nsecs)'
  <2> SUFFICES ASSUME op.cmd = "read"
               PROVE  /\ disk'.data = Ide!Blank /\ ReadSoFar(PAGE_NSECT - op.nsecs)'
                      /\ disk'.secno = Sector(op'.slot, PAGE_NSECT - op'.nsecs + 1) /\ disk'.left = op'.nsecs
    BY <1>4 DEF Sector
  <2>1. Len(op'.page) = 0
    BY <1>4, <1>5
  <2>2. ReadSoFar(PAGE_NSECT - op.nsecs)'
    BY <1>1, <1>11, <2>1 DEF ReadSoFar
  <2> QED  BY <1>4, <1>5, <1>7, <1>11, <2>2
<1>13. ASSUME NEW v \in Content, op.cmd = "write"
       PROVE  WrittenSoFar(v)'
  <2>1. Stored(device', op'.slot, v, 0)
    BY DEF Stored
  <2>2. ~disk'.busy
    BY <1>7, <1>13
  <2> QED  BY <1>4, <1>7, <1>11, <2>1, <2>2 DEF WrittenSoFar, Sector
<1> QED  BY <1>3, <1>4, <1>5, <1>9, <1>10, <1>12, <1>13 DEF DiskInv

(* The sector on its way is stored: it is one of the page that is being    *)
(* written, or the last of a page written before.                          *)
LEMMA DiskReadyInv ==
  ASSUME DiskInv, Ide!DiskReady
  PROVE  DiskInv'
<1>1. PAGE_NSECT \in Nat \ {0} /\ Slot \subseteq Nat
  BY DiskConstants
<1>2. DiskType
  BY DEF DiskInv
<1>3. /\ disk.busy
      /\ device' = IF disk.data = Ide!Blank THEN device ELSE [device EXCEPT ![disk.secno] = disk.data]
      /\ disk' = [disk EXCEPT !.busy = FALSE, !.data = Ide!Blank, !.secno = IF disk.data = Ide!Blank THEN @ ELSE @ + 1]
      /\ UNCHANGED <<op, swapped>>
  BY DEF Ide!DiskReady
<1>4. Ide!Blank \in DiskPart
  BY <1>1 DEF Ide!Blank, DiskPart
<1>5. /\ disk'.busy = FALSE /\ disk'.data = Ide!Blank /\ disk'.err = disk.err /\ disk'.left = disk.left
      /\ disk'.secno = IF disk.data = Ide!Blank THEN disk.secno ELSE disk.secno + 1
      /\ disk' \in [busy : BOOLEAN, err : BOOLEAN, secno : Nat, left : Int, data : DiskPart]
  <2>1. disk \in [busy : BOOLEAN, err : BOOLEAN, secno : Nat, left : Int, data : DiskPart]
    BY <1>2 DEF DiskType
  <2>2. (IF disk.data = Ide!Blank THEN disk.secno ELSE disk.secno + 1) \in Nat
    BY <2>1
  <2> QED  BY <1>3, <1>4, <2>1, <2>2
<1>6. DiskType'
  <2>1. device' \in [Ide!Sectors -> DiskPart]
    BY <1>2, <1>3 DEF DiskType
  <2> QED  BY <1>2, <1>3, <1>5, <2>1 DEF DiskType
<1>7. CASE disk.data = Ide!Blank
  <2>1. device' = device /\ disk'.secno = disk.secno /\ op' = op /\ swapped' = swapped
    BY <1>3, <1>5, <1>7
  <2>2. \A t \in Slot : (swapped[t] # "none" /\ ~Writing(t) => Stored(device, t, swapped[t], PAGE_NSECT))'
    BY <2>1 DEF DiskInv, Writing, Stored
  <2>3. ASSUME NEW v \in Content, op.pc = "transfer", op.cmd = "write", op.page = Ide!PageOf(v)
        PROVE  WrittenSoFar(v)'
    BY <1>3, <1>5, <1>7, <2>1, <2>3 DEF DiskInv, WrittenSoFar, Stored
  <2> QED  BY <1>5, <1>6, <1>7, <2>1, <2>2, <2>3 DEF DiskInv, ReadSoFar, Sector, Stored
<1>8. CASE disk.data # Ide!Blank
  <2>1. device' = [device EXCEPT ![disk.secno] = disk.data] /\ disk'.secno = disk.secno + 1
    BY <1>3, <1>5, <1>8
  <2>2. device \in [Ide!Sectors -> DiskPart] /\ op.nsecs \in 0 .. PAGE_NSECT
    BY <1>2 DEF DiskType
  <2>3. CASE op.pc = "transfer"
    <3>1. op.cmd = "write" /\ op.slot \in Slot
      BY <1>2, <1>8, <2>3 DEF DiskInv, DiskType
    <3>2. PICK v \in Content : op.page = Ide!PageOf(v)
      BY <2>3, <3>1 DEF DiskInv
    <3>3. /\ op.nsecs < PAGE_NSECT
          /\ disk.secno = Sector(op.slot, PAGE_NSECT - op.nsecs)
          /\ disk.data = Ide!PageOf(v)[PAGE_NSECT - op.nsecs]
          /\ Stored(device, op.slot, v, PAGE_NSECT - op.nsecs - 1)
      BY <1>8, <2>3, <3>1, <3>2 DEF DiskInv, WrittenSoFar
    <3> DEFINE k == PAGE_NSECT - op.nsecs
    <3>4. k \in 1 .. PAGE_NSECT /\ (op.nsecs = 0 => k = PAGE_NSECT)
      BY <1>1, <2>2, <3>3
    <3>5. Puts(device, op.slot, k, Ide!PageOf(v)[k], device') /\ Stored(device, op.slot, v, k - 1)
      BY <2>1, <3>3 DEF Puts
    <3> HIDE DEF k
    <3>6. Stored(device', op.slot, v, k)
      BY <2>2, <3>1, <3>4, <3>5, StoredNext
    <3>7. disk'.secno = Sector(op.slot, k + 1)
      BY <2>1, <3>1, <3>3, <3>4, SectorSteps DEF k
    <3>8. ASSUME NEW t \in Slot, swapped[t] # "none", ~Writing(t)
          PROVE  Stored(device', t, swapped[t], PAGE_NSECT)
      <4>1. t # op.slot
        BY <2>3, <3>1, <3>8 DEF Writing
      <4>2. Stored(device, t, swapped[t], PAGE_NSECT)
        BY <3>8 DEF DiskInv
      <4>3. PAGE_NSECT \in Int
        BY <1>1
      <4> QED  BY <2>2, <3>1, <3>4, <3>5, <4>1, <4>2, <4>3, StoredElsewhere
    <3>9. \A t \in Slot : (swapped[t] # "none" /\ ~Writing(t) => Stored(device, t, swapped[t], PAGE_NSECT))'
      BY <1>3, <3>8 DEF Writing, Stored
    <3>10. ASSUME NEW w \in Content, op.page = Ide!PageOf(w)
           PROVE  WrittenSoFar(w)'
      <4>1. w = v
        BY <3>2, <3>10, PagesDiffer
      <4>2. op' = op /\ (op.nsecs = 0 => Stored(device', op.slot, v, PAGE_NSECT)) /\ PAGE_NSECT - op.nsecs = k
        BY <1>3, <3>4, <3>6 DEF k
      <4> QED  BY <1>5, <3>6, <3>7, <4>1, <4>2 DEF WrittenSoFar, Sector, Stored
    <3> QED  BY <1>3, <1>5, <1>6, <2>3, <3>1, <3>9, <3>10 DEF DiskInv, ReadSoFar, Sector, Stored
  <2>4. CASE op.pc # "transfer"
    <3>1. PICK u \in Slot : disk.secno = Sector(u, PAGE_NSECT)
      BY <1>8, <2>4 DEF DiskInv
    <3>2. ASSUME NEW t \in Slot, NEW v, Stored(device, t, v, PAGE_NSECT)
          PROVE  Stored(device', t, v, PAGE_NSECT)
      <4>1. PAGE_NSECT \in 1 .. PAGE_NSECT /\ PAGE_NSECT \in Int
        BY <1>1
      <4>2. Puts(device, u, PAGE_NSECT, disk.data, device')
        BY <2>1, <3>1 DEF Puts
      <4> QED  BY <2>2, <3>1, <3>2, <4>1, <4>2, StoredElsewhere
    <3>3. \A t \in Slot : (swapped[t] # "none" /\ ~Writing(t) => Stored(device, t, swapped[t], PAGE_NSECT))'
      <4>1. \A t \in Slot : swapped[t] # "none" /\ ~Writing(t) => Stored(device', t, swapped[t], PAGE_NSECT)
        BY <3>2 DEF DiskInv
      <4> QED  BY <1>3, <4>1 DEF Writing, Stored
    <3>4. (op.pc = "over" /\ op.cmd = "write" /\ op.ret = 0 =>
             \A v \in Content : op.page = Ide!PageOf(v) => Stored(device, op.slot, v, PAGE_NSECT))'
      <4> SUFFICES ASSUME op.pc = "over", op.cmd = "write", op.ret = 0, NEW v \in Content, op.page = Ide!PageOf(v)
                   PROVE  Stored(device', op.slot, v, PAGE_NSECT)
        BY <1>3 DEF Stored
      <4>1. Stored(device, op.slot, v, PAGE_NSECT) /\ op.slot \in Slot
        BY <1>2 DEF DiskInv, DiskType
      <4> QED  BY <3>2, <4>1
    <3> QED  BY <1>3, <1>5, <1>6, <2>4, <3>3, <3>4 DEF DiskInv, ReadSoFar
  <2> QED  BY <2>3, <2>4
<1> QED  BY <1>7, <1>8

(* The disk reports an error.                                              *)
LEMMA DiskFailsInv ==
  ASSUME DiskInv, Ide!DiskFails
  PROVE  DiskInv'
<1>1. PAGE_NSECT \in Nat \ {0} /\ Slot \subseteq Nat
  BY DiskConstants
<1>2. DiskType
  BY DEF DiskInv
<1>3. /\ disk.busy /\ disk' = [disk EXCEPT !.busy = FALSE, !.data = Ide!Blank, !.err = TRUE]
      /\ UNCHANGED <<device, op, swapped>>
  BY DEF Ide!DiskFails
<1>4. Ide!Blank \in DiskPart
  BY <1>1 DEF Ide!Blank, DiskPart
<1>5. /\ disk'.busy = FALSE /\ disk'.data = Ide!Blank /\ disk'.err = TRUE /\ disk'.left = disk.left
      /\ disk'.secno = disk.secno
      /\ disk' \in [busy : BOOLEAN, err : BOOLEAN, secno : Nat, left : Int, data : DiskPart]
  BY <1>2, <1>3, <1>4 DEF DiskType
<1>6. DiskType'
  BY <1>2, <1>3, <1>5 DEF DiskType
<1>7. \A t \in Slot : (swapped[t] # "none" /\ ~Writing(t) => Stored(device, t, swapped[t], PAGE_NSECT))'
  BY <1>3 DEF DiskInv, Writing, Stored
<1>8. ASSUME NEW v \in Content, op.pc = "transfer", op.cmd = "write", op.page = Ide!PageOf(v)
      PROVE  WrittenSoFar(v)'
  BY <1>3, <1>5, <1>8 DEF DiskInv, WrittenSoFar, Stored
<1> QED  BY <1>3, <1>5, <1>6, <1>7, <1>8 DEF DiskInv, ReadSoFar, Sector, Stored

(* The transfer is over, after an error or after the last sector.          *)
LEMMA OverInv ==
  ASSUME DiskInv, Ide!GivesUp \/ Ide!Finished
  PROVE  DiskInv'
<1>1. PAGE_NSECT \in Nat \ {0} /\ Slot \subseteq Nat
  BY DiskConstants
<1>2. DiskType
  BY DEF DiskInv
<1>3. /\ op.pc = "transfer" /\ UNCHANGED <<device, disk, swapped>>
      /\ op' \in [pc : {"idle", "setup", "transfer", "over"}, cmd : {"none", "read", "write"}, slot : Nat,
                 page : Seq(DiskPart), nsecs : 0 .. PAGE_NSECT, ret : {0, -1}]
      /\ op'.pc = "over" /\ op'.cmd = op.cmd /\ op'.slot = op.slot /\ op'.page = op.page
      /\ op'.nsecs = op.nsecs
      /\ op'.ret = -1 \/ (op'.ret = op.ret /\ op.nsecs = 0)
      /\ op.nsecs # 0 => ~disk.busy
  <2>1. CASE Ide!GivesUp
    BY <1>2, <2>1 DEF DiskType, Ide!GivesUp, Ide!Transferring, Ide!WaitReady
  <2>2. CASE Ide!Finished
    BY <1>2, <2>2 DEF DiskType, Ide!Finished
  <2> QED  BY <2>1, <2>2
<1>4. op.slot \in Slot /\ op.cmd \in {"read", "write"} /\ op.nsecs \in 0 .. PAGE_NSECT
  BY <1>2, <1>3 DEF DiskType
<1>5. DiskType'
  BY <1>2, <1>3, <1>4 DEF DiskType
<1>6. \A t \in Slot : (swapped[t] # "none" /\ ~Writing(t) => Stored(device, t, swapped[t], PAGE_NSECT))'
  BY <1>3 DEF DiskInv, Writing, Stored
<1>7. ASSUME op.cmd = "read", op'.ret = 0
      PROVE  ReadSoFar(PAGE_NSECT)'
  <2>1. op.nsecs = 0 /\ PAGE_NSECT - op.nsecs = PAGE_NSECT
    BY <1>1, <1>3, <1>7
  <2>2. ReadSoFar(PAGE_NSECT)
    BY <1>3, <1>7, <2>1 DEF DiskInv
  <2> QED  BY <1>3, <2>2 DEF ReadSoFar
<1>8. ASSUME op.cmd = "write", op'.ret = 0, NEW v \in Content, op.page = Ide!PageOf(v)
      PROVE  Stored(device, op.slot, v, PAGE_NSECT)
  BY <1>3, <1>8 DEF DiskInv, WrittenSoFar
<1>9. ASSUME disk.data # Ide!Blank
      PROVE  \E t \in Slot : disk.secno = Sector(t, PAGE_NSECT)
  <2>1. op.cmd = "write"
    BY <1>3, <1>4, <1>9 DEF DiskInv
  <2>2. PICK v \in Content : op.page = Ide!PageOf(v)
    BY <1>3, <2>1 DEF DiskInv
  <2>3. disk.busy /\ disk.secno = Sector(op.slot, PAGE_NSECT - op.nsecs)
    BY <1>3, <1>9, <2>1, <2>2 DEF DiskInv, WrittenSoFar
  <2>4. op.nsecs = 0 /\ PAGE_NSECT - op.nsecs = PAGE_NSECT
    BY <1>1, <1>3, <2>3
  <2> QED  BY <1>4, <2>3, <2>4
<1>10. (op.pc # "transfer" /\ disk.data # Ide!Blank => \E t \in Slot : disk.secno = Sector(t, PAGE_NSECT))'
  BY <1>3, <1>9 DEF Sector
<1>11. (op.pc # "idle" /\ op.cmd = "write" => \E v \in Content : op.page = Ide!PageOf(v))'
  BY <1>3 DEF DiskInv
<1>12. (op.pc # "idle" /\ op.cmd = "read" => swapped[op.slot] # "none")'
  BY <1>3 DEF DiskInv
<1>13. (op.pc = "over" /\ op.cmd = "write" /\ op.ret = 0 =>
         \A v \in Content : op.page = Ide!PageOf(v) => Stored(device, op.slot, v, PAGE_NSECT))'
  BY <1>3, <1>8 DEF Stored
<1> QED  BY <1>3, <1>5, <1>6, <1>7, <1>10, <1>11, <1>12, <1>13 DEF DiskInv

(* The driver takes the sector that is ready.                              *)
LEMMA ReadSectorInv ==
  ASSUME DiskInv, Ide!ReadSector
  PROVE  DiskInv'
<1>1. PAGE_NSECT \in Nat \ {0} /\ Slot \subseteq Nat
  BY DiskConstants
<1>2. DiskType
  BY DEF DiskInv
<1>3. /\ op.pc = "transfer" /\ op.cmd = "read" /\ op.nsecs > 0 /\ ~disk.err
      /\ op' = [op EXCEPT !.nsecs = @ - 1, !.page = Append(@, IF disk.err THEN Ide!Blank ELSE device[disk.secno])]
      /\ disk' = IF disk.left > 1 THEN [disk EXCEPT !.left = @ - 1, !.secno = @ + 1, !.busy = TRUE] ELSE Ide!Quiet
      /\ UNCHANGED <<device, swapped>>
  BY DEF Ide!ReadSector, Ide!Transferring, Ide!Reported
<1>4. op.slot \in Slot /\ op.nsecs \in 1 .. PAGE_NSECT /\ op.page \in Seq(DiskPart)
  BY <1>1, <1>2, <1>3 DEF DiskType
<1>5. /\ disk.data = Ide!Blank /\ ReadSoFar(PAGE_NSECT - op.nsecs)
      /\ disk.secno = Sector(op.slot, PAGE_NSECT - op.nsecs + 1) /\ disk.left = op.nsecs
      /\ op.ret = 0 /\ swapped[op.slot] # "none"
  BY <1>3, <1>4 DEF DiskInv
<1> DEFINE k == PAGE_NSECT - op.nsecs + 1
           x == device[disk.secno]
<1>6. k \in 1 .. PAGE_NSECT /\ PAGE_NSECT - (op.nsecs - 1) = k /\ k - 1 = PAGE_NSECT - op.nsecs /\ op.nsecs - 1 \in 0 .. PAGE_NSECT
  BY <1>1, <1>4
<1>7. x \in DiskPart
  <2>1. disk.secno \in Ide!Sectors
    BY <1>4, <1>5, <1>6, SectorSteps
  <2> QED  BY <1>2, <2>1 DEF DiskType
<1>8. k < PAGE_NSECT => x = Ide!PageOf(swapped[op.slot])[k]
  <2> SUFFICES ASSUME k < PAGE_NSECT
               PROVE  x = Ide!PageOf(swapped[op.slot])[k]
    OBVIOUS
  <2>1. Stored(device, op.slot, swapped[op.slot], PAGE_NSECT)
    BY <1>3, <1>4, <1>5 DEF DiskInv, Writing
  <2>2. k \in 1 .. PAGE_NSECT - 1 /\ k <= PAGE_NSECT
    BY <1>1, <1>6
  <2> QED  BY <1>5, <2>1, <2>2 DEF Stored
<1> HIDE DEF x, k
<1>9. /\ Append(op.page, x) \in Seq(DiskPart) /\ Len(Append(op.page, x)) = k
      /\ \A i \in 1 .. k - 1 : Append(op.page, x)[i] = op.page[i]
      /\ Append(op.page, x)[k] = x
  <2>1. Len(op.page) = k - 1
    BY <1>5, <1>6 DEF ReadSoFar
  <2> QED  BY <1>4, <1>6, <1>7, <2>1, AppendProperties
<1>10. /\ op' \in [pc : {"idle", "setup", "transfer", "over"}, cmd : {"none", "read", "write"}, slot : Nat,
                 page : Seq(DiskPart), nsecs : 0 .. PAGE_NSECT, ret : {0, -1}]
       /\ op'.pc = op.pc /\ op'.cmd = op.cmd /\ op'.slot = op.slot /\ op'.page = Append(op.page, x)
       /\ op'.nsecs = op.nsecs - 1 /\ op'.ret = op.ret
  <2>1. op' = [op EXCEPT !.nsecs = op.nsecs - 1, !.page = Append(op.page, x)]
    BY <1>2, <1>3 DEF DiskType, x
  <2> QED  BY <1>2, <1>6, <1>9, <2>1 DEF DiskType
<1>11. /\ Len(op'.page) = k
       /\ \A i \in 1 .. PAGE_NSECT - 1 : i <= k => op'.page[i] = Ide!PageOf(swapped'[op'.slot])[i]
  <2>1. ASSUME NEW i \in 1 .. PAGE_NSECT - 1, i <= k
        PROVE  op'.page[i] = Ide!PageOf(swapped[op.slot])[i]
    <3>1. CASE i = k
      <4>1. k < PAGE_NSECT
        BY <1>1, <3>1
      <4> QED  BY <1>8, <1>9, <1>10, <3>1, <4>1
    <3>2. CASE i # k
      <4>1. i \in 1 .. k - 1 /\ i <= PAGE_NSECT - op.nsecs
        BY <1>1, <1>6, <2>1, <3>2
      <4>2. op.page[i] = Ide!PageOf(swapped[op.slot])[i]
        BY <1>5, <4>1 DEF ReadSoFar
      <4> QED  BY <1>9, <1>10, <4>1, <4>2
    <3> QED  BY <3>1, <3>2
  <2>2. Len(op'.page) = k
    BY <1>9, <1>10
  <2>3. op'.slot = op.slot /\ swapped' = swapped
    BY <1>3, <1>10
  <2>4. \A i \in 1 .. PAGE_NSECT - 1 : i <= k => op'.page[i] = Ide!PageOf(swapped'[op'.slot])[i]
    BY <2>1, <2>3
  <2> QED  BY <2>2, <2>4
<1>12. /\ disk' \in [busy : BOOLEAN, err : BOOLEAN, secno : Nat, left : Int, data : DiskPart]
       /\ disk'.data = Ide!Blank
       /\ op.nsecs - 1 > 0 => disk'.secno = Sector(op.slot, k + 1) /\ disk'.left = op.nsecs - 1
  <2>1. disk \in [busy : BOOLEAN, err : BOOLEAN, secno : Nat, left : Int, data : DiskPart]
    BY <1>2 DEF DiskType
  <2>2. CASE disk.left > 1
    <3>1. disk.secno + 1 = Sector(op.slot, k + 1)
      BY <1>4, <1>5, <1>6, SectorSteps DEF k
    <3>2. disk' = [disk EXCEPT !.left = disk.left - 1, !.secno = disk.secno + 1, !.busy = TRUE]
      BY <1>3, <2>1, <2>2
    <3>3. disk.left - 1 \in Int /\ disk.secno + 1 \in Nat
      BY <2>1
    <3>4. /\ disk' \in [busy : BOOLEAN, err : BOOLEAN, secno : Nat, left : Int, data : DiskPart]
          /\ disk'.data = disk.data /\ disk'.secno = disk.secno + 1 /\ disk'.left = disk.left - 1
      BY ONLY <2>1, <3>2, <3>3
    <3> QED  BY <1>5, <3>1, <3>4
  <2>3. CASE ~ (disk.left > 1)
    <3>1. disk' = Ide!Quiet
      BY <1>3, <2>3
    <3>2. Ide!Blank \in DiskPart
      BY <1>1 DEF Ide!Blank, DiskPart
    <3> QED  BY <1>4, <1>5, <2>3, <3>1, <3>2 DEF Ide!Quiet
  <2> QED  BY <2>2, <2>3
<1>13. DiskType'
  BY <1>2, <1>3, <1>10, <1>12 DEF DiskType
<1>14. \A t \in Slot : (swapped[t] # "none" /\ ~Writing(t) => Stored(device, t, swapped[t], PAGE_NSECT))'
  BY <1>3, <1>10 DEF DiskInv, Writing, Stored
<1>15. PAGE_NSECT - op'.nsecs = k
  BY ONLY <1>6, <1>10
<1>16. (op.pc = "transfer" /\ op.cmd = "read" =>
         /\ disk.data = Ide!Blank /\ ReadSoFar(PAGE_NSECT - op.nsecs)
         /\ op.nsecs > 0 => disk.secno = Sector(op.slot, PAGE_NSECT - op.nsecs + 1) /\ disk.left = op.nsecs)'
  <2>1. ReadSoFar(PAGE_NSECT - op.nsecs)'
    BY ONLY <1>11, <1>15 DEF ReadSoFar
  <2>2. op'.nsecs > 0 => disk'.secno = Sector(op'.slot, PAGE_NSECT - op'.nsecs + 1) /\ disk'.left = op'.nsecs
    BY <1>10, <1>12, <1>15
  <2> QED  BY <1>12, <2>1, <2>2 DEF Sector
<1> QED  BY <1>3, <1>5, <1>10, <1>12, <1>13, <1>14, <1>16 DEF DiskInv

(* The driver gives the disk the next sector.                              *)
LEMMA WriteSectorInv ==
  ASSUME DiskInv, Ide!WriteSector
  PROVE  DiskInv'
<1>1. PAGE_NSECT \in Nat \ {0} /\ Slot \subseteq Nat
  BY DiskConstants
<1>2. DiskType
  BY DEF DiskInv
<1>3. /\ op.pc = "transfer" /\ ~disk.busy /\ op.cmd = "write" /\ op.nsecs > 0 /\ ~disk.err
      /\ op' = [op EXCEPT !.nsecs = @ - 1]
      /\ disk' = [disk EXCEPT !.left = @ - 1, !.busy = TRUE, !.data = op.page[PAGE_NSECT - op.nsecs + 1]]
      /\ UNCHANGED <<device, swapped>>
  BY DEF Ide!WriteSector, Ide!Transferring, Ide!WaitReady, Ide!Reported
<1>4. op.slot \in Slot /\ op.nsecs \in 1 .. PAGE_NSECT /\ op.ret = 0
  BY <1>1, <1>2, <1>3 DEF DiskType, DiskInv
<1>5. PICK v \in Content : op.page = Ide!PageOf(v)
  BY <1>3 DEF DiskInv
<1>6. /\ disk.data = Ide!Blank /\ disk.secno = Sector(op.slot, PAGE_NSECT - op.nsecs + 1)
      /\ Stored(device, op.slot, v, PAGE_NSECT - op.nsecs)
  BY <1>3, <1>5 DEF DiskInv, WrittenSoFar
<1> DEFINE k == PAGE_NSECT - op.nsecs + 1
<1>7. k \in 1 .. PAGE_NSECT /\ PAGE_NSECT - (op.nsecs - 1) = k /\ k - 1 = PAGE_NSECT - op.nsecs /\ op.nsecs - 1 \in 0 .. PAGE_NSECT - 1
  BY <1>1, <1>4
<1>8. /\ op'.pc = op.pc /\ op'.cmd = op.cmd /\ op'.slot = op.slot /\ op'.page = op.page
      /\ op'.nsecs = op.nsecs - 1 /\ op'.ret = op.ret
      /\ op' \in [pc : {"idle", "setup", "transfer", "over"}, cmd : {"none", "read", "write"}, slot : Nat,
                 page : Seq(DiskPart), nsecs : 0 .. PAGE_NSECT, ret : {0, -1}]
  <2>1. op \in [pc : {"idle", "setup", "transfer", "over"}, cmd : {"none", "read", "write"}, slot : Nat,
               page : Seq(DiskPart), nsecs : 0 .. PAGE_NSECT, ret : {0, -1}]
    BY <1>2 DEF DiskType
  <2>2. op' = [op EXCEPT !.nsecs = op.nsecs - 1] /\ op.nsecs - 1 \in 0 .. PAGE_NSECT
    BY <1>1, <1>3, <1>7, <2>1
  <2> QED  BY ONLY <2>1, <2>2
<1>9. op.page[k] = Ide!PageOf(v)[k] /\ op.page[k] \in DiskPart /\ op.page[k] # Ide!Blank
  BY <1>5, <1>7, PartFacts
<1>10. /\ disk'.busy = TRUE /\ disk'.err = disk.err /\ disk'.secno = disk.secno /\ disk'.data = op.page[k]
       /\ disk' \in [busy : BOOLEAN, err : BOOLEAN, secno : Nat, left : Int, data : DiskPart]
  <2>1. disk' = [disk EXCEPT !.left = @ - 1, !.busy = TRUE, !.data = op.page[k]]
    BY <1>3
  <2> HIDE DEF k
  <2>2. disk \in [busy : BOOLEAN, err : BOOLEAN, secno : Nat, left : Int, data : DiskPart]
    BY <1>2 DEF DiskType
  <2>3. disk' = [disk EXCEPT !.left = disk.left - 1, !.busy = TRUE, !.data = op.page[k]] /\ disk.left - 1 \in Int
    BY <2>1, <2>2
  <2> QED  BY ONLY <1>9, <2>2, <2>3
<1> HIDE DEF k
<1>11. DiskType'
  BY <1>2, <1>3, <1>8, <1>10 DEF DiskType
<1>12. \A t \in Slot : (swapped[t] # "none" /\ ~Writing(t) => Stored(device, t, swapped[t], PAGE_NSECT))'
  BY <1>3, <1>8 DEF DiskInv, Writing, Stored
<1>13. ASSUME NEW w \in Content, op.page = Ide!PageOf(w)
       PROVE  WrittenSoFar(w)'
  <2>1. w = v
    BY <1>5, <1>13, PagesDiffer
  <2>2. PAGE_NSECT - op'.nsecs = k /\ PAGE_NSECT - op'.nsecs - 1 = k - 1 /\ op'.nsecs < PAGE_NSECT
    BY <1>1, <1>7, <1>8
  <2>3. disk'.secno = Sector(op.slot, k) /\ Stored(device, op.slot, v, k - 1)
    BY <1>6, <1>7, <1>10 DEF k
  <2>4. disk'.data # Ide!Blank /\ disk'.data = Ide!PageOf(v)[k]
    BY <1>9, <1>10
  <2>5. op'.nsecs = 0 => Stored(device, op.slot, v, PAGE_NSECT)
    <3> SUFFICES ASSUME op'.nsecs = 0
                 PROVE  Stored(device, op.slot, v, PAGE_NSECT)
      OBVIOUS
    <3>1. k = PAGE_NSECT
      BY <1>1, <1>7, <1>8
    <3>2. \A i \in 1 .. PAGE_NSECT - 1 : i <= k - 1
      BY <1>1, <3>1
    <3> QED  BY <2>3, <3>2 DEF Stored
  <2>6. device' = device /\ op'.slot = op.slot
    BY <1>3, <1>8
  <2> HIDE DEF k
  <2> QED  BY <1>10, <2>1, <2>2, <2>3, <2>4, <2>5, <2>6 DEF WrittenSoFar, Sector, Stored
<1>14. (op.pc # "idle" /\ op.cmd = "write" => \E u \in Content : op.page = Ide!PageOf(u))'
  BY <1>5, <1>8
<1> QED  BY <1>3, <1>4, <1>8, <1>11, <1>12, <1>13, <1>14 DEF DiskInv

(* Back in the caller: the slot holds the page if the write returned 0.    *)
LEMMA ReturnInv ==
  ASSUME DiskInv, Ide!Return
  PROVE  DiskInv'
<1>1. PAGE_NSECT \in Nat \ {0} /\ Slot \subseteq Nat
  BY DiskConstants
<1>2. DiskType
  BY DEF DiskInv
<1>3. /\ op.pc = "over" /\ op' = Ide!NoOp
      /\ swapped' = IF op.cmd = "write"
                    THEN [swapped EXCEPT ![op.slot] = IF op.ret = 0 THEN op.page[1].page ELSE "none"]
                    ELSE swapped
      /\ UNCHANGED <<device, disk>>
  BY DEF Ide!Return
<1>4. op.slot \in Slot /\ swapped \in [Slot -> Content \cup {"none"}]
  BY <1>2, <1>3 DEF DiskType
<1>5. /\ op'.pc = "idle"
      /\ op' \in [pc : {"idle", "setup", "transfer", "over"}, cmd : {"none", "read", "write"}, slot : Nat,
                 page : Seq(DiskPart), nsecs : 0 .. PAGE_NSECT, ret : {0, -1}]
  <2>1. << >> \in Seq(DiskPart) /\ 0 \in 0 .. PAGE_NSECT
    BY <1>1
  <2> QED  BY <1>3, <2>1 DEF Ide!NoOp
<1>6. ASSUME op.cmd = "write"
      PROVE  \E w \in Content \cup {"none"} :
               /\ swapped' = [swapped EXCEPT ![op.slot] = w]
               /\ w # "none" => Stored(device, op.slot, w, PAGE_NSECT)
  <2>1. CASE op.ret = 0
    <3>1. PICK v \in Content : op.page = Ide!PageOf(v)
      BY <1>3, <1>6 DEF DiskInv
    <3>2. op.page[1].page = v
      <4>1. 1 \in 1 .. PAGE_NSECT
        BY <1>1
      <4> QED  BY <3>1, <4>1, PartFacts
    <3>3. Stored(device, op.slot, v, PAGE_NSECT)
      BY <1>3, <1>6, <2>1, <3>1 DEF DiskInv
    <3> QED  BY <1>3, <1>6, <2>1, <3>2, <3>3
  <2>2. CASE op.ret # 0
    BY <1>3, <1>6, <2>2
  <2> QED  BY <2>1, <2>2
<1>7. swapped' \in [Slot -> Content \cup {"none"}]
  BY <1>3, <1>4, <1>6
<1>8. ASSUME NEW t \in Slot, swapped'[t] # "none"
      PROVE  Stored(device, t, swapped'[t], PAGE_NSECT)
  <2>1. CASE op.cmd = "write" /\ t = op.slot
    BY <1>4, <1>6, <1>8, <2>1
  <2>2. CASE ~ (op.cmd = "write" /\ t = op.slot)
    <3>1. swapped'[t] = swapped[t] /\ ~Writing(t)
      <4>1. CASE op.cmd = "write"
        BY <1>4, <1>6, <2>2, <4>1 DEF Writing
      <4>2. CASE op.cmd # "write"
        BY <1>3, <4>2 DEF Writing
      <4> QED  BY <4>1, <4>2
    <3> QED  BY <1>8, <3>1 DEF DiskInv
  <2> QED  BY <2>1, <2>2
<1>9. DiskType'
  BY <1>2, <1>3, <1>5, <1>7 DEF DiskType
<1>10. \A t \in Slot : (swapped[t] # "none" /\ ~Writing(t) => Stored(device, t, swapped[t], PAGE_NSECT))'
  BY <1>3, <1>8 DEF Stored
<1>11. (op.pc # "transfer" /\ disk.data # Ide!Blank => \E t \in Slot : disk.secno = Sector(t, PAGE_NSECT))'
  BY <1>3 DEF DiskInv, Sector
<1> QED  BY <1>5, <1>9, <1>10, <1>11 DEF DiskInv

(* Every step of the disk and its driver.                                  *)
LEMMA DiskNextInv ==
  ASSUME DiskInv, Ide!Next
  PROVE  DiskInv'
<1>1. ASSUME NEW s \in Slot, Ide!SwapfsRead(s)
      PROVE  DiskInv'
  <2>1. << >> \in Seq(DiskPart)
    OBVIOUS
  <2> QED  BY <1>1, <2>1, BeginInv DEF Ide!SwapfsRead
<1>2. ASSUME NEW s \in Slot, NEW v \in Content, Ide!SwapfsWrite(s, v)
      PROVE  DiskInv'
  <2>1. Ide!PageOf(v) \in Seq(DiskPart)
    <3>1. Ide!PageOf(v) = [i \in 1 .. PAGE_NSECT |-> Ide!PageOf(v)[i]] /\ PAGE_NSECT \in Nat
      BY DiskConstants DEF Ide!PageOf
    <3>2. \A i \in 1 .. PAGE_NSECT : Ide!PageOf(v)[i] \in DiskPart
      BY PartFacts
    <3>3. Ide!PageOf(v) \in [1 .. PAGE_NSECT -> DiskPart]
      BY <3>1, <3>2
    <3> QED  BY <3>1, <3>3, SeqDef
  <2> QED  BY <1>2, <2>1, BeginInv DEF Ide!SwapfsWrite
<1> QED  BY <1>1, <1>2, CommandInv, DiskReadyInv, DiskFailsInv, OverInv, ReadSectorInv, WriteSectorInv,
            ReturnInv DEF Ide!Next

(* While another part runs the disk stays as it is.                        *)
LEMMA DiskStutter ==
  ASSUME DiskInv, UNCHANGED <<device, disk, op, swapped>>
  PROVE  DiskInv'
<1> USE DEF DiskInv
<1>1. DiskType'
  BY DEF DiskType
<1>2. \A t \in Slot : (swapped[t] # "none" /\ ~Writing(t) => Stored(device, t, swapped[t], PAGE_NSECT))'
  BY DEF Writing, Stored
<1>3. ASSUME NEW v \in Content, op.pc = "transfer", op.cmd = "write", op.page = Ide!PageOf(v)
      PROVE  WrittenSoFar(v)'
  BY <1>3 DEF WrittenSoFar, Stored, Sector
<1> QED  BY <1>1, <1>2, <1>3 DEF ReadSoFar, Stored, Sector

(* A page that was swapped in is the one that was swapped out.             *)
LEMMA DiskReadExact ==
  ASSUME DiskInv
  PROVE  Ide!ReadExact
<1> SUFFICES ASSUME op.pc = "over", op.cmd = "read", op.ret = 0
             PROVE  /\ Len(op.page) = PAGE_NSECT
                    /\ \A i \in 1 .. PAGE_NSECT - 1 : op.page[i] = Ide!PageOf(swapped[op.slot])[i]
  BY DEF Ide!ReadExact
<1>1. ReadSoFar(PAGE_NSECT) /\ PAGE_NSECT \in Nat
  BY DiskConstants DEF DiskInv
<1> QED  BY <1>1 DEF ReadSoFar

-----------------------------------------------------------------------------
(* Coming up: what kern_init has prepared at each step, and when           *)
(* interrupts are on.                                                      *)
(* The bytes of the segment s are in memory.                               *)
Loaded(m, s) == \A b \in 0 .. s.filesz - 1 : m[Up!Place(s) + b] = s.off + b

BootType ==
  /\ image \in Up!Images
  /\ DOMAIN memory = 0 .. MaxOffset + MaxSize + 4 * SECTSIZE
  /\ step \in 0 .. 8 /\ saved \in Seq(BOOLEAN)
  /\ {did_init, idt, procs, enabled, ready} \subseteq BOOLEAN

(* Interrupts are off until the last step, and in every section after it:  *)
(* only the outermost section has found them on.                           *)
SectionsNest ==
  /\ enabled <=> step = 8 /\ saved = << >>
  /\ \A i \in 1 .. Len(saved) : saved[i] <=> (step = 8 /\ i = Len(saved))
  /\ step = 0 => saved = << >>

(* What has been done up to this step of bootmain and kern_init.           *)
BootInv ==
  /\ BootType /\ SectionsNest /\ ready
  /\ step > 0 => Loaded(memory, image[1]) /\ Loaded(memory, image[2])
  /\ did_init <=> step > 2
  /\ hardware = IF did_init THEN irq_mask ELSE {}
  /\ step > 3 => idt
  /\ step > 4 => procs
  /\ "slave" \in irq_mask
  /\ step > 1 => "kbd" \in irq_mask
  /\ step > 5 => {"ide1", "ide2"} \subseteq irq_mask
  /\ step > 6 => "timer" \in irq_mask

(* The assumption of Boot, as the proofs use it.                           *)
LEMMA BootConstants ==
  /\ SECTSIZE \in Nat \ {0} /\ MaxOffset \in Nat /\ MaxSize \in Nat /\ MaxDepth \in Nat
BY KernelPartsAssumption DEF Up!BootAssumption

(* The fields of a segment.                                                *)
LEMMA SegmentFacts ==
  ASSUME image \in Up!Images
  PROVE  /\ \A i \in 1 .. 2 : image[i] \in Up!Segment
         /\ image[1].off + image[1].filesz <= image[2].off
         /\ image[1].gap <= image[2].gap /\ image[1].bss = 0
<1>1. image \in Up!Segment \X Up!Segment
  BY DEF Up!Images
<1> QED  BY <1>1 DEF Up!Images

(* A segment fits into memory.                                             *)
LEMMA InMemory ==
  ASSUME NEW s \in Up!Segment, NEW b \in 0 .. s.filesz - 1
  PROVE  Up!Place(s) + b \in 0 .. MaxOffset + MaxSize + 4 * SECTSIZE
<1> DEFINE off == s.off
           gap == s.gap
           filesz == s.filesz
<1>1. off \in 0 .. MaxOffset /\ gap \in {0, SECTSIZE} /\ filesz \in 1 .. MaxSize /\ b \in 0 .. filesz - 1
  BY DEF Up!Segment
<1>2. SECTSIZE \in Nat /\ MaxOffset \in Nat /\ MaxSize \in Nat
  BY BootConstants
<1>3. Up!Place(s) = SECTSIZE + off + gap
  BY DEF Up!Place
<1> HIDE DEF off, gap, filesz
<1>4. SECTSIZE + off + gap + b \in 0 .. MaxOffset + MaxSize + 4 * SECTSIZE
  BY ONLY <1>1, <1>2
<1> QED  BY ONLY <1>3, <1>4

(* readseg copies the sectors that the bytes lie in, and each byte comes   *)
(* to its place; what else it overwrites gets what lies there in the       *)
(* image.                                                                  *)
Overwritten(m, r, s) == \A a \in DOMAIN m : r[a] = m[a] \/ (r[a] = a - SECTSIZE - s.gap /\ a > s.off + s.gap)

LEMMA ReadsegCopies ==
  ASSUME NEW m, DOMAIN m = 0 .. MaxOffset + MaxSize + 4 * SECTSIZE, NEW s \in Up!Segment,
         NEW r, r = Up!Readseg(m, Up!Place(s), s.filesz + s.bss, s.off)
  PROVE  /\ DOMAIN r = DOMAIN m
         /\ Loaded(r, s)
         /\ Overwritten(m, r, s)
<1> DEFINE S == SECTSIZE
           q == s.off \div S
           w == s.off % S
           first == q * S
           start == S + s.gap + first
           n == (w + s.filesz + s.bss + S - 1) \div S
<1>1. S \in Nat \ {0} /\ MaxOffset \in Nat /\ MaxSize \in Nat
  BY BootConstants
<1>2. s.off \in 0 .. MaxOffset /\ s.gap \in {0, S} /\ s.filesz \in 1 .. MaxSize /\ s.bss \in 0 .. 1
  BY DEF Up!Segment
<1>3. q \in Nat /\ w \in 0 .. S - 1 /\ s.off = first + w /\ first \in Nat
  <2> HIDE DEF S
  <2>1. s.off \in Nat
    BY <1>1, <1>2
  <2>2. q \in Nat /\ w \in 0 .. S - 1 /\ s.off = q * S + w
    BY <1>1, <2>1, DivMod
  <2>3. q * S \in Nat
    <3> HIDE DEF q
    <3> QED  BY <1>1, <2>2
  <2> QED  BY <2>2, <2>3
<1>4. Up!Place(s) = S + s.off + s.gap /\ Up!Start(Up!Place(s), s.off) = Up!Place(s) - w
  BY DEF Up!Place, Up!Start
<1> HIDE DEF S, q, w, first
<1>5. Up!Place(s) - w = start /\ Up!Place(s) = start + w
  BY <1>1, <1>2, <1>3, <1>4
<1>6. (Up!Place(s) + (s.filesz + s.bss) - start + S - 1) \div S = n
  <2>1. Up!Place(s) + (s.filesz + s.bss) - start + S - 1 = w + s.filesz + s.bss + S - 1
    <3> DEFINE place == Up!Place(s)
    <3>1. place = start + w /\ start \in Int
      BY <1>1, <1>2, <1>3, <1>5
    <3> HIDE DEF place, start
    <3>2. place + (s.filesz + s.bss) - start + S - 1 = w + s.filesz + s.bss + S - 1
      BY <1>1, <1>2, <1>3, <3>1
    <3> QED  BY <3>2 DEF place
  <2> QED  BY <2>1
<1>7. n * S >= w + s.filesz + s.bss /\ n * S \in Nat
  <2> DEFINE N == w + s.filesz + s.bss + S - 1
  <2>1. N \in Nat
    BY <1>1, <1>2, <1>3
  <2> HIDE DEF N
  <2>2. N \div S \in Nat /\ N % S \in 0 .. S - 1 /\ N = (N \div S) * S + (N % S)
    BY <1>1, <2>1, DivMod
  <2>3. (N \div S) * S \in Nat
    <3> DEFINE y == N \div S
    <3>1. y \in Nat
      BY <2>2
    <3> HIDE DEF y
    <3>2. y * S \in Nat
      BY ONLY <1>1, <3>1
    <3> QED  BY <3>2 DEF y
  <2>4. (N \div S) * S >= N - (S - 1)
    <3> DEFINE x == (N \div S) * S
    <3>1. x \in Nat /\ N = x + (N % S)
      BY <2>2, <2>3
    <3> HIDE DEF x
    <3>2. x >= N - (S - 1)
      BY <1>1, <2>1, <2>2, <3>1
    <3> QED  BY <3>2 DEF x
  <2>5. N - (S - 1) = w + s.filesz + s.bss
    BY <1>1, <1>2, <1>3 DEF N
  <2> QED  BY <2>3, <2>4, <2>5 DEF N
<1>8. r = [a \in DOMAIN m |-> IF a \in start .. start + n * S - 1 THEN first + a - start ELSE m[a]]
  BY <1>4, <1>5, <1>6 DEF Up!Readseg, S, q, first
<1>9. start \in Nat
  BY <1>1, <1>2, <1>3
<1> DEFINE z == n * S
<1>10. z \in Nat /\ z >= w + s.filesz + s.bss
  BY <1>7
<1>11. r = [a \in DOMAIN m |-> IF a \in start .. start + z - 1 THEN first + a - start ELSE m[a]]
  BY <1>8
<1> HIDE DEF z, n
<1>12. ASSUME NEW a \in DOMAIN m
       PROVE  r[a] = m[a] \/ (r[a] = a - SECTSIZE - s.gap /\ a > s.off + s.gap)
  <2>1. a \in Nat
    BY <1>1, <1>12 DEF S
  <2>2. CASE a \in start .. start + z - 1
    <3>1. r[a] = first + a - start
      BY <1>11, <1>12, <2>2
    <3>2. first + a - start = a - S - s.gap
      BY <1>1, <1>2, <1>3, <2>1
    <3>3. a > s.off + s.gap
      BY <1>1, <1>2, <1>3, <1>9, <2>2
    <3> QED  BY <3>1, <3>2, <3>3 DEF S
  <2>3. CASE a \notin start .. start + z - 1
    BY <1>11, <1>12, <2>3
  <2> QED  BY <2>2, <2>3
<1>13. ASSUME NEW b \in 0 .. s.filesz - 1
       PROVE  r[Up!Place(s) + b] = s.off + b
  <2> DEFINE a == Up!Place(s) + b
  <2>1. a = start + w + b /\ a \in Nat
    BY <1>2, <1>3, <1>5, <1>9
  <2>2. a \in start .. start + z - 1
    <3>1. a = start + w + b /\ b >= 0 /\ b < s.filesz /\ b \in Int
      BY <1>2, <2>1
    <3> HIDE DEF a, start
    <3> QED  BY <1>2, <1>3, <1>9, <1>10, <2>1, <3>1
  <2>3. a \in DOMAIN m
    <3>1. a \in 0 .. MaxOffset + MaxSize + 4 * SECTSIZE
      BY InMemory
    <3> QED  BY ONLY <3>1, DOMAIN m = 0 .. MaxOffset + MaxSize + 4 * SECTSIZE
  <2>4. r[a] = first + a - start
    <3> HIDE DEF a
    <3> QED  BY <1>11, <2>2, <2>3
  <2>5. first + a - start = s.off + b
    <3> HIDE DEF a, start
    <3> QED  BY <1>2, <1>3, <1>9, <2>1
  <2> QED  BY <2>4, <2>5
<1> QED  BY <1>11, <1>12, <1>13 DEF Loaded, Overwritten

(* bootmain: the second segment leaves the first as it is.                 *)
LEMMA BothLoaded ==
  ASSUME BootType, Up!Bootmain
  PROVE  /\ DOMAIN memory' = 0 .. MaxOffset + MaxSize + 4 * SECTSIZE
         /\ Loaded(memory', image[1]) /\ Loaded(memory', image[2])
<1> DEFINE s == image[1]
           t == image[2]
           one == Up!Readseg(memory, Up!Place(s), s.filesz + s.bss, s.off)
<1>1. SECTSIZE \in Nat \ {0} /\ MaxOffset \in Nat /\ MaxSize \in Nat
  BY BootConstants
<1>2. s \in Up!Segment /\ t \in Up!Segment /\ s.off + s.filesz <= t.off /\ s.gap <= t.gap
  BY SegmentFacts DEF BootType
<1>3. memory' = Up!Readseg(one, Up!Place(t), t.filesz + t.bss, t.off)
  BY DEF Up!Bootmain
<1>4. DOMAIN memory = 0 .. MaxOffset + MaxSize + 4 * SECTSIZE
  BY DEF BootType
<1> HIDE DEF s, t
<1>5. DOMAIN one = DOMAIN memory /\ Loaded(one, s)
  BY <1>2, <1>4, ReadsegCopies
<1> HIDE DEF one
<1>6. /\ DOMAIN memory' = DOMAIN memory /\ Loaded(memory', t)
      /\ \A a \in DOMAIN memory : memory'[a] = one[a] \/ (memory'[a] = a - SECTSIZE - t.gap /\ a > t.off + t.gap)
  <2>1. DOMAIN one = 0 .. MaxOffset + MaxSize + 4 * SECTSIZE
    BY <1>4, <1>5
  <2>2. DOMAIN memory' = DOMAIN one /\ Loaded(memory', t) /\ Overwritten(one, memory', t)
    BY <1>2, <1>3, <2>1, ReadsegCopies
  <2> QED  BY <1>5, <2>2 DEF Overwritten
<1>7. ASSUME NEW b \in 0 .. s.filesz - 1
      PROVE  memory'[Up!Place(s) + b] = s.off + b
  <2> DEFINE a == Up!Place(s) + b
  <2>1. /\ s.off \in 0 .. MaxOffset /\ s.gap \in {0, SECTSIZE} /\ s.filesz \in 1 .. MaxSize
        /\ t.off \in 0 .. MaxOffset /\ t.gap \in {0, SECTSIZE}
    BY <1>2 DEF Up!Segment
  <2>2. a = SECTSIZE + s.off + s.gap + b
    BY DEF Up!Place
  <2>3. a \in DOMAIN memory
    BY <1>2, <1>4, InMemory
  <2>4. one[a] = s.off + b
    BY <1>5 DEF Loaded
  <2> HIDE DEF a
  <2>5. CASE memory'[a] = a - SECTSIZE - t.gap /\ a > t.off + t.gap
    <3>1. CASE s.gap = t.gap
      BY <1>1, <2>1, <2>2, <2>5, <3>1 DEF a
    <3>2. CASE s.gap # t.gap
      <4>1. s.gap = 0 /\ t.gap = SECTSIZE
        BY <1>1, <1>2, <2>1, <3>2
      <4> QED  BY <1>1, <1>2, <2>1, <2>2, <2>5, <4>1
    <3> QED  BY <3>1, <3>2 DEF a
  <2> QED  BY <1>6, <2>3, <2>4, <2>5 DEF a
<1>8. Loaded(memory', s)
  BY <1>7 DEF Loaded
<1> QED  BY <1>4, <1>6, <1>8 DEF s, t

(* The machine starts with interrupts off and nothing loaded.              *)
LEMMA BootInitInv ==
  ASSUME Up!Init
  PROVE  BootInv
<1>1. SECTSIZE \in Nat \ {0} /\ MaxOffset \in Nat /\ MaxSize \in Nat
  BY BootConstants
<1>2. BootType
  BY <1>1 DEF Up!Init, BootType
<1>3. SectionsNest
  BY DEF Up!Init, SectionsNest
<1> QED  BY <1>2, <1>3 DEF Up!Init, BootInv

LEMMA BootmainInv ==
  ASSUME BootInv, Up!Bootmain
  PROVE  BootInv'
<1>1. BootType /\ SectionsNest
  BY DEF BootInv
<1>2. /\ DOMAIN memory' = 0 .. MaxOffset + MaxSize + 4 * SECTSIZE
      /\ Loaded(memory', image[1]) /\ Loaded(memory', image[2])
  BY <1>1, BothLoaded
<1>3. step = 0 /\ step' = 1 /\ UNCHANGED <<image, irq_mask, did_init, hardware, idt, procs, enabled, saved, ready>>
  BY DEF Up!Bootmain
<1>4. BootType'
  BY <1>1, <1>2, <1>3 DEF BootType
<1>5. SectionsNest'
  BY <1>1, <1>3 DEF SectionsNest
<1>6. Loaded(memory, image[1])' /\ Loaded(memory, image[2])'
  BY <1>2, <1>3 DEF Loaded, Up!Place
<1> QED  BY <1>3, <1>4, <1>5, <1>6 DEF BootInv

(* The steps of kern_init.                                                 *)
LEMMA KernInitInv ==
  ASSUME BootInv, saved = << >>,
         \/ Up!ConsInit \/ Up!PicInit \/ Up!IdtInit \/ Up!ProcInit \/ Up!IdeInit \/ Up!ClockInit \/ Up!IntrEnable
  PROVE  BootInv'
<1>1. BootType /\ SectionsNest
  BY DEF BootInv
<1>2. /\ step \in 1 .. 7 /\ step' = step + 1 /\ UNCHANGED <<image, memory, saved, ready>>
      /\ irq_mask \subseteq irq_mask'
      /\ did_init' \in BOOLEAN /\ idt' \in BOOLEAN /\ procs' \in BOOLEAN /\ enabled' \in BOOLEAN
  <2>1. did_init \in BOOLEAN /\ idt \in BOOLEAN /\ procs \in BOOLEAN /\ enabled \in BOOLEAN
    BY <1>1 DEF BootType
  <2>2. step \in 1 .. 7 /\ step' = step + 1 /\ UNCHANGED <<image, memory, saved, ready>>
    BY DEF Up!ConsInit, Up!PicInit, Up!IdtInit, Up!ProcInit, Up!IdeInit, Up!ClockInit, Up!IntrEnable, Up!At
  <2>3. irq_mask \subseteq irq_mask'
    BY DEF Up!ConsInit, Up!PicInit, Up!IdtInit, Up!ProcInit, Up!IdeInit, Up!ClockInit, Up!IntrEnable, Up!PicEnable
  <2>4. did_init' \in BOOLEAN /\ idt' \in BOOLEAN /\ procs' \in BOOLEAN /\ enabled' \in BOOLEAN
    BY <2>1 DEF Up!ConsInit, Up!PicInit, Up!IdtInit, Up!ProcInit, Up!IdeInit, Up!ClockInit, Up!IntrEnable
  <2> QED  BY <2>2, <2>3, <2>4
<1>3. BootType'
  BY <1>1, <1>2 DEF BootType
<1>4. enabled' <=> step' = 8
  BY <1>1, <1>2 DEF SectionsNest, Up!ConsInit, Up!PicInit, Up!IdtInit, Up!ProcInit, Up!IdeInit, Up!ClockInit,
        Up!IntrEnable, Up!At
<1>5. SectionsNest'
  BY <1>1, <1>2, <1>4 DEF SectionsNest
<1>6. Loaded(memory, image[1])' /\ Loaded(memory, image[2])'
  BY <1>2 DEF BootInv, Loaded, Up!Place
<1>7. /\ did_init' <=> step' > 2
      /\ hardware' = IF did_init' THEN irq_mask' ELSE {}
  BY <1>2 DEF BootInv, Up!ConsInit, Up!PicInit, Up!IdtInit, Up!ProcInit, Up!IdeInit, Up!ClockInit, Up!IntrEnable,
        Up!At, Up!PicEnable
<1>8. (step' > 3 => idt') /\ (step' > 4 => procs')
  BY <1>2 DEF BootInv, Up!ConsInit, Up!PicInit, Up!IdtInit, Up!ProcInit, Up!IdeInit, Up!ClockInit, Up!IntrEnable,
        Up!At
<1>9. /\ "slave" \in irq_mask' /\ step' > 1 => "kbd" \in irq_mask'
      /\ step' > 5 => {"ide1", "ide2"} \subseteq irq_mask'
      /\ step' > 6 => "timer" \in irq_mask'
  BY <1>2 DEF BootInv, Up!ConsInit, Up!PicInit, Up!IdtInit, Up!ProcInit, Up!IdeInit, Up!ClockInit, Up!IntrEnable,
        Up!At, Up!PicEnable
<1> QED  BY <1>2, <1>3, <1>5, <1>6, <1>7, <1>8, <1>9 DEF BootInv

(* local_intr_save and local_intr_restore.                                 *)
LEMMA SectionInv ==
  ASSUME BootInv, Up!LocalIntrSave \/ Up!LocalIntrRestore
  PROVE  BootInv'
<1>1. BootType /\ SectionsNest
  BY DEF BootInv
<1>2. UNCHANGED <<image, memory, step, irq_mask, did_init, hardware, idt, procs, ready>>
  BY DEF Up!LocalIntrSave, Up!LocalIntrRestore
<1>3. step \in 0 .. 8 /\ saved \in Seq(BOOLEAN) /\ enabled \in BOOLEAN
  BY <1>1 DEF BootType
<1>4. CASE Up!LocalIntrSave
  <2>1. step > 0 /\ saved' = <<enabled>> \o saved /\ enabled' = FALSE
    BY <1>4 DEF Up!LocalIntrSave
  <2>2. /\ saved' \in Seq(BOOLEAN) /\ Len(saved') = Len(saved) + 1 /\ saved'[1] = enabled
        /\ \A i \in 2 .. Len(saved) + 1 : saved'[i] = saved[i - 1]
    BY <1>3, <2>1
  <2>3. ASSUME NEW i \in 1 .. Len(saved')
        PROVE  saved'[i] <=> (step = 8 /\ i = Len(saved'))
    <3>1. CASE i = 1
      <4>1. saved = << >> <=> i = Len(saved')
        BY <1>3, <2>2, <3>1
      <4> QED  BY <1>1, <2>2, <3>1, <4>1 DEF SectionsNest
    <3>2. CASE i # 1
      <4>1. i \in 2 .. Len(saved) + 1 /\ i - 1 \in 1 .. Len(saved)
        BY <1>3, <2>2, <2>3, <3>2
      <4>2. saved[i - 1] <=> (step = 8 /\ i - 1 = Len(saved))
        BY <1>1, <4>1 DEF SectionsNest
      <4>3. i - 1 = Len(saved) <=> i = Len(saved')
        BY <1>3, <2>2, <4>1
      <4> QED  BY <2>2, <4>1, <4>2, <4>3
    <3> QED  BY <3>1, <3>2
  <2>4. saved' # << >>
    BY <1>3, <2>2
  <2>5. SectionsNest'
    BY <1>2, <2>1, <2>3, <2>4 DEF SectionsNest
  <2>6. enabled' \in BOOLEAN
    BY <2>1
  <2> QED  BY <1>2, <2>2, <2>5, <2>6 DEF BootInv, BootType, Loaded, Up!Place
<1>5. CASE Up!LocalIntrRestore
  <2>1. saved # << >> /\ saved' = Tail(saved) /\ enabled' = IF Head(saved) THEN TRUE ELSE enabled
    BY <1>5 DEF Up!LocalIntrRestore, Up!Restored
  <2>2. /\ saved' \in Seq(BOOLEAN) /\ Len(saved') = Len(saved) - 1 /\ Head(saved) = saved[1] /\ Len(saved) > 0
        /\ \A i \in 1 .. Len(saved) - 1 : saved'[i] = saved[i + 1]
    <3>1. saved \in Seq(BOOLEAN) /\ saved # << >>
      BY <1>3, <2>1
    <3>2. /\ Tail(saved) \in Seq(BOOLEAN) /\ Len(Tail(saved)) = Len(saved) - 1 /\ Head(saved) = saved[1] /\ Len(saved) > 0
          /\ \A i \in 1 .. Len(Tail(saved)) : Tail(saved)[i] = saved[i + 1]
      BY ONLY <3>1
    <3> QED  BY <2>1, <3>2
  <2>3. ASSUME NEW i \in 1 .. Len(saved')
        PROVE  saved'[i] <=> (step = 8 /\ i = Len(saved'))
    <3>1. i \in 1 .. Len(saved) - 1 /\ i + 1 \in 1 .. Len(saved)
      BY <1>3, <2>2, <2>3
    <3>2. saved[i + 1] <=> (step = 8 /\ i + 1 = Len(saved))
      BY <1>1, <3>1 DEF SectionsNest
    <3>3. i + 1 = Len(saved) <=> i = Len(saved')
      BY <1>3, <2>2, <3>1
    <3> QED  BY <2>2, <3>1, <3>2, <3>3
  <2>4. enabled' <=> step = 8 /\ saved' = << >>
    <3>1. ~enabled
      BY <1>1, <2>1 DEF SectionsNest
    <3>2. saved[1] <=> (step = 8 /\ 1 = Len(saved))
      <4>1. 1 \in 1 .. Len(saved)
        BY <1>3, <2>2
      <4> QED  BY <1>1, <4>1 DEF SectionsNest
    <3>3. saved' = << >> <=> 1 = Len(saved)
      BY <1>3, <2>2
    <3> QED  BY <2>1, <2>2, <3>1, <3>2, <3>3
  <2>5. enabled' \in BOOLEAN
    BY <1>3, <2>1
  <2>6. step # 0
    BY <1>1, <2>1 DEF SectionsNest
  <2> QED  BY <1>2, <1>3, <2>2, <2>3, <2>4, <2>5, <2>6 DEF BootInv, BootType, SectionsNest, Loaded, Up!Place
<1> QED  BY <1>4, <1>5

(* Every step of the start, and of the sections after it.                  *)
LEMMA BootNextInv ==
  ASSUME BootInv, Up!Next
  PROVE  BootInv'
<1>1. CASE Up!Interrupt
  <2>1. enabled /\ ready' = (idt /\ procs /\ saved = << >> /\ step = 8)
        /\ UNCHANGED <<image, memory, step, irq_mask, did_init, hardware, idt, procs, enabled, saved>>
    BY <1>1 DEF Up!Interrupt
  <2>2. ready'
    <3>1. step = 8 /\ saved = << >>
      BY <2>1 DEF BootInv, SectionsNest
    <3>2. idt /\ procs
      BY <3>1 DEF BootInv
    <3> QED  BY <2>1, <3>1, <3>2
  <2>3. ready' \in BOOLEAN
    BY <2>1
  <2> QED  BY <2>1, <2>2, <2>3 DEF BootInv, BootType, SectionsNest, Loaded, Up!Place
<1> QED  BY <1>1, BootmainInv, KernInitInv, SectionInv DEF Up!Next

(* While another part runs the start stays as it is.                       *)
LEMMA BootStutter ==
  ASSUME BootInv, UNCHANGED bootvars
  PROVE  BootInv'
BY DEF bootvars, BootInv, BootType, SectionsNest, Loaded, Up!Place

(* The segments are loaded, and interrupts come when they may.             *)
LEMMA BootsExactly ==
  ASSUME BootInv
  PROVE  Up!BootExact
<1>1. ASSUME step > 0, NEW i \in 1 .. 2, NEW b \in 0 .. image[i].filesz - 1
      PROVE  memory[Up!Place(image[i]) + b] = image[i].off + b
  BY <1>1 DEF BootInv, Loaded
<1>2. step = 8 => hardware = irq_mask /\ Up!IRQ \ {"com1"} \subseteq hardware
  BY DEF BootInv, Up!IRQ
<1>3. step = 8 /\ saved = << >> => enabled
  BY DEF BootInv, SectionsNest
<1> QED  BY <1>1, <1>2, <1>3 DEF Up!BootExact, BootInv

-----------------------------------------------------------------------------
(* The emulator: every look-up keeps the cached translations justified by  *)
(* the page tables, whose pages only become dirty.                         *)
Translation == [p : Nat, writable : BOOLEAN, userable : BOOLEAN]
Rights(pte, v) == pte[v % NEntry].flags \cap Em!Pde(v)

(* A translation of the page v that the tables give.                       *)
Justified(pte, v, t) ==
  /\ t.p < memsz
  /\ paging => /\ t.p = pte[v % NEntry].frame /\ "P" \in Rights(pte, v)
               /\ t.userable <=> "U" \in Rights(pte, v)
               /\ t.writable => "W" \in Rights(pte, v) /\ "D" \in pte[v % NEntry].flags
  /\ ~paging => t = [p |-> v, writable |-> TRUE, userable |-> TRUE]

(* The cached translations are justified, and tpage lists their pages.     *)
Cached(c) == {v \in Vpages : c.entry[v] # Em!None}
CacheOK(c) ==
  /\ c \in [entry : [Vpages -> Translation], tpage : Seq(Vpages), pte : Em!PageTable, found : BOOLEAN]
  /\ Len(c.tpage) <= TPAGES /\ IsFiniteSet(Cached(c)) /\ Len(c.tpage) = Cardinality(Cached(c))
  /\ \A v \in Cached(c) : (\E i \in 1 .. Len(c.tpage) : c.tpage[i] = v) /\ Justified(c.pte, v, c.entry[v])

(* The page w of the stack pointer can be written to, in the mode.         *)
WindowOK(pte, w, mode) ==
  /\ w \in [v : Vpages, p : Nat, room : 0 .. Slots]
  /\ w.room > 0 /\ paging => /\ w.p = pte[w.v % NEntry].frame /\ w.p < memsz /\ "D" \in pte[w.v % NEntry].flags
                             /\ {"P", "W"} \subseteq Rights(pte, w.v) /\ (mode => "U" \in Rights(pte, w.v))
  /\ w.room > 0 /\ ~paging => w.p = w.v

(* Nothing but the dirty bit is added to a page table.                     *)
Marks(new, old) ==
  \A i \in 0 .. NEntry - 1 :
    new[i].frame = old[i].frame /\ new[i].flags \in {old[i].flags, old[i].flags \cup {"D"}}

(* The registers of the emulator, its stack and the page tables.           *)
EmType ==
  /\ tables \in [Directories -> [pde : [{v \div NEntry : v \in Vpages} -> Em!Flags], pte : Em!PageTable]]
  /\ pdir \in Directories /\ stack \in Seq(BOOLEAN)
  /\ paging \in BOOLEAN /\ user \in BOOLEAN /\ iena \in BOOLEAN

(* What is true of it between its instructions.                            *)
EmInv == EmType /\ CacheOK(Em!Cache) /\ WindowOK(tables[pdir].pte, fast, user) /\ Em!InterruptsKept

(* The assumption of Emulator, as the proofs use it.                       *)
LEMMA EmConstants ==
  /\ memsz \in Nat \ {0} /\ TPAGES \in Nat \ {0} /\ NEntry \in Nat \ {0} /\ Slots \in Nat \ {0}
  /\ Vpages \subseteq Nat /\ KStack \in Vpages
  /\ Tables \in [Directories -> [pde : [{v \div NEntry : v \in Vpages} -> Em!Flags], pte : Em!PageTable]]
BY KernelPartsAssumption DEF Em!EmulatorAssumption

(* The entry of a page in a page table.                                    *)
LEMMA PteFacts ==
  ASSUME NEW pte \in Em!PageTable, NEW v \in Vpages
  PROVE  /\ v % NEntry \in 0 .. NEntry - 1
         /\ pte[v % NEntry] \in [frame : Nat, flags : Em!Flags]
         /\ pte[v % NEntry].frame \in Nat /\ pte[v % NEntry].flags \in Em!Flags
<1>1. v % NEntry \in 0 .. NEntry - 1
  BY EmConstants
<1>2. pte[v % NEntry] \in [frame : Nat, flags : Em!Flags]
  BY <1>1 DEF Em!PageTable
<1> QED  BY <1>1, <1>2

(* flush leaves nothing cached.                                            *)
LEMMA FlushKeeps ==
  ASSUME NEW c, CacheOK(c), NEW r, r = Em!flush(c)
  PROVE  CacheOK(r) /\ r.pte = c.pte /\ r.found = c.found /\ r.tpage = << >> /\ \A v \in Vpages : r.entry[v] = Em!None
<1>1. Em!None \in Translation
  BY EmConstants DEF Em!None, Translation
<1>2. c \in [entry : [Vpages -> Translation], tpage : Seq(Vpages), pte : Em!PageTable, found : BOOLEAN]
  BY DEF CacheOK
<1>3. r = [c EXCEPT !.entry = [v \in Vpages |-> Em!None], !.tpage = << >>]
  BY DEF Em!flush
<1>4. /\ r \in [entry : [Vpages -> Translation], tpage : Seq(Vpages), pte : Em!PageTable, found : BOOLEAN]
      /\ r.pte = c.pte /\ r.found = c.found /\ r.tpage = << >> /\ \A v \in Vpages : r.entry[v] = Em!None
  <2>1. [v \in Vpages |-> Em!None] \in [Vpages -> Translation] /\ << >> \in Seq(Vpages)
    BY <1>1
  <2> QED  BY <1>2, <1>3, <2>1
<1>5. Cached(r) = {}
  BY <1>4 DEF Cached
<1>6. IsFiniteSet(Cached(r)) /\ Cardinality(Cached(r)) = 0
  BY <1>5, FS_EmptySet
<1> QED  BY <1>4, <1>5, <1>6, EmConstants DEF CacheOK

(* setpage puts a justified translation into the cache.                    *)
Due(c, v, p, w, u) == p < memsz => Justified(c.pte, v, [p |-> p, writable |-> w, userable |-> u])

LEMMA SetPageKeeps ==
  ASSUME NEW c, CacheOK(c), NEW v \in Vpages, NEW p \in Nat, NEW w \in BOOLEAN, NEW u \in BOOLEAN,
         Due(c, v, p, w, u), NEW r, r = Em!setpage(c, v, p, w, u)
  PROVE  CacheOK(r) /\ r.pte = c.pte
<1>1. c \in [entry : [Vpages -> Translation], tpage : Seq(Vpages), pte : Em!PageTable, found : BOOLEAN]
  BY DEF CacheOK
<1>2. CASE p >= memsz
  <2>1. r = [c EXCEPT !.found = FALSE]
    BY <1>2 DEF Em!setpage
  <2>2. /\ r \in [entry : [Vpages -> Translation], tpage : Seq(Vpages), pte : Em!PageTable, found : BOOLEAN]
        /\ r.pte = c.pte /\ r.tpage = c.tpage /\ r.entry = c.entry
    BY <1>1, <2>1
  <2>3. Cached(r) = Cached(c)
    BY <2>2 DEF Cached
  <2> QED  BY <2>2, <2>3 DEF CacheOK
<1>3. CASE p < memsz
  <2> DEFINE t == [p |-> p, writable |-> w, userable |-> u]
             new == c.entry[v] = Em!None
             room == IF new /\ Len(c.tpage) >= TPAGES THEN Em!flush(c) ELSE c
  <2>1. r = [room EXCEPT !.tpage = IF new THEN Append(@, v) ELSE @, !.entry[v] = t]
    BY <1>3, EmConstants DEF Em!setpage
  <2>2. t \in Translation /\ t.p = p /\ t # Em!None
    BY <1>3, EmConstants DEF Translation, Em!None
  <2>3. CacheOK(room) /\ room.pte = c.pte /\ (new => Len(room.tpage) < TPAGES) /\ (new <=> room.entry[v] = Em!None)
    <3>1. CASE new /\ Len(c.tpage) >= TPAGES
      <4>1. room = Em!flush(c)
        BY <3>1
      <4>2. CacheOK(room) /\ room.pte = c.pte /\ room.tpage = << >> /\ room.entry[v] = Em!None
        BY <4>1, FlushKeeps
      <4> QED  BY <3>1, <4>2, EmConstants
    <3>2. CASE ~ (new /\ Len(c.tpage) >= TPAGES)
      <4>1. room = c
        BY <3>2
      <4> QED  BY <1>1, <3>2, <4>1, EmConstants
    <3> QED  BY <3>1, <3>2
  <2> HIDE DEF room, new, t
  <2>4. room \in [entry : [Vpages -> Translation], tpage : Seq(Vpages), pte : Em!PageTable, found : BOOLEAN]
    BY <2>3 DEF CacheOK
  <2> DEFINE list == IF new THEN Append(room.tpage, v) ELSE room.tpage
  <2>5. list \in Seq(Vpages)
    BY <2>4
  <2>6. /\ r \in [entry : [Vpages -> Translation], tpage : Seq(Vpages), pte : Em!PageTable, found : BOOLEAN]
        /\ r.pte = room.pte /\ r.tpage = list /\ r.entry = [room.entry EXCEPT ![v] = t]
    <3>1. r = [room EXCEPT !.tpage = list, !.entry[v] = t]
      BY <2>1, <2>4
    <3> HIDE DEF list
    <3> QED  BY ONLY v \in Vpages, <2>2, <2>4, <2>5, <3>1
  <2>7. /\ r.entry[v] = t
        /\ \A x \in Vpages : x # v => r.entry[x] = room.entry[x]
    BY <2>4, <2>6
  <2>8. Cached(r) = Cached(room) \cup {v} /\ (new <=> v \notin Cached(room))
    BY <2>2, <2>3, <2>7 DEF Cached
  <2>9. IsFiniteSet(Cached(room)) /\ Len(room.tpage) = Cardinality(Cached(room)) /\ Len(room.tpage) <= TPAGES
    BY <2>3 DEF CacheOK
  <2>10. IsFiniteSet(Cached(r)) /\ Len(r.tpage) = Cardinality(Cached(r)) /\ Len(r.tpage) <= TPAGES
    <3>1. CASE new
      <4>1. Len(r.tpage) = Len(room.tpage) + 1 /\ Len(room.tpage) \in Nat
        BY <2>4, <2>6, <3>1
      <4>2. IsFiniteSet(Cached(r)) /\ Cardinality(Cached(r)) = Cardinality(Cached(room)) + 1
        BY <2>8, <2>9, <3>1, FS_AddElement
      <4> QED  BY <2>3, <2>9, <3>1, <4>1, <4>2, EmConstants
    <3>2. CASE ~new
      <4>1. Cached(r) = Cached(room)
        BY <2>8, <3>2
      <4> QED  BY <2>6, <2>9, <3>2, <4>1
    <3> QED  BY <3>1, <3>2
  <2>11. ASSUME NEW x \in Cached(r)
         PROVE  (\E i \in 1 .. Len(r.tpage) : r.tpage[i] = x) /\ Justified(r.pte, x, r.entry[x])
    <3>1. \A y \in Cached(room) : (\E i \in 1 .. Len(r.tpage) : r.tpage[i] = y)
      <4> SUFFICES ASSUME NEW y \in Cached(room)
                   PROVE  \E i \in 1 .. Len(r.tpage) : r.tpage[i] = y
        OBVIOUS
      <4>1. PICK i \in 1 .. Len(room.tpage) : room.tpage[i] = y
        BY <2>3 DEF CacheOK
      <4>2. i \in 1 .. Len(r.tpage) /\ r.tpage[i] = y
        <5>1. CASE new
          BY <2>4, <2>6, <4>1, <5>1
        <5>2. CASE ~new
          BY <2>6, <4>1, <5>2
        <5> QED  BY <5>1, <5>2
      <4> QED  BY <4>2
    <3>2. CASE x = v
      <4>1. \E i \in 1 .. Len(r.tpage) : r.tpage[i] = v
        <5>1. CASE new
          <6>1. r.tpage[Len(r.tpage)] = v /\ Len(r.tpage) \in 1 .. Len(r.tpage)
            BY <2>4, <2>6, <5>1
          <6> QED  BY <6>1
        <5>2. CASE ~new
          BY <2>8, <3>1, <5>2
        <5> QED  BY <5>1, <5>2
      <4>2. Justified(r.pte, v, t)
        BY <1>3, <2>3, <2>6 DEF t, Due
      <4> QED  BY <2>7, <3>2, <4>1, <4>2
    <3>3. CASE x # v
      <4>1. x \in Cached(room) /\ r.entry[x] = room.entry[x]
        BY <2>7, <2>8, <3>3 DEF Cached
      <4>2. Justified(room.pte, x, room.entry[x])
        BY <2>3, <4>1 DEF CacheOK
      <4> QED  BY <2>6, <3>1, <4>1, <4>2
    <3> QED  BY <3>2, <3>3
  <2> QED  BY <2>3, <2>6, <2>10, <2>11 DEF CacheOK
<1> QED  BY <1>1, <1>2, <1>3, EmConstants

(* A table that stays as it is has only been marked.                       *)
LEMMA MarksReflexive ==
  ASSUME NEW old \in Em!PageTable
  PROVE  Marks(old, old)
BY DEF Marks

(* A table marked twice has only been marked.                              *)
LEMMA MarksTransitive ==
  ASSUME NEW old \in Em!PageTable, NEW mid \in Em!PageTable, NEW new \in Em!PageTable,
         Marks(mid, old), Marks(new, mid)
  PROVE  Marks(new, old)
<1> SUFFICES ASSUME NEW i \in 0 .. NEntry - 1
             PROVE  new[i].frame = old[i].frame /\ new[i].flags \in {old[i].flags, old[i].flags \cup {"D"}}
  BY DEF Marks
<1>1. new[i].frame = mid[i].frame /\ mid[i].frame = old[i].frame
  BY DEF Marks
<1>2. new[i].flags \in {mid[i].flags, mid[i].flags \cup {"D"}} /\ mid[i].flags \in {old[i].flags, old[i].flags \cup {"D"}}
  BY DEF Marks
<1> QED  BY <1>1, <1>2

(* The dirty bit takes nothing from anybody.                               *)
LEMMA MarksKeep ==
  ASSUME NEW old \in Em!PageTable, NEW new \in Em!PageTable, Marks(new, old), NEW v \in Vpages
  PROVE  /\ new[v % NEntry].frame = old[v % NEntry].frame
         /\ old[v % NEntry].flags \subseteq new[v % NEntry].flags
         /\ \A f \in {"P", "W", "U"} : f \in Rights(new, v) <=> f \in Rights(old, v)
         /\ \A t : Justified(old, v, t) => Justified(new, v, t)
<1>1. v % NEntry \in 0 .. NEntry - 1
  BY PteFacts
<1>2. new[v % NEntry].frame = old[v % NEntry].frame
  BY <1>1 DEF Marks
<1>3. new[v % NEntry].flags \in {old[v % NEntry].flags, old[v % NEntry].flags \cup {"D"}}
  BY <1>1 DEF Marks
<1>4. old[v % NEntry].flags \subseteq new[v % NEntry].flags
  BY <1>3
<1>5. ASSUME NEW f \in {"P", "W", "U"}
      PROVE  f \in Rights(new, v) <=> f \in Rights(old, v)
  <2>1. f # "D"
    OBVIOUS
  <2> QED  BY <1>3, <2>1 DEF Rights
<1>6. ASSUME NEW t, Justified(old, v, t)
      PROVE  Justified(new, v, t)
  BY <1>2, <1>4, <1>5, <1>6 DEF Justified
<1> QED  BY <1>2, <1>4, <1>5, <1>6

(* A table that is marked keeps the window of the stack pointer.           *)
LEMMA WindowMarks ==
  ASSUME NEW old \in Em!PageTable, NEW new \in Em!PageTable, Marks(new, old),
         NEW w, NEW mode, WindowOK(old, w, mode)
  PROVE  WindowOK(new, w, mode)
<1>1. w \in [v : Vpages, p : Nat, room : 0 .. Slots] /\ w.v \in Vpages
  BY DEF WindowOK
<1>2. /\ new[w.v % NEntry].frame = old[w.v % NEntry].frame
      /\ old[w.v % NEntry].flags \subseteq new[w.v % NEntry].flags
      /\ \A f \in {"P", "W", "U"} : f \in Rights(new, w.v) <=> f \in Rights(old, w.v)
  BY <1>1, MarksKeep
<1> QED  BY <1>1, <1>2 DEF WindowOK

(* wlook marks the page dirty.                                             *)
LEMMA DirtyKeeps ==
  ASSUME NEW c, CacheOK(c), NEW v \in Vpages,
         NEW r, r = [c EXCEPT !.pte[v % NEntry].flags = @ \union {"D"}]
  PROVE  /\ CacheOK(r) /\ Marks(r.pte, c.pte) /\ "D" \in r.pte[v % NEntry].flags
         /\ r.pte[v % NEntry].frame = c.pte[v % NEntry].frame
<1> DEFINE i == v % NEntry
           e == [c.pte[i] EXCEPT !.flags = @ \union {"D"}]
<1>1. c \in [entry : [Vpages -> Translation], tpage : Seq(Vpages), pte : Em!PageTable, found : BOOLEAN]
  BY DEF CacheOK
<1>2. i \in 0 .. NEntry - 1 /\ c.pte[i] \in [frame : Nat, flags : Em!Flags]
  BY <1>1, PteFacts
<1> HIDE DEF i
<1>3. e \in [frame : Nat, flags : Em!Flags] /\ e.frame = c.pte[i].frame /\ e.flags = c.pte[i].flags \cup {"D"}
  BY <1>2 DEF Em!Flags
<1> HIDE DEF e
<1>4. [c.pte EXCEPT ![i] = e] \in Em!PageTable
  BY <1>1, <1>3 DEF Em!PageTable
<1>5. r = [c EXCEPT !.pte = [c.pte EXCEPT ![i] = e]]
  BY <1>1, <1>2 DEF e, i
<1>6. /\ r \in [entry : [Vpages -> Translation], tpage : Seq(Vpages), pte : Em!PageTable, found : BOOLEAN]
      /\ r.entry = c.entry /\ r.tpage = c.tpage /\ r.pte = [c.pte EXCEPT ![i] = e]
  BY <1>1, <1>4, <1>5
<1>7. r.pte[i] = e /\ \A j \in 0 .. NEntry - 1 : j # i => r.pte[j] = c.pte[j]
  BY <1>1, <1>2, <1>6 DEF Em!PageTable
<1>8. Marks(r.pte, c.pte)
  BY <1>3, <1>7 DEF Marks
<1>9. Cached(r) = Cached(c)
  BY <1>6 DEF Cached
<1>10. ASSUME NEW x \in Cached(r)
       PROVE  (\E j \in 1 .. Len(r.tpage) : r.tpage[j] = x) /\ Justified(r.pte, x, r.entry[x])
  <2>1. (\E j \in 1 .. Len(c.tpage) : c.tpage[j] = x) /\ Justified(c.pte, x, c.entry[x]) /\ x \in Vpages
    BY <1>9 DEF CacheOK, Cached
  <2>2. Justified(r.pte, x, c.entry[x])
    BY <1>1, <1>6, <1>8, <2>1, MarksKeep
  <2> QED  BY <1>6, <2>1, <2>2
<1>11. CacheOK(r)
  BY <1>6, <1>9, <1>10 DEF CacheOK
<1>12. "D" \in r.pte[i].flags /\ r.pte[i].frame = c.pte[i].frame
  BY <1>3, <1>7
<1> QED  BY <1>8, <1>11, <1>12 DEF i

(* rlook: a translation for reading is justified, or there is none.        *)
LEMMA rlookKeeps ==
  ASSUME EmType, NEW c, CacheOK(c), NEW v \in Vpages, NEW mode, NEW r, r = Em!rlook(c, v, mode)
  PROVE  CacheOK(r) /\ r.pte = c.pte
<1>1. c \in [entry : [Vpages -> Translation], tpage : Seq(Vpages), pte : Em!PageTable, found : BOOLEAN]
  BY DEF CacheOK
<1>2. c.pte[v % NEntry].frame \in Nat /\ paging \in BOOLEAN /\ v \in Nat
  BY <1>1, PteFacts, EmConstants DEF EmType
<1>3. Em!Both(c, v) = Rights(c.pte, v)
  BY DEF Em!Both, Rights
<1>4. CASE ~paging
  <2> DEFINE yes == TRUE
  <2>1. r = Em!setpage(c, v, v, yes, yes) /\ yes \in BOOLEAN
    BY <1>4 DEF Em!rlook
  <2>2. Due(c, v, v, yes, yes)
    BY <1>4 DEF Justified, Due
  <2> HIDE DEF yes
  <2> QED  BY <1>2, <2>1, <2>2, SetPageKeeps
<1>5. CASE paging /\ ~Em!Allowed(c, v, mode)
  <2>1. r = [c EXCEPT !.found = FALSE]
    BY <1>5 DEF Em!rlook
  <2>2. /\ r \in [entry : [Vpages -> Translation], tpage : Seq(Vpages), pte : Em!PageTable, found : BOOLEAN]
        /\ r.pte = c.pte /\ r.tpage = c.tpage /\ r.entry = c.entry
    BY <1>1, <2>1
  <2>3. Cached(r) = Cached(c)
    BY <2>2 DEF Cached
  <2> QED  BY <2>2, <2>3 DEF CacheOK
<1>6. CASE paging /\ Em!Allowed(c, v, mode)
  <2> DEFINE w == "D" \in c.pte[v % NEntry].flags /\ "W" \in Rights(c.pte, v)
             u == "U" \in Rights(c.pte, v)
             f == c.pte[v % NEntry].frame
  <2>1. r = Em!setpage(c, v, f, w, u)
    BY <1>3, <1>6 DEF Em!rlook
  <2>2. "P" \in Rights(c.pte, v)
    BY <1>3, <1>6 DEF Em!Allowed
  <2>3. Due(c, v, f, w, u)
    BY <1>6, <2>2 DEF Justified, Due
  <2>4. w \in BOOLEAN /\ u \in BOOLEAN /\ f \in Nat
    BY <1>2
  <2> HIDE DEF w, u, f
  <2> QED  BY <2>1, <2>3, <2>4, SetPageKeeps
<1> QED  BY <1>2, <1>4, <1>5, <1>6

(* wlook: so is one for writing, which marks the page.                     *)
LEMMA wlookKeeps ==
  ASSUME EmType, NEW c, CacheOK(c), NEW v \in Vpages, NEW mode, NEW r, r = Em!wlook(c, v, mode)
  PROVE  CacheOK(r) /\ Marks(r.pte, c.pte)
<1>1. c \in [entry : [Vpages -> Translation], tpage : Seq(Vpages), pte : Em!PageTable, found : BOOLEAN]
  BY DEF CacheOK
<1>2. c.pte[v % NEntry].frame \in Nat /\ paging \in BOOLEAN /\ v \in Nat
  BY <1>1, PteFacts, EmConstants DEF EmType
<1>3. Em!Both(c, v) = Rights(c.pte, v)
  BY DEF Em!Both, Rights
<1>4. CASE ~paging
  <2> DEFINE yes == TRUE
  <2>1. r = Em!setpage(c, v, v, yes, yes) /\ yes \in BOOLEAN
    BY <1>4 DEF Em!wlook
  <2>2. Due(c, v, v, yes, yes)
    BY <1>4 DEF Justified, Due
  <2> HIDE DEF yes
  <2>3. CacheOK(r) /\ r.pte = c.pte
    BY <1>2, <2>1, <2>2, SetPageKeeps
  <2> QED  BY <1>1, <2>3, MarksReflexive
<1>5. CASE paging /\ ~ (Em!Allowed(c, v, mode) /\ "W" \in Em!Both(c, v))
  <2>1. r = [c EXCEPT !.found = FALSE]
    BY <1>5 DEF Em!wlook
  <2>2. /\ r \in [entry : [Vpages -> Translation], tpage : Seq(Vpages), pte : Em!PageTable, found : BOOLEAN]
        /\ r.pte = c.pte /\ r.tpage = c.tpage /\ r.entry = c.entry
    BY <1>1, <2>1
  <2>3. Cached(r) = Cached(c)
    BY <2>2 DEF Cached
  <2>4. CacheOK(r)
    BY <2>2, <2>3 DEF CacheOK
  <2> QED  BY <1>1, <2>2, <2>4, MarksReflexive
<1>6. CASE paging /\ Em!Allowed(c, v, mode) /\ "W" \in Em!Both(c, v)
  <2> DEFINE d == [c EXCEPT !.pte[v % NEntry].flags = @ \union {"D"}]
             u == "U" \in Rights(c.pte, v)
             f == c.pte[v % NEntry].frame
             yes == TRUE
  <2>1. r = Em!setpage(d, v, f, yes, u)
    BY <1>3, <1>6 DEF Em!wlook
  <2>2. /\ CacheOK(d) /\ Marks(d.pte, c.pte) /\ "D" \in d.pte[v % NEntry].flags /\ d.pte[v % NEntry].frame = f
    BY DirtyKeeps
  <2> HIDE DEF d
  <2>3. d.pte \in Em!PageTable
    BY <2>2 DEF CacheOK
  <2>4. \A x \in {"P", "W", "U"} : x \in Rights(d.pte, v) <=> x \in Rights(c.pte, v)
    BY <1>1, <2>2, <2>3, MarksKeep
  <2>5. Due(d, v, f, yes, u)
    BY <1>3, <1>6, <2>2, <2>4 DEF Justified, Due, Em!Allowed
  <2>6. u \in BOOLEAN /\ f \in Nat /\ yes \in BOOLEAN
    BY <1>2
  <2> HIDE DEF u, f, yes
  <2>7. CacheOK(r) /\ r.pte = d.pte
    BY <2>1, <2>2, <2>5, <2>6, SetPageKeeps
  <2> QED  BY <2>2, <2>7
<1> QED  BY <1>2, <1>4, <1>5, <1>6

(* A look-up for reading, in the cache or the tables, ...                  *)
LEMMA ForReadKeeps ==
  ASSUME EmType, NEW c, CacheOK(c), NEW v \in Vpages, NEW mode, NEW r, r = Em!ForRead(c, v, mode)
  PROVE  CacheOK(r) /\ r.pte = c.pte
BY rlookKeeps DEF Em!ForRead

(* ... and one for writing.                                                *)
LEMMA ForWriteKeeps ==
  ASSUME EmType, NEW c, CacheOK(c), NEW v \in Vpages, NEW mode, NEW r, r = Em!ForWrite(c, v, mode)
  PROVE  CacheOK(r) /\ Marks(r.pte, c.pte)
<1>1. c.pte \in Em!PageTable
  BY DEF CacheOK
<1> QED  BY <1>1, wlookKeeps, MarksReflexive DEF Em!ForWrite

(* fixsp opens the window on a page that can be written to.                *)
LEMMA FixspOK ==
  ASSUME EmType, NEW c, CacheOK(c), NEW v \in Vpages, NEW o \in 0 .. Slots - 1
  PROVE  WindowOK(c.pte, Em!Fixsp(c, v, o), user)
<1>1. c \in [entry : [Vpages -> Translation], tpage : Seq(Vpages), pte : Em!PageTable, found : BOOLEAN]
  BY DEF CacheOK
<1>2. CASE ~Em!Writable(c, v, user)
  <2>1. Em!Fixsp(c, v, o) = [v |-> KStack, p |-> memsz, room |-> 0]
    BY <1>2 DEF Em!Fixsp, Em!Closed
  <2> QED  BY <2>1, EmConstants DEF WindowOK
<1>3. CASE Em!Writable(c, v, user)
  <2>1. Em!Fixsp(c, v, o) = [v |-> v, p |-> c.entry[v].p, room |-> Slots - o]
    BY <1>3 DEF Em!Fixsp
  <2>2. c.entry[v] \in Translation /\ c.entry[v].writable /\ (user => c.entry[v].userable)
    BY <1>1, <1>3 DEF Em!Writable
  <2>3. v \in Cached(c)
    BY <2>2 DEF Cached, Em!None
  <2>4. Justified(c.pte, v, c.entry[v])
    BY <2>3 DEF CacheOK
  <2>5. c.entry[v].p \in Nat /\ Slots - o \in 1 .. Slots
    BY <2>2, EmConstants DEF Translation
  <2> DEFINE w == [v |-> v, p |-> c.entry[v].p, room |-> Slots - o]
  <2>6. w \in [v : Vpages, p : Nat, room : 0 .. Slots] /\ w.v = v /\ w.p = c.entry[v].p
    BY <2>5, EmConstants
  <2> HIDE DEF w
  <2>7. WindowOK(c.pte, w, user)
    BY <2>2, <2>4, <2>6 DEF WindowOK, Justified
  <2> QED  BY <2>1, <2>7 DEF w
<1> QED  BY <1>2, <1>3

(* The cache as a record of its variables.                                 *)
LEMMA CacheFacts ==
  ASSUME EmInv
  PROVE  /\ CacheOK(Em!Cache) /\ Em!Cache.pte = tables[pdir].pte /\ tables[pdir].pte \in Em!PageTable
         /\ Marks(Em!Cache.pte, tables[pdir].pte)
<1>1. CacheOK(Em!Cache) /\ Em!Cache.pte = tables[pdir].pte
  BY DEF EmInv, Em!Cache
<1>2. Em!Cache.pte \in Em!PageTable
  BY <1>1 DEF CacheOK
<1> QED  BY <1>1, <1>2, MarksReflexive

(* What a look-up leaves is kept, with a window and an interrupt state     *)
(* that fit.                                                               *)
LEMMA KeepInv ==
  ASSUME EmInv, NEW c, CacheOK(c), Marks(c.pte, tables[pdir].pte), Em!Keep(c), pdir' = pdir, paging' = paging,
         WindowOK(c.pte, fast', user'), user' \in BOOLEAN, iena' \in BOOLEAN, stack' \in Seq(BOOLEAN),
         Em!InterruptsKept'
  PROVE  EmInv'
<1>1. EmType /\ pdir \in Directories
  BY DEF EmInv, EmType
<1>2. c \in [entry : [Vpages -> Translation], tpage : Seq(Vpages), pte : Em!PageTable, found : BOOLEAN]
  BY DEF CacheOK
<1>3. entry' = c.entry /\ tpage' = c.tpage /\ tables' = [tables EXCEPT ![pdir].pte = c.pte]
  BY DEF Em!Keep
<1>4. tables[pdir] \in [pde : [{v \div NEntry : v \in Vpages} -> Em!Flags], pte : Em!PageTable]
  BY <1>1 DEF EmType
<1> DEFINE table == [tables[pdir] EXCEPT !.pte = c.pte]
<1>5. /\ table \in [pde : [{v \div NEntry : v \in Vpages} -> Em!Flags], pte : Em!PageTable]
      /\ table.pde = tables[pdir].pde /\ table.pte = c.pte
  BY <1>2, <1>4
<1> HIDE DEF table
<1>6. tables' = [tables EXCEPT ![pdir] = table]
  BY <1>3 DEF table
<1>7. /\ tables' \in [Directories -> [pde : [{v \div NEntry : v \in Vpages} -> Em!Flags], pte : Em!PageTable]]
      /\ tables'[pdir'].pte = c.pte /\ tables'[pdir'].pde = tables[pdir].pde
  BY <1>1, <1>5, <1>6 DEF EmType
<1>8. \A v \in Vpages : Em!Pde(v)' = Em!Pde(v)
  BY <1>7 DEF Em!Pde
<1> DEFINE k == [entry |-> c.entry, tpage |-> c.tpage, pte |-> c.pte, found |-> TRUE]
<1>9. Em!Cache' = k
  BY <1>3, <1>7 DEF Em!Cache
<1>10. /\ k \in [entry : [Vpages -> Translation], tpage : Seq(Vpages), pte : Em!PageTable, found : BOOLEAN]
       /\ k.entry = c.entry /\ k.tpage = c.tpage /\ k.pte = c.pte
  BY <1>2
<1> HIDE DEF k
<1>11. Cached(Em!Cache)' = Cached(c)
  BY <1>9, <1>10 DEF Cached
<1>12. ASSUME NEW v \in Vpages, NEW t, Justified(c.pte, v, t)
       PROVE  Justified(Em!Cache.pte, v, t)'
  BY <1>8, <1>9, <1>10, <1>12 DEF Justified, Rights
<1>13. \A v \in Cached(c) : (\E i \in 1 .. Len(c.tpage) : c.tpage[i] = v) /\ Justified(c.pte, v, c.entry[v]) /\ v \in Vpages
  BY DEF CacheOK, Cached
<1>14. ASSUME NEW v \in Cached(c)
       PROVE  Justified(Em!Cache.pte, v, Em!Cache.entry[v])'
  BY <1>9, <1>10, <1>12, <1>13 DEF Justified, Rights
<1>15. CacheOK(Em!Cache)'
  <2>1. Len(c.tpage) <= TPAGES /\ IsFiniteSet(Cached(c)) /\ Len(c.tpage) = Cardinality(Cached(c))
    BY DEF CacheOK
  <2>2. (\A v \in Cached(Em!Cache) : (\E i \in 1 .. Len(Em!Cache.tpage) : Em!Cache.tpage[i] = v)
                                     /\ Justified(Em!Cache.pte, v, Em!Cache.entry[v]))'
    BY <1>9, <1>10, <1>11, <1>13, <1>14
  <2>3. (Em!Cache \in [entry : [Vpages -> Translation], tpage : Seq(Vpages), pte : Em!PageTable, found : BOOLEAN])'
    BY <1>9, <1>10
  <2>4. (Len(Em!Cache.tpage) <= TPAGES /\ IsFiniteSet(Cached(Em!Cache)) /\ Len(Em!Cache.tpage) = Cardinality(Cached(Em!Cache)))'
    BY <1>9, <1>10, <1>11, <2>1
  <2> QED  BY <2>2, <2>3, <2>4 DEF CacheOK
<1>16. WindowOK(tables[pdir].pte, fast, user)'
  <2>1. fast'.v \in Vpages
    BY DEF WindowOK
  <2> QED  BY <1>7, <1>8, <2>1 DEF WindowOK, Rights
<1>17. EmType'
  BY <1>1, <1>7 DEF EmType
<1> QED  BY <1>15, <1>16, <1>17 DEF EmInv

(* A step that looks nothing up leaves the cache and the tables as they    *)
(* are.                                                                    *)
LEMMA NothingKept ==
  ASSUME EmInv, UNCHANGED <<entry, tpage, tables>>
  PROVE  Em!Keep(Em!Cache)
<1>1. tables \in [Directories -> [pde : [{v \div NEntry : v \in Vpages} -> Em!Flags], pte : Em!PageTable]] /\ pdir \in Directories
  BY DEF EmInv, EmType
<1>2. tables = [tables EXCEPT ![pdir].pte = tables[pdir].pte]
  <2>1. tables[pdir] = [tables[pdir] EXCEPT !.pte = tables[pdir].pte]
    BY <1>1
  <2> QED  BY <1>1, <2>1
<1> QED  BY <1>2 DEF Em!Keep, Em!Cache

(* A window that is closed promises nothing.                               *)
LEMMA ClosedOK ==
  ASSUME NEW pte, NEW mode
  PROVE  WindowOK(pte, Em!Closed, mode)
BY EmConstants DEF WindowOK, Em!Closed

(* An interrupt comes in, from the mode that is pushed.                    *)
LEMMA EnterInv ==
  ASSUME EmInv, NEW c, CacheOK(c), Marks(c.pte, tables[pdir].pte), NEW from \in BOOLEAN, NEW below \in Seq(BOOLEAN),
         Em!Enter(c, from, below), pdir' = pdir, paging' = paging,
         \A i \in 2 .. Len(below) : ~below[i], from => below = << >>,
         iena' \in BOOLEAN, iena' => ipend' = {}
  PROVE  EmInv'
<1> DEFINE k == Em!ForWrite(c, KStack, FALSE)
<1>1. /\ Em!Keep(k) /\ user' = FALSE /\ fast' = Em!Closed
      /\ stack' = IF k.found THEN Append(below, from) ELSE below
  BY DEF Em!Enter
<1>2. CacheOK(k) /\ Marks(k.pte, c.pte)
  BY ForWriteKeeps, EmConstants DEF EmInv
<1> HIDE DEF k
<1>3. Marks(k.pte, tables[pdir].pte)
  BY <1>2, CacheFacts, MarksTransitive DEF CacheOK
<1>4. stack' \in Seq(BOOLEAN) /\ \A i \in 2 .. Len(stack') : ~stack'[i]
  <2>1. CASE k.found
    <3>1. stack' = Append(below, from)
      BY <1>1, <2>1
    <3>2. stack' \in Seq(BOOLEAN) /\ Len(stack') = Len(below) + 1 /\ Len(below) \in Nat
          /\ \A i \in 1 .. Len(below) : stack'[i] = below[i]
      BY <3>1
    <3>3. stack'[Len(below) + 1] = from
      BY <3>1
    <3>4. ASSUME NEW i \in 2 .. Len(stack')
          PROVE  ~stack'[i]
      <4>1. CASE i = Len(below) + 1
        <5>1. below # << >>
          BY <3>2, <3>4, <4>1
        <5> QED  BY <3>3, <4>1, <5>1
      <4>2. CASE i # Len(below) + 1
        <5>1. i \in 2 .. Len(below) /\ i \in 1 .. Len(below)
          BY <3>2, <3>4, <4>2
        <5> QED  BY <3>2, <5>1
      <4> QED  BY <4>1, <4>2
    <3> QED  BY <3>2, <3>4
  <2>2. CASE ~k.found
    BY <1>1, <2>2
  <2> QED  BY <2>1, <2>2
<1>5. Em!InterruptsKept'
  BY <1>1, <1>4 DEF Em!InterruptsKept
<1>6. user' \in BOOLEAN /\ WindowOK(k.pte, fast', user')
  BY <1>1, ClosedOK
<1> QED  BY <1>1, <1>2, <1>3, <1>4, <1>5, <1>6, KeepInv

(* A fault comes in, or stops the emulator.                                *)
LEMMA ExceptionInv ==
  ASSUME EmInv, NEW c, CacheOK(c), Marks(c.pte, tables[pdir].pte), Em!Exception(c)
  PROVE  EmInv'
<1>1. EmType /\ Em!InterruptsKept
  BY DEF EmInv
<1>2. UNCHANGED <<iena, ipend, pdir, paging>> /\ user \in BOOLEAN /\ stack \in Seq(BOOLEAN) /\ iena \in BOOLEAN
  BY <1>1 DEF Em!Exception, EmType
<1>3. CASE iena /\ Em!Enter(c, user, stack)
  <2>1. (user => stack = << >>) /\ (iena' => ipend' = {}) /\ \A i \in 2 .. Len(stack) : ~stack[i]
    BY <1>1, <1>2 DEF Em!InterruptsKept
  <2> QED  BY <1>2, <1>3, <2>1, EnterInv
<1>4. CASE Em!Keep(c) /\ UNCHANGED <<user, stack, fast>>
  <2>1. Em!InterruptsKept'
    BY <1>1, <1>2, <1>4 DEF Em!InterruptsKept
  <2>2. WindowOK(tables[pdir].pte, fast, user)
    BY DEF EmInv
  <2>3. WindowOK(c.pte, fast, user)
    BY <2>2, CacheFacts, WindowMarks DEF CacheOK
  <2>4. fast' = fast /\ user' = user
    BY <1>4
  <2> QED  BY <1>2, <1>4, <2>1, <2>3, <2>4, KeepInv
<1> QED  BY <1>3, <1>4 DEF Em!Exception

(* An access: what it reaches, or the fault it meets.                      *)
LEMMA ReachInv ==
  ASSUME EmInv, NEW c, CacheOK(c), Marks(c.pte, tables[pdir].pte), NEW window, WindowOK(c.pte, window, user),
         Em!Reach(c, window)
  PROVE  EmInv'
<1>1. EmType /\ Em!InterruptsKept
  BY DEF EmInv
<1>2. CASE c.found /\ Em!Keep(c) /\ fast' = window /\ UNCHANGED <<user, iena, ipend, stack, halted, pdir, paging>>
  <2>1. Em!InterruptsKept'
    BY <1>1, <1>2 DEF Em!InterruptsKept
  <2>2. user' \in BOOLEAN /\ iena' \in BOOLEAN /\ stack' \in Seq(BOOLEAN)
    BY <1>1, <1>2 DEF EmType
  <2>3. WindowOK(c.pte, fast', user')
    BY <1>2
  <2> QED  BY <1>2, <2>1, <2>2, <2>3, KeepInv
<1> QED  BY <1>2, ExceptionInv DEF Em!Reach

(* What a step that looks nothing up changes.                              *)
LEMMA QuietInv ==
  ASSUME EmInv, UNCHANGED <<entry, tpage, tables, pdir, paging>>,
         WindowOK(tables[pdir].pte, fast', user'), user' \in BOOLEAN, iena' \in BOOLEAN, stack' \in Seq(BOOLEAN),
         Em!InterruptsKept'
  PROVE  EmInv'
<1>1. Em!Keep(Em!Cache) /\ pdir' = pdir /\ paging' = paging
  BY NothingKept
<1>2. CacheOK(Em!Cache) /\ Em!Cache.pte = tables[pdir].pte /\ Marks(Em!Cache.pte, tables[pdir].pte)
  BY CacheFacts
<1>3. WindowOK(Em!Cache.pte, fast', user')
  BY <1>2
<1> QED  BY <1>1, <1>2, <1>3, KeepInv

(* A look-up leaves the window of the stack pointer open.                  *)
LEMMA WindowKept ==
  ASSUME EmInv, NEW c, CacheOK(c), Marks(c.pte, tables[pdir].pte)
  PROVE  WindowOK(c.pte, fast, user)
<1>1. WindowOK(tables[pdir].pte, fast, user)
  BY DEF EmInv
<1> QED  BY <1>1, CacheFacts, WindowMarks DEF CacheOK

(* Memory at a given address.                                              *)
LEMMA LookUpsInv ==
  ASSUME EmInv, NEW a \in Vpages, NEW b \in Vpages,
         Em!Load(a) \/ Em!Store(a) \/ Em!MCPY(a, b) \/ Em!MCMP(a, b)
  PROVE  EmInv'
<1>1. EmType
  BY DEF EmInv
<1>2. PICK c : /\ CacheOK(c) /\ Marks(c.pte, tables[pdir].pte) /\ Em!Reach(c, fast)
  <2>1. CASE Em!Load(a)
    <3> DEFINE c == Em!rlook(Em!Cache, a, user)
    <3>1. CacheOK(c) /\ c.pte = Em!Cache.pte
      BY <1>1, CacheFacts, rlookKeeps
    <3>2. Em!Reach(c, fast)
      BY <2>1 DEF Em!Load
    <3> HIDE DEF c
    <3> QED  BY <3>1, <3>2, CacheFacts
  <2>2. CASE Em!Store(a)
    <3> DEFINE c == Em!wlook(Em!Cache, a, user)
    <3>1. CacheOK(c) /\ Marks(c.pte, Em!Cache.pte)
      BY <1>1, CacheFacts, wlookKeeps
    <3>2. Em!Reach(c, fast)
      BY <2>2 DEF Em!Store
    <3> HIDE DEF c
    <3> QED  BY <3>1, <3>2, CacheFacts
  <2> DEFINE one == Em!rlook(Em!Cache, b, user)
  <2>3. CacheOK(one) /\ one.pte = Em!Cache.pte
    BY <1>1, CacheFacts, rlookKeeps
  <2>4. CASE Em!MCPY(a, b)
    <3> DEFINE c == IF one.found THEN Em!ForWrite(one, a, user) ELSE one
    <3>1. CacheOK(c) /\ Marks(c.pte, Em!Cache.pte)
      <4> HIDE DEF one
      <4>1. CASE one.found
        BY <1>1, <2>3, <4>1, ForWriteKeeps
      <4>2. CASE ~one.found
        BY <2>3, <4>2, CacheFacts
      <4> QED  BY <4>1, <4>2
    <3>2. Em!Reach(c, fast)
      BY <2>4 DEF Em!MCPY
    <3> HIDE DEF c
    <3> QED  BY <3>1, <3>2, CacheFacts
  <2>5. CASE Em!MCMP(a, b)
    <3> DEFINE c == IF one.found THEN Em!ForRead(one, a, user) ELSE one
    <3>1. CacheOK(c) /\ c.pte = Em!Cache.pte
      <4> HIDE DEF one
      <4>1. CASE one.found
        BY <1>1, <2>3, <4>1, ForReadKeeps
      <4>2. CASE ~one.found
        BY <2>3, <4>2
      <4> QED  BY <4>1, <4>2
    <3>2. Em!Reach(c, fast)
      BY <2>5 DEF Em!MCMP
    <3> HIDE DEF c
    <3> QED  BY <3>1, <3>2, CacheFacts
  <2> QED  BY <2>1, <2>2, <2>4, <2>5
<1> QED  BY <1>2, WindowKept, ReachInv

(* The pointer moves within the window.                                    *)
LEMMA MoveInv ==
  ASSUME EmInv, NEW room \in 0 .. Slots, fast.room # 0, Em!Move(room)
  PROVE  EmInv'
<1>1. EmType /\ Em!InterruptsKept /\ WindowOK(tables[pdir].pte, fast, user)
  BY DEF EmInv
<1>2. /\ UNCHANGED <<entry, tpage, tables, pdir, paging, user, iena, ipend, stack>>
      /\ fast' = IF room = 0 THEN Em!Closed ELSE [fast EXCEPT !.room = room]
  BY DEF Em!Move
<1>3. fast \in [v : Vpages, p : Nat, room : 0 .. Slots] /\ fast.room > 0
  <2>1. fast \in [v : Vpages, p : Nat, room : 0 .. Slots]
    BY <1>1 DEF WindowOK
  <2> QED  BY <2>1, EmConstants
<1>4. WindowOK(tables[pdir].pte, fast', user')
  <2>1. CASE room = 0
    BY <1>2, <2>1, ClosedOK
  <2>2. CASE room # 0
    <3>1. /\ fast' \in [v : Vpages, p : Nat, room : 0 .. Slots]
          /\ fast'.v = fast.v /\ fast'.p = fast.p
      BY <1>2, <1>3, <2>2
    <3> QED  BY <1>1, <1>2, <1>3, <3>1 DEF WindowOK
  <2> QED  BY <2>1, <2>2
<1>5. Em!InterruptsKept'
  BY <1>1, <1>2 DEF Em!InterruptsKept
<1> QED  BY <1>1, <1>2, <1>4, <1>5, QuietInv DEF EmType

(* What the program does to its stack.                                     *)
LEMMA StackOpsInv ==
  ASSUME EmInv, NEW v \in Vpages, NEW o \in 0 .. Slots - 1,
         \/ Em!PushFast \/ Em!JSR(v) \/ Em!LEV(v) \/ Em!DIVL(v) \/ Em!ENT(o)
         \/ Em!ADDL(v, o) \/ Em!SL(v, o) \/ Em!PSHA(v, o) \/ Em!POPA(v, o) \/ Em!SSP(v, o)
  PROVE  EmInv'
<1> DEFINE r == Em!ForRead(Em!Cache, v, user)
           w == Em!ForWrite(Em!Cache, v, user)
<1>1. EmType /\ Em!InterruptsKept /\ WindowOK(tables[pdir].pte, fast, user)
  BY DEF EmInv
<1>2. CacheOK(r) /\ Marks(r.pte, tables[pdir].pte)
  <2>1. CacheOK(r) /\ r.pte = Em!Cache.pte
    BY <1>1, CacheFacts, ForReadKeeps
  <2> HIDE DEF r
  <2> QED  BY <2>1, CacheFacts
<1>3. CacheOK(w) /\ Marks(w.pte, tables[pdir].pte)
  <2>1. CacheOK(w) /\ Marks(w.pte, Em!Cache.pte)
    BY <1>1, CacheFacts, ForWriteKeeps
  <2> HIDE DEF w
  <2> QED  BY <2>1, CacheFacts
<1>4. WindowOK(r.pte, Em!Fixsp(r, v, o), user) /\ WindowOK(w.pte, Em!Fixsp(w, v, o), user)
  <2> HIDE DEF r, w
  <2> QED  BY <1>1, <1>2, <1>3, FixspOK
<1>5. WindowOK(r.pte, Em!Closed, user) /\ WindowOK(w.pte, Em!Closed, user)
  <2> HIDE DEF r, w
  <2> QED  BY ClosedOK
<1>6. fast.room \in 0 .. Slots /\ Slots \in Nat \ {0}
  BY <1>1, EmConstants DEF WindowOK
<1>7. CASE Em!PushFast
  <2>1. fast.room + 1 \in 0 .. Slots /\ fast.room # 0 /\ Em!Move(fast.room + 1)
    BY <1>6, <1>7 DEF Em!PushFast
  <2> QED  BY <2>1, MoveInv
<1>8. CASE Em!JSR(v)
  <2>1. Em!Reach(w, Em!Closed)
    BY <1>8 DEF Em!JSR
  <2> HIDE DEF r, w
  <2> QED  BY <1>3, <1>5, <2>1, ReachInv
<1>9. CASE Em!LEV(v)
  <2>1. CASE \E left \in 0 .. fast.room - 1 : Em!Move(left)
    <3>1. PICK left \in 0 .. fast.room - 1 : Em!Move(left)
      BY <2>1
    <3>2. left \in 0 .. Slots /\ fast.room # 0
      BY <1>6, <3>1
    <3> QED  BY <3>1, <3>2, MoveInv
  <2>2. CASE Em!Reach(r, Em!Closed)
    <3> HIDE DEF r, w
    <3> QED  BY <1>2, <1>5, <2>2, ReachInv
  <2> QED  BY <1>9, <2>1, <2>2 DEF Em!LEV
<1>10. CASE Em!DIVL(v)
  <2>1. Em!Exception(r)
    BY <1>10 DEF Em!DIVL
  <2> HIDE DEF r, w
  <2> QED  BY <1>2, <2>1, ExceptionInv
<1>11. CASE Em!ENT(o)
  <2>1. Slots - o \in 0 .. Slots /\ fast.room # 0 /\ Em!Move(Slots - o)
    BY <1>6, <1>11 DEF Em!ENT, Em!Await
  <2> QED  BY <2>1, MoveInv
<1>12. CASE Em!ADDL(v, o)
  <2>1. Em!Reach(r, Em!Fixsp(r, v, o))
    BY <1>12 DEF Em!ADDL
  <2> HIDE DEF r, w
  <2> QED  BY <1>2, <1>4, <2>1, ReachInv
<1>13. CASE Em!SL(v, o)
  <2>1. Em!Reach(w, Em!Fixsp(w, v, o))
    BY <1>13 DEF Em!SL
  <2> HIDE DEF r, w
  <2> QED  BY <1>3, <1>4, <2>1, ReachInv
<1>14. CASE Em!PSHA(v, o)
  <2>1. Em!Reach(w, Em!Fixsp(w, v, o))
    BY <1>14 DEF Em!PSHA
  <2> HIDE DEF r, w
  <2> QED  BY <1>3, <1>4, <2>1, ReachInv
<1>15. CASE Em!POPA(v, o)
  <2> DEFINE up == (v * Slots) + o + 1
  <2>1. CASE Em!Await
    <3>1. up \div Slots \in Vpages /\ Em!Reach(r, Em!Fixsp(r, up \div Slots, up % Slots))
      BY <1>15, <2>1 DEF Em!POPA
    <3>2. up % Slots \in 0 .. Slots - 1
      <4>1. up \in Nat
        <5>1. v \in Nat /\ v * Slots \in Nat
          BY <1>6, EmConstants
        <5> QED  BY <5>1, <1>6
      <4> HIDE DEF up
      <4> QED  BY <1>6, <4>1
    <3> HIDE DEF r, w, up
    <3>3. WindowOK(r.pte, Em!Fixsp(r, up \div Slots, up % Slots), user)
      BY <1>1, <1>2, <3>1, <3>2, FixspOK
    <3> QED  BY <1>2, <3>1, <3>3, ReachInv
  <2>2. CASE ~Em!Await
    <3>1. fast.room - 1 \in 0 .. Slots /\ fast.room # 0
      BY <1>6, <2>2 DEF Em!Await
    <3>2. Em!Move(fast.room - 1)
      BY <1>15, <2>2 DEF Em!POPA
    <3> QED  BY <3>1, <3>2, MoveInv
  <2> QED  BY <2>1, <2>2
<1>16. CASE Em!SSP(v, o)
  <2>1. /\ fast' = Em!Fixsp(Em!Cache, v, o)
        /\ UNCHANGED <<entry, tpage, tables, pdir, paging, user, iena, ipend, stack>>
    BY <1>16 DEF Em!SSP
  <2>2. WindowOK(tables[pdir].pte, fast', user')
    <3>1. WindowOK(Em!Cache.pte, Em!Fixsp(Em!Cache, v, o), user)
      BY <1>1, CacheFacts, FixspOK
    <3> QED  BY <2>1, <3>1, CacheFacts
  <2>3. Em!InterruptsKept'
    BY <1>1, <2>1 DEF Em!InterruptsKept
  <2> QED  BY <1>1, <2>1, <2>2, <2>3, QuietInv DEF EmType
<1> QED  BY <1>7, <1>8, <1>9, <1>10, <1>11, <1>12, <1>13, <1>14, <1>15, <1>16

(* Interrupts are disabled, wait, or begin a user program; nothing is      *)
(* looked up.                                                              *)
LEMMA QuietStepsInv ==
  ASSUME EmInv,
         \/ Em!CLI \/ Em!Begin \/ (\E key, late \in BOOLEAN : Em!Pend(key, late))
  PROVE  EmInv'
<1>1. EmType /\ Em!InterruptsKept /\ WindowOK(tables[pdir].pte, fast, user)
  BY DEF EmInv
<1>2. UNCHANGED <<entry, tpage, tables, pdir, paging, user, fast>>
  BY DEF Em!CLI, Em!Begin, Em!Pend
<1>3. stack' \in Seq(BOOLEAN) /\ (stack' = stack \/ (~user /\ stack' = <<TRUE>>))
  <2>1. stack \in Seq(BOOLEAN) /\ <<TRUE>> \in Seq(BOOLEAN)
    BY <1>1 DEF EmType
  <2>2. stack' = stack \/ (~user /\ stack' = <<TRUE>>)
    BY DEF Em!CLI, Em!Begin, Em!Pend
  <2> QED  BY <2>1, <2>2
<1>4. iena' \in BOOLEAN /\ (iena' => ipend' = {}) /\ (user => iena')
  <2>1. iena \in BOOLEAN /\ (iena => ipend = {}) /\ (user => iena)
    BY <1>1 DEF EmType, Em!InterruptsKept
  <2>2. CASE Em!CLI
    BY <2>1, <2>2 DEF Em!CLI
  <2>3. CASE Em!Begin
    BY <2>1, <2>3 DEF Em!Begin
  <2>4. CASE \E key, late \in BOOLEAN : Em!Pend(key, late)
    BY <2>1, <2>4 DEF Em!Pend
  <2> QED  BY <2>2, <2>3, <2>4
<1>5. Em!InterruptsKept'
  <2>1. CASE stack' = stack
    BY <1>1, <1>2, <1>4, <2>1 DEF Em!InterruptsKept
  <2>2. CASE ~user /\ stack' = <<TRUE>>
    <3>1. Len(stack') = 1
      BY <2>2
    <3>2. 2 .. Len(stack') = {}
      BY <3>1
    <3>3. \A i \in 2 .. Len(stack') : ~stack'[i]
      BY <3>2
    <3> QED  BY <1>2, <1>4, <2>2, <3>3 DEF Em!InterruptsKept
  <2> QED  BY <1>3, <2>1, <2>2
<1> QED  BY <1>1, <1>2, <1>3, <1>4, <1>5, QuietInv DEF EmType

(* An interrupt that waits comes in.                                       *)
LEMMA ComeInInv ==
  ASSUME EmInv, Em!Trap \/ Em!Deliver \/ Em!STI
  PROVE  EmInv'
<1>1. EmType /\ Em!InterruptsKept /\ WindowOK(tables[pdir].pte, fast, user)
  BY DEF EmInv
<1>2. user \in BOOLEAN /\ stack \in Seq(BOOLEAN) /\ iena \in BOOLEAN
  BY <1>1 DEF EmType
<1>3. (user => stack = << >>) /\ \A i \in 2 .. Len(stack) : ~stack[i]
  BY <1>1 DEF Em!InterruptsKept
<1>4. CASE Em!Trap
  BY <1>4, CacheFacts, ExceptionInv DEF Em!Trap
<1>5. ASSUME Em!Enter(Em!Cache, user, stack), UNCHANGED <<pdir, paging>>, iena' = FALSE
      PROVE  EmInv'
  BY <1>2, <1>3, <1>5, CacheFacts, EnterInv
<1>6. CASE Em!Deliver
  BY <1>5, <1>6 DEF Em!Deliver
<1>7. CASE Em!STI
  <2>1. CASE ipend = {} /\ iena' = TRUE /\ UNCHANGED <<entry, tpage, tables, ipend, user, stack, halted, fast>>
    <3>1. UNCHANGED <<pdir, paging>> /\ ~user
      BY <1>7 DEF Em!STI
    <3>2. Em!InterruptsKept'
      BY <1>1, <2>1, <3>1 DEF Em!InterruptsKept
    <3>3. WindowOK(tables[pdir].pte, fast', user')
      BY <1>1, <2>1
    <3> QED  BY <1>2, <2>1, <3>1, <3>2, <3>3, QuietInv
  <2> QED  BY <1>5, <1>7, <2>1 DEF Em!STI
<1> QED  BY <1>4, <1>6, <1>7

(* RTI goes back to the mode that was pushed, and lets interrupts in.      *)
LEMMA RTIInv ==
  ASSUME EmInv, Em!RTI
  PROVE  EmInv'
<1> DEFINE k == Em!ForRead(Em!Cache, KStack, FALSE)
           back == stack[Len(stack)]
           rest == SubSeq(stack, 1, Len(stack) - 1)
<1>1. EmType /\ Em!InterruptsKept /\ WindowOK(tables[pdir].pte, fast, user)
  BY DEF EmInv
<1>2. user \in BOOLEAN /\ stack \in Seq(BOOLEAN) /\ iena \in BOOLEAN
  BY <1>1 DEF EmType
<1>3. CacheOK(k) /\ Marks(k.pte, tables[pdir].pte)
  <2>1. CacheOK(Em!Cache) /\ KStack \in Vpages /\ k = Em!ForRead(Em!Cache, KStack, FALSE)
    BY CacheFacts, EmConstants
  <2> HIDE DEF k
  <2>2. CacheOK(k) /\ k.pte = Em!Cache.pte
    BY <1>1, <2>1, ForReadKeeps
  <2> QED  BY <2>2, CacheFacts
<1>4. ~user /\ stack # << >> /\ UNCHANGED <<pdir, paging>>
  BY DEF Em!RTI
<1>5. /\ back \in BOOLEAN /\ rest \in Seq(BOOLEAN) /\ Len(rest) = Len(stack) - 1
      /\ \A i \in 1 .. Len(rest) : rest[i] = stack[i]
      /\ Len(stack) \in Nat \ {0}
  <2> DEFINE n == Len(stack)
  <2>1. n \in Nat \ {0} /\ \A i \in 1 .. n : stack[i] \in BOOLEAN
    BY <1>2, <1>4
  <2>2. stack[n] \in BOOLEAN
    BY <2>1
  <2>3. 1 \in 1 .. n + 1 /\ n - 1 \in 0 .. n /\ 1 <= n - 1 + 1 /\ n - 1 - 1 + 1 = n - 1
    BY <2>1
  <2>4. /\ rest \in Seq(BOOLEAN) /\ Len(rest) = n - 1 - 1 + 1
        /\ \A i \in 1 .. n - 1 - 1 + 1 : rest[i] = stack[1 + i - 1]
    BY <1>2, <2>3, PartProperties
  <2>5. \A i \in 1 .. n - 1 : 1 + i - 1 = i
    OBVIOUS
  <2> HIDE DEF n, rest
  <2> QED  BY <2>1, <2>2, <2>3, <2>4, <2>5 DEF n
<1>6. \A i \in 2 .. Len(stack) : ~stack[i]
  BY <1>1 DEF Em!InterruptsKept
<1>7. (back => rest = << >>) /\ \A i \in 2 .. Len(rest) : ~rest[i]
  <2>1. ASSUME NEW i \in 2 .. Len(rest)
        PROVE  ~rest[i]
    BY <1>5, <1>6, <2>1
  <2>2. ASSUME back
        PROVE  rest = << >>
    <3>1. Len(stack) \notin 2 .. Len(stack)
      BY <1>6, <2>2
    <3>2. Len(rest) = 0
      BY <1>5, <3>1
    <3> HIDE DEF rest
    <3> QED  BY <1>5, <3>2
  <2> QED  BY <2>1, <2>2
<1>8. \/ /\ halted' = TRUE /\ Em!Keep(k) /\ fast' = Em!Closed /\ UNCHANGED <<user, iena, ipend, stack>>
      \/ /\ iena' = FALSE /\ Em!Enter(k, back, rest)
      \/ /\ iena \/ ipend = {}
         /\ Em!Keep(k) /\ user' = back /\ stack' = rest /\ iena' = TRUE /\ fast' = Em!Closed /\ UNCHANGED ipend
  BY <1>2 DEF Em!RTI
<1> HIDE DEF k, back, rest
<1>9. WindowOK(k.pte, Em!Closed, user')
  BY ClosedOK
<1>10. CASE halted' = TRUE /\ Em!Keep(k) /\ fast' = Em!Closed /\ UNCHANGED <<user, iena, ipend, stack>>
  <2>1. Em!InterruptsKept'
    BY <1>1, <1>10 DEF Em!InterruptsKept
  <2> QED  BY <1>2, <1>3, <1>4, <1>9, <1>10, <2>1, KeepInv
<1>11. CASE iena' = FALSE /\ Em!Enter(k, back, rest)
  BY <1>3, <1>4, <1>5, <1>7, <1>11, EnterInv
<1>12. CASE /\ iena \/ ipend = {}
            /\ Em!Keep(k) /\ user' = back /\ stack' = rest /\ iena' = TRUE /\ fast' = Em!Closed /\ UNCHANGED ipend
  <2>1. ipend' = {}
    BY <1>1, <1>12 DEF Em!InterruptsKept
  <2>2. Em!InterruptsKept'
    BY <1>7, <1>12, <2>1 DEF Em!InterruptsKept
  <2> QED  BY <1>3, <1>4, <1>5, <1>9, <1>12, <2>2, KeepInv
<1> QED  BY <1>8, <1>10, <1>11, <1>12

(* Another directory, or paging on or off.                                 *)
LEMMA RemapInv ==
  ASSUME EmInv, NEW d \in Directories, NEW on \in BOOLEAN, Em!Remap(d, on)
  PROVE  EmInv'
<1>1. EmType /\ Em!InterruptsKept /\ CacheOK(Em!Cache)
  BY DEF EmInv
<1>2. /\ pdir' = d /\ paging' = on /\ entry' = Em!flush(Em!Cache).entry /\ tpage' = << >> /\ fast' = Em!Closed
      /\ UNCHANGED <<tables, user, iena, ipend, stack>>
  BY DEF Em!Remap
<1>3. EmType'
  BY <1>1, <1>2 DEF EmType
<1>4. Em!InterruptsKept'
  BY <1>1, <1>2 DEF Em!InterruptsKept
<1>5. WindowOK(tables[pdir].pte, fast, user)'
  <2>1. KStack \in Vpages /\ memsz \in Nat /\ Slots \in Nat
    BY EmConstants
  <2>2. fast' = [v |-> KStack, p |-> memsz, room |-> 0]
    BY <1>2 DEF Em!Closed
  <2>3. fast' \in [v : Vpages, p : Nat, room : 0 .. Slots] /\ fast'.room = 0
    BY <2>1, <2>2
  <2> QED  BY <2>3 DEF WindowOK
<1>6. entry' = [v \in Vpages |-> Em!None]
  <2>1. Em!Cache \in [entry : [Vpages -> Translation], tpage : Seq(Vpages), pte : Em!PageTable, found : BOOLEAN]
    BY <1>1 DEF CacheOK
  <2> QED  BY <1>2, <2>1 DEF Em!flush
<1>7. Em!Cache' = [entry |-> [v \in Vpages |-> Em!None], tpage |-> << >>, pte |-> tables'[pdir'].pte, found |-> TRUE]
  BY <1>2, <1>6 DEF Em!Cache
<1>8. Cached(Em!Cache)' = {}
  BY <1>7 DEF Cached
<1>9. (Em!Cache \in [entry : [Vpages -> Translation], tpage : Seq(Vpages), pte : Em!PageTable, found : BOOLEAN])'
  <2>1. Em!None \in Translation
    BY EmConstants DEF Em!None, Translation
  <2>2. tables'[pdir'].pte \in Em!PageTable
    BY <1>3 DEF EmType
  <2>3. [v \in Vpages |-> Em!None] \in [Vpages -> Translation] /\ << >> \in Seq(Vpages)
    BY <2>1
  <2> QED  BY <1>7, <2>2, <2>3
<1>10. (Len(Em!Cache.tpage) <= TPAGES /\ IsFiniteSet(Cached(Em!Cache))
        /\ Len(Em!Cache.tpage) = Cardinality(Cached(Em!Cache)))'
  <2>1. Em!Cache'.tpage = << >>
    BY <1>7
  <2> QED  BY <1>8, <2>1, FS_EmptySet, EmConstants
<1>11. CacheOK(Em!Cache)'
  BY <1>8, <1>9, <1>10 DEF CacheOK
<1> QED  BY <1>3, <1>4, <1>5, <1>11 DEF EmInv

(* The emulator starts with an empty cache and interrupts off.             *)
LEMMA EmInitInv ==
  ASSUME Em!Init
  PROVE  EmInv
<1>1. /\ entry = [v \in Vpages |-> Em!None] /\ tpage = << >> /\ tables = Tables /\ pdir \in Directories
      /\ paging = FALSE /\ user = FALSE /\ iena = FALSE /\ ipend = {} /\ stack = << >> /\ fast = Em!Closed
  BY DEF Em!Init
<1>2. EmType
  <2>1. stack \in Seq(BOOLEAN) /\ paging \in BOOLEAN /\ user \in BOOLEAN /\ iena \in BOOLEAN
    <3>1. paging = FALSE /\ user = FALSE /\ iena = FALSE /\ stack = << >>
      BY <1>1
    <3>2. paging \in BOOLEAN /\ user \in BOOLEAN /\ iena \in BOOLEAN
      BY ONLY <3>1, Zenon
    <3>3. << >> \in Seq(BOOLEAN)
      BY EmptySeq
    <3> QED  BY <3>1, <3>2, <3>3, Zenon
  <2>2. tables \in [Directories -> [pde : [{v \div NEntry : v \in Vpages} -> Em!Flags], pte : Em!PageTable]]
    BY <1>1, EmConstants, Zenon
  <2> QED  BY <1>1, <2>1, <2>2, Zenon DEF EmType
<1>3. Em!InterruptsKept
  BY <1>1 DEF Em!InterruptsKept
<1>4. WindowOK(tables[pdir].pte, fast, user)
  BY <1>1, ClosedOK
<1>5. Em!Cache = [entry |-> [v \in Vpages |-> Em!None], tpage |-> << >>, pte |-> tables[pdir].pte, found |-> TRUE]
  BY <1>1 DEF Em!Cache
<1>6. Cached(Em!Cache) = {}
  BY <1>5 DEF Cached
<1>7. Em!Cache \in [entry : [Vpages -> Translation], tpage : Seq(Vpages), pte : Em!PageTable, found : BOOLEAN]
  <2>1. Em!None \in Translation
    BY EmConstants DEF Em!None, Translation
  <2>2. tables[pdir].pte \in Em!PageTable
    BY <1>2 DEF EmType
  <2>3. [v \in Vpages |-> Em!None] \in [Vpages -> Translation] /\ << >> \in Seq(Vpages)
    BY <2>1
  <2> QED  BY <1>5, <2>2, <2>3
<1>8. Em!Cache.tpage = << >>
  BY <1>5
<1>9. CacheOK(Em!Cache)
  BY <1>6, <1>7, <1>8, FS_EmptySet, EmConstants DEF CacheOK
<1> QED  BY <1>2, <1>3, <1>4, <1>9 DEF EmInv

(* Every instruction and interrupt.                                        *)
LEMMA EmNextInv ==
  ASSUME EmInv, Em!Next
  PROVE  EmInv'
<1>1. ASSUME NEW d \in Directories, Em!PDIR(d)
      PROVE  EmInv'
  <2>1. paging \in BOOLEAN
    BY DEF EmInv, EmType
  <2> QED  BY <1>1, <2>1, RemapInv DEF Em!PDIR
<1>2. ASSUME NEW a \in BOOLEAN, Em!SPAG(a)
      PROVE  EmInv'
  <2>1. pdir \in Directories
    BY DEF EmInv, EmType
  <2> QED  BY <1>2, <2>1, RemapInv DEF Em!SPAG
<1>3. 0 \in 0 .. Slots - 1 /\ KStack \in Vpages
  BY EmConstants
<1>4. ASSUME NEW v \in Vpages, Em!JSR(v) \/ Em!LEV(v) \/ Em!DIVL(v)
      PROVE  EmInv'
  BY <1>3, <1>4, StackOpsInv
<1>5. CASE Em!PushFast
  BY <1>3, <1>5, StackOpsInv
<1>6. ASSUME NEW o \in 0 .. Slots - 1,
             Em!ENT(o) \/ \E v \in Vpages : Em!ADDL(v, o) \/ Em!SL(v, o) \/ Em!PSHA(v, o) \/ Em!POPA(v, o) \/ Em!SSP(v, o)
      PROVE  EmInv'
  BY <1>3, <1>6, StackOpsInv
<1>7. ASSUME NEW v \in Vpages, Em!Load(v) \/ Em!Store(v)
      PROVE  EmInv'
  BY <1>7, LookUpsInv
<1>8. ASSUME NEW a \in Vpages, NEW b \in Vpages, Em!MCPY(a, b) \/ Em!MCMP(a, b)
      PROVE  EmInv'
  BY <1>8, LookUpsInv
<1>9. CASE Em!Trap \/ Em!Deliver \/ Em!CLI \/ Em!STI \/ Em!RTI \/ Em!Begin
  BY <1>9, ComeInInv, QuietStepsInv, RTIInv
<1> QED  BY <1>1, <1>2, <1>4, <1>5, <1>6, <1>7, <1>8, <1>9, QuietStepsInv DEF Em!Next

(* While another part runs the emulator stays as it is.                    *)
LEMMA EmStutter ==
  ASSUME EmInv, UNCHANGED emvars
  PROVE  EmInv'
<1>1. UNCHANGED <<entry, tpage, tables, pdir, paging, user, iena, ipend, stack, fast>>
  BY DEF emvars
<1>2. EmType /\ Em!InterruptsKept /\ WindowOK(tables[pdir].pte, fast, user)
  BY DEF EmInv
<1>3. Em!InterruptsKept'
  BY <1>1, <1>2 DEF Em!InterruptsKept
<1>4. WindowOK(tables[pdir].pte, fast', user')
  BY <1>1, <1>2
<1> QED  BY <1>1, <1>2, <1>3, <1>4, QuietInv DEF EmType

(* The cached translations are those of the page tables, and interrupts    *)
(* that wait are kept.                                                     *)
LEMMA EmulatesExactly ==
  ASSUME EmInv
  PROVE  Em!EmulatorExact
<1> DEFINE pte == tables[pdir].pte
<1>1. CacheOK(Em!Cache) /\ EmType /\ WindowOK(pte, fast, user) /\ Em!InterruptsKept /\ Em!Cache.pte = pte
  BY CacheFacts DEF EmInv
<1>2. Em!Cache.entry = entry /\ Em!Cache.tpage = tpage
  BY DEF Em!Cache
<1>3. Cached(Em!Cache) = {v \in Vpages : entry[v] # Em!None}
  BY <1>2 DEF Cached
<1>4. \A S : Em!Cardinality(S) = Cardinality(S)
  BY DEF Em!Cardinality, Cardinality
<1>5. Len(tpage) <= TPAGES /\ Len(tpage) = Em!Cardinality({v \in Vpages : entry[v] # Em!None})
  BY <1>1, <1>2, <1>3, <1>4 DEF CacheOK
<1>6. \A v : Em!Both(Em!Cache, v) = Rights(pte, v)
  BY <1>1 DEF Em!Both, Rights
<1>7. paging \in BOOLEAN
  BY <1>1 DEF EmType
<1>8. ASSUME NEW v \in Vpages, entry[v] # Em!None
      PROVE  /\ \E i \in 1 .. Len(tpage) : tpage[i] = v
             /\ Justified(pte, v, entry[v])
  BY <1>1, <1>2, <1>3, <1>8 DEF CacheOK
<1>9. fast \in [v : Vpages, p : Nat, room : 0 .. Slots]
  BY <1>1 DEF WindowOK
<1> HIDE DEF pte
<1>10. Em!TranslationsExact
  BY <1>5, <1>6, <1>7, <1>8 DEF Em!TranslationsExact, Justified, pte
<1>11. Em!FastExact
  BY <1>1, <1>6, <1>7, <1>9 DEF Em!FastExact, WindowOK, pte
<1> QED  BY <1>1, <1>10, <1>11 DEF Em!EmulatorExact

-----------------------------------------------------------------------------
(* What the devices deliver, and what the emulator has cached, is exact:   *)
(* each invariant for the part that runs.                                  *)
DevicesInv ==
  /\ program = "disk" => DiskInv
  /\ program = "boot" => BootInv
  /\ program = "emulator" => EmInv

(* The disk, the start of the kernel and the emulator keep their           *)
(* promises, for every number and size of sectors, pages and segments, all *)
(* page tables and any number of nested sections (ide.c, bootmain.c,       *)
(* init.c, em.c).                                                          *)
THEOREM DevicesStayExact == PartsSpec => []DevicesExact
<1>1. PartsInit => DevicesInv
  BY DiskInitInv, BootInitInv, EmInitInv DEF PartsInit, DevicesInv
<1>2. DevicesInv /\ [PartsNext]_allvars => DevicesInv'
  <2> SUFFICES ASSUME DevicesInv, [PartsNext]_allvars
               PROVE  DevicesInv'
    OBVIOUS
  <2>1. program' = program
    BY DEF PartsNext, allvars, kbdvars
  <2>2. CASE program = "disk"
    <3>1. Ide!Next \/ UNCHANGED diskvars
      BY <2>2 DEF PartsNext, allvars
    <3>2. DiskInv'
      BY <2>2, <3>1, DiskNextInv, DiskStutter DEF DevicesInv, diskvars
    <3> QED  BY <2>1, <2>2, <3>2 DEF DevicesInv
  <2>3. CASE program = "boot"
    <3>1. Up!Next \/ UNCHANGED bootvars
      BY <2>3 DEF PartsNext, allvars
    <3>2. BootInv'
      BY <2>3, <3>1, BootNextInv, BootStutter DEF DevicesInv
    <3> QED  BY <2>1, <2>3, <3>2 DEF DevicesInv
  <2>4. CASE program = "emulator"
    <3>1. Em!Next \/ UNCHANGED emvars
      BY <2>4 DEF PartsNext, allvars
    <3>2. EmInv'
      BY <2>4, <3>1, EmNextInv, EmStutter DEF DevicesInv
    <3> QED  BY <2>1, <2>4, <3>2 DEF DevicesInv
  <2> QED  BY <2>1, <2>2, <2>3, <2>4 DEF DevicesInv
<1>3. DevicesInv => DevicesExact
  BY DiskReadExact, BootsExactly, EmulatesExactly DEF DevicesInv, DevicesExact
<1> QED  BY <1>1, <1>2, <1>3, PTL DEF PartsSpec
=============================================================================
