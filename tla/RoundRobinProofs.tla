-------------------------- MODULE RoundRobinProofs --------------------------
(***************************************************************************)
(* Theorems about RoundRobinTurns, for any number of processes: while a    *)
(* process waits for the processor nobody gets it twice.                   *)
(***************************************************************************)
EXTENDS RoundRobinTurns, SequenceLemmas

(* The types, with the facts about the list and the states that they need: *)
(* nobody is in the list twice, and who has the processor is runnable.     *)
RInv ==
  /\ TypeOK
  /\ Distinct(proc_list)
  /\ \A p \in Proc : wait_state[p] => state[p] = "SLEEPING"
  /\ current # idleproc => state[current] = "RUNNABLE"

-----------------------------------------------------------------------------
(* The order of a list.                                                    *)
Ahead(l, p, q) == \E i, j \in DOMAIN l : i < j /\ l[i] = p /\ l[j] = q

(* In a list without repetition, being ahead is a strict order, total on   *)
(* the elements.                                                           *)
LEMMA AheadIsOrder ==
  ASSUME NEW S, NEW l \in Seq(S), Distinct(l), NEW p, NEW q, NEW r
  PROVE  /\ ~Ahead(l, p, p)
         /\ Ahead(l, p, q) => ~Ahead(l, q, p)
         /\ Ahead(l, p, q) /\ Ahead(l, q, r) => Ahead(l, p, r)
         /\ p \in ToSet(l) /\ q \in ToSet(l) => p = q \/ Ahead(l, p, q) \/ Ahead(l, q, p)
<1>1. DOMAIN l = 1 .. Len(l) /\ Len(l) \in Nat
  BY LenProperties
<1>2. QED
  BY <1>1 DEF Ahead, Distinct, ToSet

(* An element put in front leaves the order of the others as it is, ...    *)
LEMMA AheadPrepend ==
  ASSUME NEW S, NEW l \in Seq(S), NEW e \in S, NEW p, NEW q,
         p # e, q # e
  PROVE  Ahead(<<e>> \o l, p, q) <=> Ahead(l, p, q)
<1> DEFINE t == <<e>> \o l
<1>1. DOMAIN l = 1 .. Len(l) /\ DOMAIN t = 1 .. Len(l) + 1 /\ Len(l) \in Nat
  BY PrependProperties, LenProperties
<1>2. t[1] = e /\ \A i \in 2 .. Len(l) + 1 : t[i] = l[i - 1]
  BY PrependProperties
<1> HIDE DEF t
<1>3. ASSUME Ahead(t, p, q)
      PROVE  Ahead(l, p, q)
  <2>1. PICK i, j \in DOMAIN t : i < j /\ t[i] = p /\ t[j] = q
    BY <1>3 DEF Ahead
  <2>2. i # 1 /\ j # 1
    BY <1>2, <2>1
  <2>3. /\ i - 1 \in DOMAIN l /\ j - 1 \in DOMAIN l /\ i - 1 < j - 1
        /\ l[i - 1] = p /\ l[j - 1] = q
    BY <1>1, <1>2, <2>1, <2>2
  <2>4. QED
    BY <2>3 DEF Ahead
<1>4. ASSUME Ahead(l, p, q)
      PROVE  Ahead(t, p, q)
  <2>1. PICK i, j \in DOMAIN l : i < j /\ l[i] = p /\ l[j] = q
    BY <1>4 DEF Ahead
  <2>2. /\ i + 1 \in DOMAIN t /\ j + 1 \in DOMAIN t /\ i + 1 < j + 1
        /\ t[i + 1] = l[(i + 1) - 1] /\ t[j + 1] = l[(j + 1) - 1]
        /\ (i + 1) - 1 = i /\ (j + 1) - 1 = j
    BY <1>1, <1>2, <2>1
  <2>3. QED
    BY <2>1, <2>2 DEF Ahead
<1>5. QED
  BY <1>3, <1>4 DEF t

(* ... and so does one that is taken out.                                  *)
LEMMA AheadRemove ==
  ASSUME NEW S, NEW l \in Seq(S), NEW k \in 1 .. Len(l), NEW p, NEW q,
         p # l[k], q # l[k]
  PROVE  Ahead(RemoveAt(l, k), p, q) <=> Ahead(l, p, q)
<1> DEFINE t == RemoveAt(l, k)
           Old(i) == IF i < k THEN i ELSE i + 1
           New(i) == IF i < k THEN i ELSE i - 1
<1>1. DOMAIN l = 1 .. Len(l) /\ DOMAIN t = 1 .. Len(l) - 1 /\ Len(l) \in Nat
  BY RemoveAtProperties, LenProperties
<1>2. ASSUME NEW i \in DOMAIN t
      PROVE  Old(i) \in DOMAIN l /\ t[i] = l[Old(i)]
  <2>1. i \in 1 .. Len(l) - 1
    BY <1>1
  <2>2. t[i] = l[Old(i)]
    BY <2>1, RemoveAtProperties
  <2>3. QED
    BY <1>1, <2>1, <2>2
<1> HIDE DEF t
<1>3. ASSUME NEW i \in DOMAIN l, i # k
      PROVE  New(i) \in DOMAIN t /\ t[New(i)] = l[i]
  <2>1. New(i) \in DOMAIN t /\ Old(New(i)) = i
    BY <1>1, <1>3
  <2>2. QED
    BY <1>2, <2>1
<1>4. ASSUME Ahead(t, p, q)
      PROVE  Ahead(l, p, q)
  <2>1. PICK i, j \in DOMAIN t : i < j /\ t[i] = p /\ t[j] = q
    BY <1>4 DEF Ahead
  <2>2. Old(i) < Old(j)
    BY <1>1, <2>1
  <2>3. QED
    BY <1>2, <2>1, <2>2 DEF Ahead
<1>5. ASSUME Ahead(l, p, q)
      PROVE  Ahead(t, p, q)
  <2>1. PICK i, j \in DOMAIN l : i < j /\ l[i] = p /\ l[j] = q
    BY <1>5 DEF Ahead
  <2>2. i # k /\ j # k
    BY <2>1
  <2>3. New(i) < New(j)
    BY <1>1, <2>1, <2>2
  <2>4. QED
    BY <1>3, <2>1, <2>2, <2>3 DEF Ahead
<1>6. QED
  BY <1>4, <1>5 DEF t

-----------------------------------------------------------------------------
(* The walk from the current process meets x sooner than y.                *)
Sooner(x, y) ==
  IF current = idleproc THEN Ahead(proc_list, x, y)
  ELSE IF Ahead(proc_list, current, x)
       THEN Ahead(proc_list, x, y) \/ ~Ahead(proc_list, current, y)
       ELSE ~Ahead(proc_list, current, y) /\ Ahead(proc_list, x, y)

(* Where the walk begins: behind the current process, or at the head.      *)
LEMMA WalkBegins ==
  ASSUME RInv
  PROVE  \E c \in 0 .. Len(proc_list) :
           /\ IF c = 0 THEN current = idleproc ELSE proc_list[c] = current
           /\ Walk(proc_list) = SubSeq(proc_list, c + 1, Len(proc_list)) \o SubSeq(proc_list, 1, c)
<1> DEFINE C(j) == IF j = 0 THEN current = idleproc ELSE proc_list[j] = current
<1>1. Len(proc_list) \in Nat /\ DOMAIN proc_list = 1 .. Len(proc_list)
  BY LenProperties DEF RInv, TypeOK
<1>2. \E j \in 0 .. Len(proc_list) : C(j)
  <2>1. CASE current = idleproc
    BY <1>1, <2>1
  <2>2. CASE current # idleproc
    <3>1. current \in ToSet(proc_list)
      BY <2>2 DEF RInv, TypeOK
    <3>2. PICK j \in DOMAIN proc_list : proc_list[j] = current
      BY <3>1 DEF ToSet
    <3>3. QED
      BY <1>1, <3>2
  <2>3. QED
    BY <2>1, <2>2
<1> HIDE DEF C
<1>3. C(CHOOSE j \in 0 .. Len(proc_list) : C(j)) /\ (CHOOSE j \in 0 .. Len(proc_list) : C(j)) \in 0 .. Len(proc_list)
  BY <1>2
<1>4. QED
  BY <1>3 DEF C, Walk

(* The walk meets each process of the list, in that order.                 *)
LEMMA WalkOrder ==
  ASSUME RInv
  PROVE  /\ Walk(proc_list) \in Seq(Proc)
         /\ ToSet(Walk(proc_list)) = ToSet(proc_list)
         /\ \A i, j \in DOMAIN Walk(proc_list) :
              i < j => Sooner(Walk(proc_list)[i], Walk(proc_list)[j])
<1> DEFINE n == Len(proc_list)
           w == Walk(proc_list)
<1>1. /\ n \in Nat /\ DOMAIN proc_list = 1 .. n /\ proc_list \in Seq(Proc)
      /\ \A i \in 1 .. n : proc_list[i] \in Proc
      /\ \A i, j \in 1 .. n : proc_list[i] = proc_list[j] => i = j
  BY LenProperties, ElementOfSeq DEF RInv, TypeOK, Distinct
<1>2. PICK c \in 0 .. n :
        /\ IF c = 0 THEN current = idleproc ELSE proc_list[c] = current
        /\ w = SubSeq(proc_list, c + 1, n) \o SubSeq(proc_list, 1, c)
  BY WalkBegins
<1> DEFINE Old(i) == IF i <= n - c THEN i + c ELSE i - (n - c)
<1> HIDE DEF w
<1>3. /\ w \in Seq(Proc) /\ Len(w) = n /\ ToSet(w) = ToSet(proc_list)
      /\ \A i \in 1 .. n : w[i] = proc_list[Old(i)]
  <2>1. LET v == SubSeq(proc_list, c + 1, Len(proc_list)) \o SubSeq(proc_list, 1, c)
        IN  /\ v \in Seq(Proc) /\ Len(v) = Len(proc_list)
            /\ \A i \in 1 .. Len(proc_list) :
                 v[i] = proc_list[IF i <= Len(proc_list) - c THEN i + c ELSE i - (Len(proc_list) - c)]
            /\ ToSet(v) = ToSet(proc_list)
    BY <1>1, RotationProperties
  <2>2. QED
    BY <1>2, <2>1
<1>4. DOMAIN w = 1 .. n
  BY <1>3, LenProperties
<1>5. \A i \in 1 .. n : Old(i) \in 1 .. n
  BY <1>1
<1>6. ASSUME NEW k \in 1 .. n, NEW m \in 1 .. n
      PROVE  Ahead(proc_list, proc_list[k], proc_list[m]) <=> k < m
  BY <1>1 DEF Ahead
<1>7. c # 0 => \A m \in 1 .. n : Ahead(proc_list, current, proc_list[m]) <=> c < m
  BY <1>2, <1>6
<1>8. c = 0 <=> current = idleproc
  BY <1>1, <1>2 DEF Proc, idleproc
<1>9. ASSUME NEW i \in 1 .. n, NEW j \in 1 .. n, i < j
      PROVE  Sooner(w[i], w[j])
  <2>1. /\ Old(i) \in 1 .. n /\ Old(j) \in 1 .. n
        /\ w[i] = proc_list[Old(i)] /\ w[j] = proc_list[Old(j)]
    BY <1>3, <1>5
  <2>2. Ahead(proc_list, w[i], w[j]) <=> Old(i) < Old(j)
    BY <1>6, <2>1
  <2>3. CASE c = 0
    BY <1>8, <1>9, <2>2, <2>3 DEF Sooner
  <2>4. CASE c # 0
    <3>1. /\ Ahead(proc_list, current, w[i]) <=> c < Old(i)
          /\ Ahead(proc_list, current, w[j]) <=> c < Old(j)
      BY <1>7, <2>1, <2>4
    <3>2. IF c < Old(i) THEN Old(i) < Old(j) \/ ~(c < Old(j))
          ELSE ~(c < Old(j)) /\ Old(i) < Old(j)
      BY <1>1, <1>9
    <3>3. QED
      BY <1>8, <2>2, <2>4, <3>1, <3>2 DEF Sooner
  <2>5. QED
    BY <2>3, <2>4
<1>10. QED
  BY <1>3, <1>4, <1>9 DEF w

(* Whom schedule() picks: the runnable process that the walk meets first.  *)
LEMMA PickedIsFirst ==
  ASSUME RInv, NEW st, NEW next, next = FirstReady(Walk(proc_list), st)
  PROVE  /\ next = idleproc => \A p \in ToSet(proc_list) : st[p] # "RUNNABLE"
         /\ next # idleproc =>
              /\ next \in ToSet(proc_list) /\ st[next] = "RUNNABLE"
              /\ \A p \in ToSet(proc_list) : st[p] = "RUNNABLE" => p = next \/ Sooner(next, p)
<1> DEFINE w == Walk(proc_list)
           ready == {i \in DOMAIN w : st[w[i]] = "RUNNABLE"}
<1>1. /\ w \in Seq(Proc) /\ ToSet(w) = ToSet(proc_list)
      /\ \A i, j \in DOMAIN w : i < j => Sooner(w[i], w[j])
  BY WalkOrder
<1>2. next = IF ready = {} THEN idleproc ELSE w[Min(ready)]
  BY DEF FirstReady
<1> HIDE DEF w
<1>3. DOMAIN w = 1 .. Len(w) /\ Len(w) \in Nat /\ \A i \in 1 .. Len(w) : w[i] \in Proc
  BY <1>1, LenProperties, ElementOfSeq
<1>4. \A p \in ToSet(proc_list) : \E i \in DOMAIN w : w[i] = p
  BY <1>1 DEF ToSet
<1>5. CASE ready = {}
  BY <1>2, <1>3, <1>4, <1>5
<1>6. CASE ready # {}
  <2>1. Min(ready) \in ready /\ \A j \in ready : Min(ready) <= j
    <3>1. ready \subseteq Nat
      BY <1>3
    <3>2. QED
      BY <1>6, <3>1, MinProperties
  <2>2. /\ next = w[Min(ready)] /\ Min(ready) \in DOMAIN w /\ st[next] = "RUNNABLE"
        /\ next \in ToSet(proc_list)
    BY <1>1, <1>2, <1>6, <2>1 DEF ToSet
  <2>3. next # idleproc
    BY <1>3, <2>2 DEF Proc, idleproc
  <2>4. ASSUME NEW p \in ToSet(proc_list), st[p] = "RUNNABLE", p # next
        PROVE  Sooner(next, p)
    <3>1. PICK j \in DOMAIN w : w[j] = p
      BY <1>4
    <3>2. j \in ready
      BY <2>4, <3>1
    <3>3. Min(ready) < j
      <4>1. Min(ready) \in Nat /\ j \in Nat /\ Min(ready) <= j
        BY <1>3, <2>1, <3>1, <3>2
      <4>2. Min(ready) # j
        BY <2>2, <2>4, <3>1
      <4>3. QED
        BY <4>1, <4>2
    <3>4. QED
      BY <1>1, <2>2, <3>1, <3>3
  <2>5. QED
    BY <2>2, <2>3, <2>4
<1>7. QED
  BY <1>5, <1>6

(* What schedule() does to the processor, when the states are st.          *)
LEMMA SchedulePicks ==
  ASSUME RInv, NEW st, Schedule(st)
  PROVE  /\ current' \in ToSet(proc_list) \cup {idleproc} /\ current' \in Proc \cup {idleproc}
         /\ need_resched' = FALSE
         /\ current' = idleproc => \A p \in ToSet(proc_list) : st[p] # "RUNNABLE"
         /\ current' # idleproc =>
              /\ st[current'] = "RUNNABLE"
              /\ \A p \in ToSet(proc_list) : st[p] = "RUNNABLE" => p = current' \/ Sooner(current', p)
<1>1. PICK next : next = FirstReady(Walk(proc_list), st)
  OBVIOUS
<1>2. current' = next /\ need_resched' = FALSE
  BY <1>1 DEF Schedule
<1>3. ToSet(proc_list) \subseteq Proc
  BY DEF RInv, TypeOK
<1>4. QED
  BY <1>1, <1>2, <1>3, PickedIsFirst

-----------------------------------------------------------------------------
(* The structures do not include idleproc.                                 *)
LEMMA Numbers == initproc \in Proc /\ idleproc \notin Proc /\ User \subseteq Proc /\ ANY \notin Proc
  BY RoundRobinAssumption DEF initproc, idleproc, Proc, User, ANY

(* do_exit changes states, wake-ups and parents, not the list.             *)
LEMMA DoExitKeeps ==
  ASSUME RInv, NEW p \in Proc, current = p, DoExit(p)
  PROVE  RInv'
<1>1. CASE p = initproc
  BY <1>1 DEF DoExit, RInv, TypeOK
<1>2. CASE p # initproc
  <2> DEFINE W == ExitWakes(p)
             st == Wake([state EXCEPT ![p] = "ZOMBIE"], W)
  <2>1. state[p] = "RUNNABLE" /\ ~wait_state[p]
    BY Numbers DEF RInv
  <2>2. W \subseteq {q \in Proc : state[q] = "SLEEPING"} /\ p \notin W
    BY <2>1 DEF ExitWakes, RInv
  <2>3. st = [q \in Proc |-> IF q \in W THEN "RUNNABLE" ELSE IF q = p THEN "ZOMBIE" ELSE state[q]]
    BY DEF Wake, RInv, TypeOK
  <2>4. /\ state' = st /\ Schedule(st)
        /\ wait_state' = [q \in Proc |-> wait_state[q] /\ q \notin W]
        /\ parent' \in [Proc -> Proc \cup {idleproc}]
        /\ UNCHANGED <<proc_list, exiting, pc, pid, halted>>
    BY <1>2, Numbers DEF DoExit, Awake, RInv, TypeOK
  <2> HIDE DEF st, W
  <2>5. PICK s : s = st
    OBVIOUS
  <2>6. current' \in Proc \cup {idleproc} /\ need_resched' = FALSE /\ (current' # idleproc => st[current'] = "RUNNABLE")
    BY <2>4, <2>5, SchedulePicks
  <2>7. state' \in [Proc -> {"FREE", "RUNNABLE", "SLEEPING", "ZOMBIE"}]
    BY <2>2, <2>3, <2>4 DEF RInv, TypeOK
  <2>8. {q \in Proc : state'[q] # "FREE"} = {q \in Proc : state[q] # "FREE"}
    BY <2>1, <2>2, <2>3, <2>4
  <2>9. TypeOK'
    BY <2>4, <2>6, <2>7, <2>8 DEF RInv, TypeOK
  <2>10. \A q \in Proc : wait_state'[q] => state'[q] = "SLEEPING"
    BY <2>1, <2>3, <2>4 DEF RInv
  <2>11. QED
    BY <2>4, <2>6, <2>9, <2>10 DEF RInv
<1>3. QED
  BY <1>1, <1>2

(* set_links and wakeup_proc of a new process c.                           *)
LEMMA LinkKeeps ==
  ASSUME NEW l \in Seq(Proc), NEW st \in [Proc -> {"FREE", "RUNNABLE", "SLEEPING", "ZOMBIE"}],
         Distinct(l), ToSet(l) = {q \in Proc : st[q] # "FREE"},
         NEW c \in Proc, st[c] = "FREE"
  PROVE  /\ <<c>> \o l \in Seq(Proc) /\ Distinct(<<c>> \o l)
         /\ ToSet(<<c>> \o l) = {q \in Proc : [st EXCEPT ![c] = "RUNNABLE"][q] # "FREE"}
<1>1. c \notin ToSet(l)
  OBVIOUS
<1>2. QED
  BY <1>1, ToSetPrepend, PrependProperties

(* do_fork puts a free process, which is not in the list, in front of it.  *)
LEMMA MakeChildKeeps ==
  ASSUME RInv, NEW p \in Proc, NEW c \in User, MakeChild(p, c)
  PROVE  RInv'
<1>1. /\ c \in Proc /\ state[c] = "FREE" /\ proc_list' = <<c>> \o proc_list
      /\ state' = [state EXCEPT ![c] = "RUNNABLE"]
      /\ parent' = [parent EXCEPT ![c] = p] /\ pc' = [pc EXCEPT ![p] = "ret"]
      /\ UNCHANGED <<wait_state, exiting, pid, current, need_resched, halted>>
  BY Numbers DEF MakeChild, Goto
<1>a. /\ proc_list \in Seq(Proc) /\ Distinct(proc_list)
      /\ ToSet(proc_list) = {q \in Proc : state[q] # "FREE"}
      /\ state \in [Proc -> {"FREE", "RUNNABLE", "SLEEPING", "ZOMBIE"}]
  BY DEF RInv, TypeOK
<1>2. /\ proc_list' \in Seq(Proc) /\ Distinct(proc_list')
      /\ ToSet(proc_list') = {q \in Proc : state'[q] # "FREE"}
  BY <1>1, <1>a, LinkKeeps
<1>3. QED
  BY <1>1, <1>2 DEF RInv, TypeOK

(* init_main puts two free processes in front of the list.                 *)
LEMMA InitMainKeeps ==
  ASSUME RInv, InitMain
  PROVE  RInv'
<1>1. PICK c \in Free(1), d \in Free(2) :
        /\ c # d
        /\ proc_list' = <<d>> \o (<<c>> \o proc_list)
        /\ state' = [state EXCEPT ![c] = "RUNNABLE", ![d] = "RUNNABLE"]
        /\ parent' = [parent EXCEPT ![c] = initproc, ![d] = initproc]
  BY DEF InitMain
<1>2. /\ c \in Proc /\ state[c] = "FREE" /\ d \in Proc /\ state[d] = "FREE" /\ c # d
      /\ pc' = [pc EXCEPT ![initproc] = "wait"]
      /\ UNCHANGED <<wait_state, exiting, pid, current, need_resched, halted>>
  BY <1>1, Numbers DEF InitMain, Free, Goto
<1> DEFINE l == <<c>> \o proc_list
           st == [state EXCEPT ![c] = "RUNNABLE"]
<1>a. /\ proc_list \in Seq(Proc) /\ Distinct(proc_list)
      /\ ToSet(proc_list) = {q \in Proc : state[q] # "FREE"}
      /\ state \in [Proc -> {"FREE", "RUNNABLE", "SLEEPING", "ZOMBIE"}]
  BY DEF RInv, TypeOK
<1>3. /\ l \in Seq(Proc) /\ Distinct(l)
      /\ ToSet(l) = {q \in Proc : st[q] # "FREE"}
  BY <1>2, <1>a, LinkKeeps
<1>4. st \in [Proc -> {"FREE", "RUNNABLE", "SLEEPING", "ZOMBIE"}] /\ st[d] = "FREE"
  BY <1>2 DEF RInv, TypeOK
<1>5. proc_list' = <<d>> \o l /\ state' = [st EXCEPT ![d] = "RUNNABLE"]
  BY <1>1
<1> HIDE DEF l, st
<1>6. /\ proc_list' \in Seq(Proc) /\ Distinct(proc_list')
      /\ ToSet(proc_list') = {q \in Proc : state'[q] # "FREE"}
  BY <1>2, <1>3, <1>4, <1>5, LinkKeeps
<1>7. QED
  BY <1>1, <1>2, <1>6, Numbers DEF RInv, TypeOK

(* do_wait takes the zombie out of the list; the list stays without        *)
(* repetition and with all that can run.                                   *)
LEMMA WaitReapsKeeps ==
  ASSUME RInv, NEW p \in Proc, WaitReaps(p)
  PROVE  RInv'
<1>1. PICK c \in Awaited(p) :
       /\ state[c] = "ZOMBIE"
       /\ proc_list' = RemoveFirst(proc_list, c)
       /\ state' = [state EXCEPT ![c] = "FREE"]
       /\ exiting' = [exiting EXCEPT ![c] = FALSE]
       /\ pc' = [pc EXCEPT ![c] = "user", ![p] = IF p = initproc THEN "wait" ELSE "ret"]
       /\ pid' = [pid EXCEPT ![c] = ANY, ![p] = ANY]
       /\ parent' = [parent EXCEPT ![c] = idleproc]
  BY DEF WaitReaps
<1>2. c \in ToSet(proc_list) /\ c \in Proc
  BY DEF Awaited, Children, RInv, TypeOK
<1>3. PICK i \in 1 .. Len(proc_list) : proc_list[i] = c /\ proc_list' = RemoveAt(proc_list, i)
  BY <1>1, <1>2, RemoveFirstProperties DEF RInv, TypeOK
<1>4. /\ proc_list' \in Seq(Proc) /\ Distinct(proc_list')
      /\ ToSet(proc_list') = ToSet(proc_list) \ {c}
  BY <1>3, ToSetRemoveAt, RemoveAtProperties DEF RInv, TypeOK
<1>5. /\ current' \in Proc \cup {idleproc} /\ need_resched' \in BOOLEAN
      /\ current' # idleproc => state'[current'] = "RUNNABLE"
  <2>1. CASE p = initproc
    <3>1. PICK s : s = state'
      OBVIOUS
    <3>2. Schedule(s)
      BY <2>1, <3>1 DEF WaitReaps, Schedule
    <3>3. QED
      BY <3>1, <3>2, SchedulePicks
  <2>2. CASE p # initproc
    BY <1>1, <2>2 DEF WaitReaps, RInv, TypeOK
  <2>3. QED
    BY <2>1, <2>2
<1>6. UNCHANGED <<wait_state, halted>>
  BY DEF WaitReaps
<1>7. TypeOK'
  BY <1>1, <1>2, <1>4, <1>5, <1>6 DEF RInv, TypeOK
<1>8. QED
  BY <1>1, <1>2, <1>4, <1>5, <1>6, <1>7 DEF RInv, TypeOK

(* do_wait puts the current process to sleep and schedules at once.        *)
LEMMA WaitSleepsKeeps ==
  ASSUME RInv, NEW p \in Proc, WaitSleeps(p)
  PROVE  RInv'
<1>1. PICK s : s = state'
  OBVIOUS
<1>2. Schedule(s)
  BY <1>1 DEF WaitSleeps, Schedule
<1>3. /\ current' \in Proc \cup {idleproc} /\ need_resched' \in BOOLEAN
      /\ current' # idleproc => state'[current'] = "RUNNABLE"
  BY <1>1, <1>2, SchedulePicks
<1>4. state[p] = "RUNNABLE"
  BY Numbers DEF WaitSleeps, In, RInv
<1>5. QED
  BY <1>3, <1>4 DEF WaitSleeps, Goto, RInv, TypeOK

(* schedule() makes current a process that can run, or idleproc.           *)
LEMMA ScheduleKeeps ==
  ASSUME RInv, Schedule(state), pc' \in [Proc -> {"user", "ret", "wait", "woken", "main"}],
         UNCHANGED <<proc_list, state, parent, wait_state, exiting, pid, halted>>
  PROVE  RInv'
<1>1. PICK s : s = state
  OBVIOUS
<1>2. Schedule(s)
  BY <1>1 DEF Schedule
<1>3. /\ current' \in Proc \cup {idleproc} /\ need_resched' \in BOOLEAN
      /\ current' # idleproc => state'[current'] = "RUNNABLE"
  BY <1>1, <1>2, SchedulePicks
<1>4. QED
  BY <1>3 DEF RInv, TypeOK

(* do_kill leaves zombies alone: they do not wait.                         *)
LEMMA SysKillKeeps ==
  ASSUME RInv, NEW p \in User, NEW q \in Proc, SysKill(p, q)
  PROVE  RInv'
<1> DEFINE W == {r \in {q} : wait_state[r]}
<1>1. /\ state' = [r \in Proc |-> IF r \in W THEN "RUNNABLE" ELSE state[r]]
      /\ wait_state' = [r \in Proc |-> wait_state[r] /\ r \notin W]
      /\ exiting' = [exiting EXCEPT ![q] = TRUE] /\ pc' = [pc EXCEPT ![p] = "ret"]
      /\ UNCHANGED <<proc_list, parent, pid, current, need_resched, halted>>
  BY DEF SysKill, Wake, Awake, Goto
<1>2. \A r \in W : r \in Proc /\ state[r] = "SLEEPING"
  BY DEF RInv
<1> HIDE DEF W
<1>3. {r \in Proc : state'[r] # "FREE"} = {r \in Proc : state[r] # "FREE"}
  BY <1>1, <1>2
<1>4. TypeOK'
  BY <1>1, <1>2, <1>3, Numbers DEF RInv, TypeOK
<1>5. QED
  BY <1>1, <1>2, <1>4 DEF RInv, TypeOK

(* Every step of the kernel preserves the invariant.                       *)
LEMMA RInvStep == RInv /\ [Next]_vars => RInv'
<1> SUFFICES ASSUME RInv, [Next]_vars
             PROVE  RInv'
  OBVIOUS
<1>1. CASE InitMain
  BY <1>1, InitMainKeeps
<1>2. CASE CpuIdle
  <2>1. Schedule(state) /\ UNCHANGED <<proc_list, state, parent, wait_state, exiting, pc, pid, halted>>
    BY <1>2 DEF CpuIdle
  <2>2. QED
    BY <2>1, ScheduleKeeps DEF RInv, TypeOK
<1>3. ASSUME NEW p \in Proc, WaitReaps(p)
      PROVE  RInv'
  BY <1>3, WaitReapsKeeps
<1>4. ASSUME NEW p \in Proc, WaitSleeps(p)
      PROVE  RInv'
  BY <1>4, WaitSleepsKeeps
<1>5. ASSUME NEW p \in Proc, WaitFails(p)
      PROVE  RInv'
  BY <1>5 DEF WaitFails, Goto, RInv, TypeOK
<1>6. ASSUME NEW p \in Proc, Woken(p)
      PROVE  RInv'
  <2>1. CASE exiting[p]
    BY <1>6, <2>1, DoExitKeeps DEF Woken, In
  <2>2. CASE ~exiting[p]
    BY <1>6, <2>2 DEF Woken, Goto, RInv, TypeOK
  <2>3. QED
    BY <2>1, <2>2
<1>7. ASSUME NEW p \in Proc, TrapReturn(p)
      PROVE  RInv'
  <2>1. CASE exiting[p]
    BY <1>7, <2>1, DoExitKeeps DEF TrapReturn, In
  <2>2. CASE ~exiting[p]
    <3>1. /\ pc' \in [Proc -> {"user", "ret", "wait", "woken", "main"}]
          /\ UNCHANGED <<proc_list, state, parent, wait_state, exiting, pid, halted>>
      BY <1>7, <2>2 DEF TrapReturn, Goto, RInv, TypeOK
    <3>2. CASE need_resched
      BY <1>7, <2>2, <3>1, <3>2, ScheduleKeeps DEF TrapReturn
    <3>3. CASE ~need_resched
      BY <1>7, <2>2, <3>1, <3>3 DEF TrapReturn, RInv, TypeOK
    <3>4. QED
      BY <3>2, <3>3
  <2>3. QED
    BY <2>1, <2>2
<1>8. CASE Timer \/ Tick
  BY <1>8 DEF Timer, Tick, Goto, RInv, TypeOK
<1>9. ASSUME NEW p \in User, SysFork(p)
      PROVE  RInv'
  <2>1. PICK c \in Free(1) : MakeChild(p, c)
    BY <1>9 DEF SysFork
  <2>2. c \in User /\ p \in Proc
    BY Numbers DEF Free
  <2>3. QED
    BY <2>1, <2>2, MakeChildKeeps
<1>10. ASSUME NEW p \in User, SysExit(p)
       PROVE  RInv'
  BY <1>10, DoExitKeeps, Numbers DEF SysExit, In
<1>11. ASSUME NEW p \in User, SysYield(p)
       PROVE  RInv'
  BY <1>11 DEF SysYield, Goto, RInv, TypeOK
<1>12. ASSUME NEW p \in User, NEW c \in User \cup {ANY}, SysWait(p, c)
       PROVE  RInv'
  BY <1>12 DEF SysWait, Goto, RInv, TypeOK
<1>13. ASSUME NEW p \in User, NEW q \in Proc, SysKill(p, q)
       PROVE  RInv'
  BY <1>13, SysKillKeeps
<1>14. CASE UNCHANGED vars
  BY <1>14 DEF vars, RInv, TypeOK
<1>15. QED
  BY <1>1, <1>2, <1>3, <1>4, <1>5, <1>6, <1>7, <1>8, <1>9, <1>10, <1>11, <1>12, <1>13, <1>14 DEF Next, Kernel

(* proc_init leaves initproc alone in the list, ready to run.              *)
LEMMA RInvInit == Init => RInv
<1> SUFFICES ASSUME Init
             PROVE  RInv
  OBVIOUS
<1>1. proc_list \in Seq(Proc) /\ Distinct(proc_list) /\ ToSet(proc_list) = {initproc}
  <2>1. Len(<<initproc>>) = 1 /\ <<initproc>>[1] = initproc /\ DOMAIN <<initproc>> = {1}
    OBVIOUS
  <2>2. QED
    BY <2>1, Numbers DEF Init, Distinct, ToSet
<1>2. QED
  BY <1>1, Numbers DEF Init, RInv, TypeOK

(* The types; who is in the list is there once; who runs can run.          *)
THEOREM TypeCorrect == Spec => []RInv
<1>1. QED
  BY RInvInit, RInvStep, PTL DEF Spec

-----------------------------------------------------------------------------
(* Who is in the list before a step and after it keeps his place there.    *)
SameOrder ==
  \A x, y \in ToSet(proc_list) \cap ToSet(proc_list') :
    Ahead(proc_list', x, y) <=> Ahead(proc_list, x, y)

(* fork and init_main put processes in front, ...                          *)
LEMMA ForkKeepsOrder ==
  ASSUME RInv, InitMain \/ \E p \in User : SysFork(p)
  PROVE  SameOrder /\ current' = current
<1>1. proc_list \in Seq(Proc) /\ ToSet(proc_list) = {q \in Proc : state[q] # "FREE"}
  BY DEF RInv, TypeOK
<1>2. CASE InitMain
  <2>1. PICK c \in Free(1), d \in Free(2) : proc_list' = <<d>> \o (<<c>> \o proc_list)
    BY <1>2 DEF InitMain
  <2>2. c \in Proc /\ c \notin ToSet(proc_list) /\ d \in Proc /\ d \notin ToSet(proc_list)
    BY <1>1, <2>1, Numbers DEF Free
  <2>3. <<c>> \o proc_list \in Seq(Proc)
    BY <1>1, <2>2, PrependProperties
  <2>4. ASSUME NEW x \in ToSet(proc_list), NEW y \in ToSet(proc_list)
        PROVE  /\ Ahead(<<c>> \o proc_list, x, y) <=> Ahead(proc_list, x, y)
               /\ Ahead(<<d>> \o (<<c>> \o proc_list), x, y) <=> Ahead(<<c>> \o proc_list, x, y)
    BY <1>1, <2>2, <2>3, AheadPrepend
  <2>5. QED
    BY <1>2, <2>1, <2>4 DEF SameOrder, InitMain
<1>3. ASSUME NEW p \in User, SysFork(p)
      PROVE  SameOrder /\ current' = current
  <2>1. PICK c \in Free(1) : MakeChild(p, c)
    BY <1>3 DEF SysFork
  <2>2. c \in Proc /\ c \notin ToSet(proc_list) /\ proc_list' = <<c>> \o proc_list /\ current' = current
    BY <1>1, <2>1, Numbers DEF Free, MakeChild
  <2>3. ASSUME NEW x \in ToSet(proc_list), NEW y \in ToSet(proc_list)
        PROVE  Ahead(<<c>> \o proc_list, x, y) <=> Ahead(proc_list, x, y)
    BY <1>1, <2>2, AheadPrepend
  <2>4. QED
    BY <2>2, <2>3 DEF SameOrder
<1>4. QED
  BY <1>2, <1>3

(* ... do_wait takes one out.                                              *)
LEMMA WaitKeepsOrder ==
  ASSUME RInv, NEW p \in Proc, WaitReaps(p)
  PROVE  SameOrder /\ ToSet(proc_list') \subseteq ToSet(proc_list)
<1>1. PICK c \in Awaited(p) : proc_list' = RemoveFirst(proc_list, c)
  BY DEF WaitReaps
<1>2. c \in ToSet(proc_list)
  BY DEF Awaited, Children
<1>3. PICK i \in 1 .. Len(proc_list) : proc_list[i] = c /\ proc_list' = RemoveAt(proc_list, i)
  BY <1>1, <1>2, RemoveFirstProperties DEF RInv, TypeOK
<1>4. ToSet(proc_list') = ToSet(proc_list) \ {c}
  BY <1>3, ToSetRemoveAt DEF RInv, TypeOK
<1>5. ASSUME NEW x \in ToSet(proc_list'), NEW y \in ToSet(proc_list')
      PROVE  Ahead(RemoveAt(proc_list, i), x, y) <=> Ahead(proc_list, x, y)
  BY <1>3, <1>4, <1>5, AheadRemove DEF RInv, TypeOK
<1>6. QED
  BY <1>3, <1>4, <1>5 DEF SameOrder

(* A step leaves the processor to whoever has it, or calls schedule() with *)
(* the states as they are after it and with no new process in the list.    *)
Schedules == /\ \E st : st = state' /\ Schedule(st)
             /\ ToSet(proc_list') \subseteq ToSet(proc_list)

(* do_exit leaves the list alone; the process that runs afterwards is      *)
(* picked by schedule().                                                   *)
LEMMA DoExitSchedules ==
  ASSUME NEW p \in Proc, DoExit(p)
  PROVE  proc_list' = proc_list /\ (current' = current \/ Schedules)
<1>1. CASE p = initproc
  BY <1>1 DEF DoExit
<1>2. CASE p # initproc
  BY <1>2 DEF DoExit, Schedules, Schedule
<1>3. QED
  BY <1>1, <1>2

(* No step changes the order of two processes that are in the list before  *)
(* and after it, and only schedule() changes the current process.          *)
LEMMA StepOrder ==
  ASSUME RInv, [Next]_vars
  PROVE  SameOrder /\ (current' = current \/ Schedules)
<1>1. ASSUME proc_list' = proc_list
      PROVE  SameOrder
  BY <1>1 DEF SameOrder
<1>2. CASE InitMain \/ \E p \in User : SysFork(p)
  BY <1>2, ForkKeepsOrder
<1>3. ASSUME NEW p \in Proc, WaitReaps(p)
      PROVE  SameOrder /\ (current' = current \/ Schedules)
  <2>1. current' = current \/ \E st : st = state' /\ Schedule(st)
    BY <1>3 DEF WaitReaps, Schedule
  <2>2. QED
    BY <1>3, <2>1, WaitKeepsOrder DEF Schedules
<1>4. ASSUME NEW p \in Proc, WaitSleeps(p) \/ WaitFails(p)
      PROVE  SameOrder /\ (current' = current \/ Schedules)
  BY <1>1, <1>4 DEF WaitSleeps, WaitFails, Schedules, Schedule
<1>5. ASSUME NEW p \in Proc, Woken(p) \/ TrapReturn(p) \/ SysExit(p)
      PROVE  SameOrder /\ (current' = current \/ Schedules)
  <2>1. CASE DoExit(p)
    BY <1>1, <2>1, DoExitSchedules
  <2>2. CASE ~DoExit(p)
    BY <1>1, <1>5, <2>2 DEF Woken, TrapReturn, SysExit, Schedules, Schedule
  <2>3. QED
    BY <2>1, <2>2
<1>6. CASE CpuIdle
  BY <1>1, <1>6 DEF CpuIdle, Schedules, Schedule
<1>7. CASE Timer \/ Tick
  BY <1>1, <1>7 DEF Timer, Tick
<1>8. ASSUME NEW p \in User,
             \/ SysYield(p)
             \/ \E q \in Proc : SysKill(p, q)
             \/ \E c \in User \cup {ANY} : SysWait(p, c)
      PROVE  SameOrder /\ (current' = current \/ Schedules)
  BY <1>1, <1>8 DEF SysYield, SysKill, SysWait
<1>9. CASE UNCHANGED vars
  BY <1>1, <1>9 DEF vars
<1>10. QED
  BY <1>2, <1>3, <1>4, <1>5, <1>6, <1>7, <1>8, <1>9, Numbers DEF Next, Kernel

-----------------------------------------------------------------------------
(* The walk has come past q on its way from p to the current process.      *)
Passed(p, q) ==
  IF Ahead(proc_list, p, current)
  THEN Ahead(proc_list, p, q) /\ ~Ahead(proc_list, current, q)
  ELSE Ahead(proc_list, p, q) \/ ~Ahead(proc_list, current, q)

(* Who has had the processor since p began to wait for it was passed.      *)
Turns ==
  /\ ran \in [Proc -> SUBSET Proc]
  /\ \A p \in Proc : state[p] # "RUNNABLE" \/ p = current \/ current = idleproc => ran[p] = {}
  /\ \A p \in Proc : \A q \in ran[p] : q \in ToSet(proc_list) /\ Passed(p, q)

(* Whoever is met sooner than p has not been passed since p waits.         *)
LEMMA SoonerNotPassed ==
  ASSUME RInv, current # idleproc, NEW p \in ToSet(proc_list), p # current, NEW x \in ToSet(proc_list),
         Sooner(x, p)
  PROVE  ~Passed(p, x)
<1>1. proc_list \in Seq(Proc) /\ Distinct(proc_list) /\ current \in ToSet(proc_list)
  BY DEF RInv, TypeOK
<1>2. QED
  BY <1>1, AheadIsOrder DEF Sooner, Passed

(* When x, met sooner than p, gets the processor, whoever was passed still *)
(* is.                                                                     *)
LEMMA PassedStays ==
  ASSUME RInv, current # idleproc, NEW p \in ToSet(proc_list), p # current,
         NEW x \in ToSet(proc_list), Sooner(x, p),
         NEW q \in ToSet(proc_list), Passed(p, q)
  PROVE  IF Ahead(proc_list, p, x)
         THEN Ahead(proc_list, p, q) /\ ~Ahead(proc_list, x, q)
         ELSE Ahead(proc_list, p, q) \/ ~Ahead(proc_list, x, q)
<1> DEFINE A(y, z) == Ahead(proc_list, y, z)
<1>1. proc_list \in Seq(Proc) /\ Distinct(proc_list) /\ current \in ToSet(proc_list)
  BY DEF RInv, TypeOK
<1>2. \A y, z : ~A(y, y) /\ (A(y, z) => ~A(z, y))
  BY <1>1, AheadIsOrder
<1>3. \A y, z, u : A(y, z) /\ A(z, u) => A(y, u)
  BY <1>1, AheadIsOrder
<1>4. \A y, z \in ToSet(proc_list) : y = z \/ A(y, z) \/ A(z, y)
  BY <1>1, AheadIsOrder
<1>5. IF A(current, x) THEN A(x, p) \/ ~A(current, p) ELSE ~A(current, p) /\ A(x, p)
  BY DEF Sooner
<1>6. IF A(p, current) THEN A(p, q) /\ ~A(current, q) ELSE A(p, q) \/ ~A(current, q)
  BY DEF Passed
<1> HIDE DEF A
<1>7. IF A(p, x) THEN A(p, q) /\ ~A(x, q) ELSE A(p, q) \/ ~A(x, q)
  BY <1>1, <1>2, <1>3, <1>4, <1>5, <1>6
<1>8. QED
  BY <1>7 DEF A

(* Whoever has run while p waits lies where the walk has already been      *)
(* since p last ran: the walk adds nobody from beyond p without picking p. *)
LEMMA TurnsStep ==
  ASSUME RInv, Turns, [TNext]_allvars
  PROVE  Turns'
<1>1. CASE UNCHANGED allvars
  BY <1>1 DEF allvars, vars, Turns, Passed
<1>2. CASE TNext
  <2>1. RInv' /\ SameOrder /\ (current' = current \/ Schedules)
    BY <1>2, RInvStep, StepOrder DEF TNext
  <2>2. /\ ToSet(proc_list) = {r \in Proc : state[r] # "FREE"}
        /\ ToSet(proc_list') = {r \in Proc : state'[r] # "FREE"}
        /\ proc_list' \in Seq(Proc) /\ Distinct(proc_list')
        /\ current \in Proc \cup {idleproc} /\ current' \in Proc \cup {idleproc}
    BY <2>1 DEF RInv, TypeOK
  <2>3. ran' = [p \in Proc |-> IF p = current' \/ state'[p] # "RUNNABLE" THEN {}
                               ELSE {q \in ran[p] \cup {current'} : q # idleproc /\ state'[q] # "FREE"}]
    BY <1>2 DEF TNext, Record
  <2>4. ran' \in [Proc -> SUBSET Proc]
    BY <2>2, <2>3 DEF Turns
  <2>5. ASSUME NEW p \in Proc, NEW q \in ran'[p]
        PROVE  /\ p # current' /\ state'[p] = "RUNNABLE" /\ current' # idleproc
               /\ q \in ToSet(proc_list') /\ Passed(p, q)'
    <3>1. /\ p # current' /\ state'[p] = "RUNNABLE" /\ q \in ran[p] \cup {current'}
          /\ q # idleproc /\ state'[q] # "FREE"
      BY <2>3, <2>5
    <3>2. q \in ToSet(proc_list') /\ p \in ToSet(proc_list')
      BY <2>2, <2>4, <2>5, <3>1
    <3>3. CASE q = current'
      <4>1. ~Ahead(proc_list', q, q)
        BY <2>2, AheadIsOrder
      <4>2. QED
        BY <3>1, <3>2, <3>3, <4>1 DEF Passed
    <3>4. CASE q \in ran[p]
      <4>1. /\ state[p] = "RUNNABLE" /\ p # current /\ current # idleproc
            /\ q \in ToSet(proc_list) /\ Passed(p, q) /\ p \in ToSet(proc_list)
        BY <2>2, <3>4 DEF Turns
      <4>2. CASE current' = current
        <5>1. current \in ToSet(proc_list) /\ current \in ToSet(proc_list')
          BY <2>1, <4>1, <4>2 DEF RInv, TypeOK
        <5>2. QED
          BY <2>1, <3>1, <3>2, <4>1, <4>2, <5>1 DEF SameOrder, Passed
      <4>3. CASE Schedules
        <5>1. PICK st : st = state' /\ Schedule(st)
          BY <4>3 DEF Schedules
        <5>2. current' # idleproc /\ current' \in ToSet(proc_list) /\ Sooner(current', p)
          BY <3>1, <4>1, <5>1, SchedulePicks
        <5>3. current' \in ToSet(proc_list')
          BY <2>1, <5>2 DEF RInv, TypeOK
        <5>4. PICK x : x = current'
          OBVIOUS
        <5>5. IF Ahead(proc_list, p, x)
              THEN Ahead(proc_list, p, q) /\ ~Ahead(proc_list, x, q)
              ELSE Ahead(proc_list, p, q) \/ ~Ahead(proc_list, x, q)
          BY <4>1, <5>2, <5>4, PassedStays
        <5>6. QED
          BY <2>1, <3>1, <3>2, <4>1, <5>2, <5>3, <5>4, <5>5 DEF SameOrder, Passed
      <4>4. QED
        BY <2>1, <4>2, <4>3
    <3>5. QED
      BY <3>1, <3>3, <3>4
  <2>6. QED
    BY <2>4, <2>5 DEF Turns
<1>3. QED
  BY <1>1, <1>2

(* The invariant of the history.                                           *)
THEOREM TurnsInvariant == TSpec => [](RInv /\ Turns)
<1>1. TInit => RInv /\ Turns
  BY RInvInit DEF TInit, Turns
<1>2. RInv /\ Turns /\ [TNext]_allvars => (RInv /\ Turns)'
  BY RInvStep, TurnsStep DEF TNext, allvars
<1>3. QED
  BY <1>1, <1>2, PTL DEF TSpec

(* While a process waits for the processor nobody gets it twice: the walk  *)
(* of schedule() through proc_list is fair, although processes join the    *)
(* list in front and leave it anywhere while it goes on.                   *)
THEOREM WalkIsFair == TSpec => NobodyTwice
<1>1. ASSUME RInv, Turns, [TNext]_allvars
      PROVE  [current' # current =>
                \A p \in Proc \ {current'} :
                  state[p] = "RUNNABLE" /\ state'[p] = "RUNNABLE" => current' \notin ran[p]]_allvars
  <2> SUFFICES ASSUME TNext, current' # current, NEW p \in Proc \ {current'},
                      state[p] = "RUNNABLE", state'[p] = "RUNNABLE", current' \in ran[p]
               PROVE  FALSE
    BY <1>1
  <2>1. /\ p # current /\ current # idleproc /\ current' \in Proc
        /\ current' \in ToSet(proc_list) /\ p \in ToSet(proc_list)
    BY <1>1 DEF Turns, RInv, TypeOK
  <2>2. PICK x : x = current'
    OBVIOUS
  <2>3. Passed(p, x) /\ x \in ToSet(proc_list)
    BY <1>1, <2>2 DEF Turns
  <2>4. Schedules
    BY <1>1, StepOrder DEF TNext
  <2>5. PICK st : st = state' /\ Schedule(st)
    BY <2>4 DEF Schedules
  <2>6. Sooner(x, p)
    BY <1>1, <2>1, <2>2, <2>5, Numbers, SchedulePicks
  <2>7. QED
    BY <1>1, <2>1, <2>3, <2>6, SoonerNotPassed
<1>2. QED
  BY <1>1, TurnsInvariant, PTL DEF TSpec, NobodyTwice
=============================================================================
