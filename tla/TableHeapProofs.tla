---------------------------- MODULE TableHeapProofs ----------------------------
(***************************************************************************)
(* Theorems about the links between processes and about the heap that they *)
(* are allocated from.  ProcTable, for every MAX_PID and MAX_PROCESS and   *)
(* every hash function: no two processes have one pid, find_proc finds     *)
(* each, and the pointers between processes say who whose child is.  Then  *)
(* kmalloc.c as a part of KernelParts, for all sizes of units, pages and   *)
(* descriptors, all memory and all sizes of blocks.                        *)
(***************************************************************************)
EXTENDS KernelParts, ProcTable, SequenceLemmas

(* What get_pid needs to be right: its window of pids that are not in use. *)
IInv == TypeOK /\ PidsUnique /\ Window

(* The invariant holds when the kernel starts.                             *)
LEMMA InitInv == Init => IInv
  BY PidAssumption DEF Init, IInv, TypeOK, PidsUnique, Window, Passed, Used

(* Every step of get_pid, do_fork and do_wait keeps it.                    *)
LEMMA NextInv == IInv /\ [Next]_vars => IInv'
<1> SUFFICES ASSUME IInv, [Next]_vars PROVE IInv'
  OBVIOUS
<1> USE PidAssumption DEF IInv, Rescan
<1>1. ASSUME UNCHANGED vars PROVE IInv'
  BY <1>1 DEF vars, TypeOK, PidsUnique, Window, Passed, Used
<1>2. CASE Call
  BY <1>2 DEF Call, TypeOK, PidsUnique, Window, Passed, Used, nr_process
<1>3. CASE Scan
  <2>0. /\ pc = "scan" /\ le \in 1 .. Len(proc_list) /\ le \in DOMAIN proc_list
        /\ proc_list[le] \in 1 .. MAX_PID - 1 /\ proc_list' = proc_list
    BY <1>3 DEF Scan, TypeOK
  <2>1. CASE Collision
    <3>1. CASE last_pid + 1 >= next_safe
      <4>1. /\ last_pid' \in 1 .. MAX_PID - 1 /\ next_safe' = MAX_PID
            /\ le' = 1 /\ pc' = "scan"
        BY <2>0, <2>1, <3>1 DEF Collision, TypeOK
      <4>2. TypeOK'
        BY <2>0, <4>1 DEF TypeOK
      <4>3. PidsUnique'
        BY <2>0, <4>1 DEF PidsUnique
      <4>4. Passed' = {}
        BY <2>0, <4>1 DEF Passed, TypeOK
      <4> QED  BY <4>2, <4>3, <4>4 DEF Window
    <3>2. CASE ~(last_pid + 1 >= next_safe)
      <4>1. /\ last_pid' = last_pid + 1 /\ le' = le + 1 /\ pc' = "scan"
            /\ next_safe' = next_safe /\ last_pid + 1 < next_safe
            /\ proc_list[le] = last_pid
        BY <2>0, <2>1, <3>2 DEF Collision, TypeOK
      <4>2. TypeOK'
        BY <2>0, <4>1 DEF TypeOK
      <4>3. PidsUnique'
        BY <2>0, <4>1 DEF PidsUnique
      <4>4. Window'
        BY <2>0, <4>1 DEF Window, Passed, TypeOK
      <4> QED  BY <4>2, <4>3, <4>4
    <3> QED  BY <3>1, <3>2
  <2>2. CASE Bound
    BY <2>0, <2>2 DEF Bound, TypeOK, PidsUnique, Window, Passed
  <2> QED  BY <1>3, <2>1, <2>2 DEF Scan
<1>4. CASE Return
  BY <1>4 DEF Return, TypeOK, PidsUnique, Window, Passed, Used
<1>5. CASE Link
  <2>1. /\ proc_list \in Seq(1 .. MAX_PID - 1) /\ last_pid \in 1 .. MAX_PID - 1
        /\ proc_list' = <<last_pid>> \o proc_list /\ pc = "link" /\ pc' = "out"
        /\ UNCHANGED <<last_pid, next_safe, le>>
    BY <1>5 DEF Link, TypeOK
  <2>2. /\ proc_list' \in Seq(1 .. MAX_PID - 1) /\ Len(proc_list') = Len(proc_list) + 1
        /\ proc_list'[1] = last_pid
        /\ \A j \in 2 .. Len(proc_list') : proc_list'[j] = proc_list[j - 1]
    BY <2>1, PrependProperties
  <2>3. \A j \in 1 .. Len(proc_list) : proc_list[j] # last_pid
    BY <2>1 DEF PidsUnique, Used
  <2>4. TypeOK'
    BY <2>1, <2>2 DEF TypeOK
  <2>5. DOMAIN proc_list' = 1 .. Len(proc_list) + 1 /\ DOMAIN proc_list = 1 .. Len(proc_list)
    BY <2>1, <2>2
  <2>6. PidsUnique'
    <3>1. ASSUME NEW j \in 1 .. Len(proc_list) + 1, NEW k \in 1 .. Len(proc_list) + 1,
                 proc_list'[j] = proc_list'[k]
          PROVE  j = k
      <4>1. \A n \in 2 .. Len(proc_list) + 1 :
              n - 1 \in 1 .. Len(proc_list) /\ proc_list'[n] = proc_list[n - 1]
        BY <2>2
      <4>2. \A m, n \in 1 .. Len(proc_list) : proc_list[m] = proc_list[n] => m = n
        BY <2>5 DEF PidsUnique
      <4>3. Len(proc_list) \in Nat
        BY <2>1
      <4>4. (j = 1 \/ j \in 2 .. Len(proc_list) + 1) /\ (k = 1 \/ k \in 2 .. Len(proc_list) + 1)
        BY <4>3
      <4>5. CASE j = 1 \/ k = 1
        BY <3>1, <4>1, <4>4, <4>5, <2>2, <2>3
      <4>6. CASE j \in 2 .. Len(proc_list) + 1 /\ k \in 2 .. Len(proc_list) + 1
        <5>1. j - 1 = k - 1
          BY <3>1, <4>1, <4>2, <4>6
        <5> QED  BY <5>1, <4>3, <4>6
      <4> QED  BY <4>4, <4>5, <4>6
    <3> QED  BY <3>1, <2>1, <2>5 DEF PidsUnique
  <2>7. Window'
    BY <2>1, <2>2, <2>5 DEF Window, Passed, TypeOK
  <2> QED  BY <2>4, <2>6, <2>7
<1>6. ASSUME NEW i \in DOMAIN proc_list, Unlink(i) PROVE IInv'
  <2>1. /\ proc_list \in Seq(1 .. MAX_PID - 1) /\ i \in 1 .. Len(proc_list)
        /\ proc_list' = RemoveAt(proc_list, i)
        /\ pc = "out" /\ UNCHANGED <<last_pid, next_safe, le, pc>>
    BY <1>6 DEF Unlink, TypeOK
  <2>2. /\ proc_list' \in Seq(1 .. MAX_PID - 1) /\ Len(proc_list') = Len(proc_list) - 1
        /\ \A j \in 1 .. Len(proc_list) - 1 :
             proc_list'[j] = proc_list[IF j < i THEN j ELSE j + 1]
    BY <2>1, RemoveAtProperties
  <2>3. TypeOK'
    BY <2>1, <2>2 DEF TypeOK
  <2>4. Len(proc_list) \in Nat /\ i \in Nat /\ DOMAIN proc_list = 1 .. Len(proc_list)
    BY <2>1
  <2>5. DOMAIN proc_list' = 1 .. Len(proc_list) - 1
    BY <2>2
  <2>6. ASSUME NEW j \in 1 .. Len(proc_list) - 1
        PROVE  /\ (IF j < i THEN j ELSE j + 1) \in 1 .. Len(proc_list)
               /\ proc_list'[j] = proc_list[IF j < i THEN j ELSE j + 1]
    BY <2>2, <2>4
  <2>7. PidsUnique'
    <3>1. ASSUME NEW j \in 1 .. Len(proc_list) - 1, NEW k \in 1 .. Len(proc_list) - 1,
                 proc_list'[j] = proc_list'[k]
          PROVE  j = k
      <4>1. (IF j < i THEN j ELSE j + 1) = (IF k < i THEN k ELSE k + 1)
        BY <3>1, <2>4, <2>6 DEF PidsUnique
      <4> QED  BY <4>1, <2>4
    <3> QED  BY <3>1, <2>1, <2>5 DEF PidsUnique
  <2>8. Window'
    <3>1. ASSUME NEW j \in 1 .. Len(proc_list) - 1
          PROVE  ~ (last_pid < proc_list'[j] /\ proc_list'[j] < next_safe)
      BY <2>1, <2>4, <2>6 DEF Window, Passed
    <3> QED  BY <3>1, <2>1, <2>5 DEF Window, Passed
  <2> QED  BY <2>3, <2>7, <2>8
<1> QED  BY <1>1, <1>2, <1>3, <1>4, <1>5, <1>6 DEF Next

-----------------------------------------------------------------------------
(* Each process is in the hash list of its pid once, and nobody else is.   *)
HashExact ==
  /\ hash_list \in [Buckets -> Seq(Pid)]
  /\ \A b \in Buckets :
       /\ Distinct(hash_list[b])
       /\ ToSet(hash_list[b]) = {p \in Used : pid_hashfn(p) = b}

TableInv == IInv /\ HashExact

(* The pids in use, which get_pid sees on its scan, are those of the list. *)
LEMMA UsedIsToSet == Used = ToSet(proc_list)
  BY DEF Used, ToSet

(* Every pid has a hash list.                                              *)
LEMMA Hashed ==
  ASSUME NEW p \in 1 .. MAX_PID - 1
  PROVE  pid_hashfn(p) \in Buckets
  BY HashAssumption DEF pid_hashfn

(* The pids of proc_list, as a list without duplicates.                    *)
LEMMA ListOfPids ==
  ASSUME IInv
  PROVE  proc_list \in Seq(1 .. MAX_PID - 1) /\ Distinct(proc_list) /\ Used \subseteq 1 .. MAX_PID - 1
  BY PidAssumption, LenProperties DEF IInv, TypeOK, PidsUnique, Distinct, Used

(* hash_proc.                                                              *)
LEMMA ForkKeepsHash ==
  ASSUME TableInv, NEW q \in Pid, DoFork(q)
  PROVE  HashExact'
<1> DEFINE h == pid_hashfn(last_pid)
<1>1. last_pid \in 1 .. MAX_PID - 1 /\ last_pid \in Pid /\ last_pid \notin Used
  BY PidAssumption DEF TableInv, IInv, TypeOK, PidsUnique, DoFork, Link, Pid
<1>2. proc_list \in Seq(1 .. MAX_PID - 1) /\ Distinct(proc_list)
  BY ListOfPids DEF TableInv
<1>3. Used' = Used \cup {last_pid}
  <2>1. ToSet(<<last_pid>> \o proc_list) = ToSet(proc_list) \cup {last_pid}
    <3> DEFINE P == 1 .. MAX_PID - 1
    <3>1. last_pid \notin ToSet(proc_list)
      BY <1>1, UsedIsToSet
    <3>2. proc_list \in Seq(P) /\ last_pid \in P
      BY <1>1, <1>2
    <3> HIDE DEF P
    <3>3. QED
      BY <1>2, <3>1, <3>2, ToSetPrepend
  <2>2. QED
    BY <2>1, UsedIsToSet DEF DoFork, Link, Used, ToSet
<1>4. h \in Buckets /\ hash_list[h] \in Seq(Pid) /\ Distinct(hash_list[h]) /\ last_pid \notin ToSet(hash_list[h])
  BY <1>1, Hashed DEF TableInv, HashExact
<1>5. /\ <<last_pid>> \o hash_list[h] \in Seq(Pid) /\ Distinct(<<last_pid>> \o hash_list[h])
      /\ ToSet(<<last_pid>> \o hash_list[h]) = ToSet(hash_list[h]) \cup {last_pid}
  BY <1>1, <1>4, ToSetPrepend, PrependProperties
<1> HIDE DEF h
<1>6. hash_list' = [hash_list EXCEPT ![h] = <<last_pid>> \o @]
  BY DEF DoFork, h
<1>7. hash_list' \in [Buckets -> Seq(Pid)]
  BY <1>4, <1>5, <1>6 DEF TableInv, HashExact
<1>8. ASSUME NEW b \in Buckets
      PROVE  /\ Distinct(hash_list'[b])
             /\ ToSet(hash_list'[b]) = {p \in Used' : pid_hashfn(p) = b}
  <2>1. /\ Distinct(hash_list[b])
        /\ ToSet(hash_list[b]) = {p \in Used : pid_hashfn(p) = b}
        /\ hash_list'[b] = IF b = h THEN <<last_pid>> \o hash_list[h] ELSE hash_list[b]
    BY <1>6 DEF TableInv, HashExact
  <2>2. QED
    BY <1>3, <1>5, <2>1 DEF h
<1>9. QED
  BY <1>7, <1>8 DEF HashExact

(* unhash_proc.                                                            *)
LEMMA WaitKeepsHash ==
  ASSUME TableInv, NEW i \in DOMAIN proc_list, DoWait(i)
  PROVE  HashExact'
<1> DEFINE c == proc_list[i]
           h == pid_hashfn(c)
<1>1. /\ proc_list \in Seq(1 .. MAX_PID - 1) /\ Distinct(proc_list) /\ i \in 1 .. Len(proc_list)
      /\ c \in Used /\ c \in 1 .. MAX_PID - 1
  BY ListOfPids DEF TableInv, Used
<1>2. Used' = Used \ {c}
  <2>1. ToSet(RemoveAt(proc_list, i)) = ToSet(proc_list) \ {c}
    BY <1>1, ToSetRemoveAt
  <2>2. QED
    BY <2>1, UsedIsToSet DEF DoWait, Unlink, Used, ToSet
<1>3. h \in Buckets /\ hash_list[h] \in Seq(Pid) /\ Distinct(hash_list[h]) /\ c \in ToSet(hash_list[h])
  BY <1>1, Hashed DEF TableInv, HashExact
<1>4. /\ RemoveFirst(hash_list[h], c) \in Seq(Pid) /\ Distinct(RemoveFirst(hash_list[h], c))
      /\ ToSet(RemoveFirst(hash_list[h], c)) = ToSet(hash_list[h]) \ {c}
  <2>1. PICK k \in 1 .. Len(hash_list[h]) :
          hash_list[h][k] = c /\ RemoveFirst(hash_list[h], c) = RemoveAt(hash_list[h], k)
    BY <1>3, RemoveFirstProperties
  <2>2. QED
    BY <1>3, <2>1, ToSetRemoveAt, RemoveAtProperties
<1>5. hash_list' = [hash_list EXCEPT ![h] = RemoveFirst(hash_list[h], c)]
  BY DEF DoWait
<1> HIDE DEF h, c
<1>6. hash_list' \in [Buckets -> Seq(Pid)]
  BY <1>3, <1>4, <1>5 DEF TableInv, HashExact
<1>7. ASSUME NEW b \in Buckets
      PROVE  /\ Distinct(hash_list'[b])
             /\ ToSet(hash_list'[b]) = {p \in Used' : pid_hashfn(p) = b}
  <2>1. /\ Distinct(hash_list[b])
        /\ ToSet(hash_list[b]) = {p \in Used : pid_hashfn(p) = b}
        /\ hash_list'[b] = IF b = h THEN RemoveFirst(hash_list[h], c) ELSE hash_list[b]
    BY <1>5 DEF TableInv, HashExact
  <2>2. QED
    BY <1>2, <1>4, <2>1 DEF h
<1>8. QED
  BY <1>6, <1>7 DEF HashExact

(* The invariant of the table, at the start and over every step.           *)
LEMMA TableInvStep == TableInv /\ [TableNext]_<<vars, table>> => TableInv'
<1> SUFFICES ASSUME TableInv, [TableNext]_<<vars, table>>
             PROVE  TableInv'
  OBVIOUS
<1>1. [Next]_vars
  BY DEF TableNext, DoFork, DoExit, GiveUpChild, Exited, DoWait, Next
<1>2. IInv'
  BY <1>1, NextInv DEF TableInv
<1>3. ASSUME UNCHANGED <<hash_list, proc_list>>
      PROVE  HashExact'
  BY <1>3 DEF TableInv, HashExact, Used
<1>4. HashExact'
  <2>1. CASE ((Call /\ exiting = NULL) \/ Scan \/ Return) /\ UNCHANGED table
    BY <1>3, <2>1 DEF Call, Scan, Return, table
  <2>2. CASE GiveUpChild \/ Exited \/ \E q \in Pid : DoExit(q)
    BY <1>3, <2>2 DEF DoExit, GiveUpChild, Exited, vars
  <2>3. CASE UNCHANGED <<vars, table>>
    BY <1>3, <2>3 DEF vars, table
  <2>4. QED
    BY <2>1, <2>2, <2>3, ForkKeepsHash, WaitKeepsHash DEF TableNext
<1>5. QED
  BY <1>2, <1>4 DEF TableInv

(* The inductive invariant holds throughout.                               *)
THEOREM TableInvariant == TableSpec => []TableInv
<1>1. TableInit => TableInv
  <2> SUFFICES ASSUME TableInit
               PROVE  TableInv
    OBVIOUS
  <2>1. IInv
    BY InitInv DEF TableInit
  <2>2. Used = {}
    BY DEF TableInit, Init, Used
  <2>3. << >> \in Seq(Pid) /\ ToSet(<< >>) = {} /\ Distinct(<< >>)
    BY EmptySeq DEF ToSet, Distinct
  <2>4. QED
    BY <2>1, <2>2, <2>3 DEF TableInit, TableInv, HashExact
<1>2. QED
  BY <1>1, TableInvStep, PTL DEF TableSpec

(* The types of get_pid's variables: no pid reaches MAX_PID.               *)
THEOREM TypeCorrect == TableSpec => []TypeOK
<1>1. TableInv => TypeOK
  BY DEF TableInv, IInv
<1> QED  BY <1>1, TableInvariant, PTL

(* Pids are unique, and get_pid returns only a free one, while processes   *)
(* fork, exit and are waited for.                                          *)
THEOREM PidsAreUnique == TableSpec => []PidsUnique
<1>1. TableInv => PidsUnique
  BY DEF TableInv, IInv
<1> QED  BY <1>1, TableInvariant, PTL

(* What get_pid remembers between two calls stays true: no pid between     *)
(* last_pid and next_safe is in use.                                       *)
THEOREM WindowIsFree == TableSpec => []Window
<1>1. TableInv => Window
  BY DEF TableInv, IInv
<1> QED  BY <1>1, TableInvariant, PTL

(* find_proc finds every process by its pid and nothing under a pid that   *)
(* is not in use, whatever pids share a hash list.                         *)
THEOREM EveryPidFound == TableSpec => []FindsExactly
<1>1. TableInv => FindsExactly
  <2> SUFFICES ASSUME TableInv, NEW p \in Pid \ {0}
               PROVE  FindProc(p) = IF p \in Used THEN p ELSE NULL
    BY DEF FindsExactly
  <2>1. p \in 1 .. MAX_PID - 1
    BY PidAssumption DEF Pid
  <2>2. pid_hashfn(p) \in Buckets
    BY <2>1, Hashed
  <2>3. p \in ToSet(hash_list[pid_hashfn(p)]) <=> p \in Used
    BY <2>2 DEF TableInv, HashExact
  <2>4. QED
    BY <2>3 DEF FindProc
<1> QED  BY <1>1, TableInvariant, PTL

-----------------------------------------------------------------------------
(* The pointers C, O, Y (cptr, optr, yptr) make s the list of children of  *)
(* p; x is the process in the loop of do_exit.                             *)
Row(C, O, Y, p, s, x) ==
  /\ C[p] = IF s = << >> THEN NULL ELSE s[1]
  /\ \A i \in 1 .. Len(s) : O[s[i]] = IF i = Len(s) THEN NULL ELSE s[i + 1]
  /\ \A i \in 1 .. Len(s) : Y[s[i]] = (IF i = 1 THEN NULL ELSE s[i - 1]) \/ (i = 1 /\ p = x)

(* A list whose pointers nobody changes.                                   *)
LEMMA RowSame ==
  ASSUME NEW s \in Seq(Pid), NEW p, NEW x, NEW x2, p = x => p = x2,
         NEW C, NEW O, NEW Y, NEW C2, NEW O2, NEW Y2, Row(C, O, Y, p, s, x),
         C2[p] = C[p], \A c \in ToSet(s) : O2[c] = O[c] /\ Y2[c] = Y[c]
  PROVE  Row(C2, O2, Y2, p, s, x2)
<1>1. \A i \in 1 .. Len(s) : s[i] \in ToSet(s)
  BY LenProperties DEF ToSet
<1>2. QED
  BY <1>1 DEF Row

(* set_links, and the adoption by initproc.                                *)
LEMMA RowPrepend ==
  ASSUME NEW s \in Seq(Pid), NEW p, NEW x, p # x, NEW e \in Pid, Distinct(s),
         NEW C, NEW O, NEW Y, NEW C2, NEW O2, NEW Y2, Row(C, O, Y, p, s, x),
         C2[p] = e, O2[e] = C[p], Y2[e] = NULL,
         \A c \in ToSet(s) : O2[c] = O[c] /\ Y2[c] = IF c = C[p] THEN e ELSE Y[c]
  PROVE  Row(C2, O2, Y2, p, <<e>> \o s, x)
<1> DEFINE t == <<e>> \o s
           n == Len(s)
<1>1. n \in Nat /\ DOMAIN s = 1 .. n /\ (s = << >> <=> n = 0)
  BY LenProperties, EmptySeq
<1>2. Len(t) = n + 1 /\ t[1] = e /\ \A i \in 2 .. n + 1 : t[i] = s[i - 1]
  BY PrependProperties
<1>3. \A i \in 1 .. n : s[i] \in ToSet(s)
  BY <1>1 DEF ToSet
<1>4. C[p] = IF n = 0 THEN NULL ELSE s[1]
  BY <1>1 DEF Row
<1>5. t # << >>
  <2>1. t \in Seq(Pid)
    BY PrependProperties
  <2>2. QED
    BY <1>1, <1>2, <2>1, EmptySeq
<1>6. \A i \in 1 .. n : O[s[i]] = IF i = n THEN NULL ELSE s[i + 1]
  BY DEF Row
<1>7. \A i \in 1 .. n : Y[s[i]] = IF i = 1 THEN NULL ELSE s[i - 1]
  BY DEF Row
<1>8. \A i, j \in 1 .. n : s[i] = s[j] => i = j
  BY <1>1 DEF Distinct
<1> HIDE DEF t, n
<1>9. ASSUME NEW i \in 1 .. n + 1
      PROVE  O2[t[i]] = IF i = n + 1 THEN NULL ELSE t[i + 1]
  <2>1. CASE i = 1
    BY <1>1, <1>2, <1>4, <2>1
  <2>2. CASE i # 1
    <3>1. i \in 2 .. n + 1 /\ i - 1 \in 1 .. n /\ t[i] = s[i - 1]
      BY <1>1, <1>2, <2>2
    <3>2. O2[t[i]] = IF i - 1 = n THEN NULL ELSE s[i - 1 + 1]
      BY <1>3, <1>6, <3>1
    <3>3. i # n + 1 => i + 1 \in 2 .. n + 1 /\ t[i + 1] = s[i]
      BY <1>1, <1>2, <3>1
    <3>4. QED
      BY <1>1, <3>1, <3>2, <3>3
  <2>3. QED
    BY <2>1, <2>2
<1>10. ASSUME NEW i \in 1 .. n + 1
       PROVE  Y2[t[i]] = IF i = 1 THEN NULL ELSE t[i - 1]
  <2>1. CASE i = 1
    BY <1>2, <2>1
  <2>2. CASE i # 1
    <3>1. i \in 2 .. n + 1 /\ i - 1 \in 1 .. n /\ t[i] = s[i - 1] /\ 1 \in 1 .. n
      BY <1>1, <1>2, <2>2
    <3>2. Y2[t[i]] = IF s[i - 1] = s[1] THEN e ELSE Y[s[i - 1]]
      BY <1>1, <1>3, <1>4, <3>1
    <3>3. CASE i = 2
      BY <1>2, <3>2, <3>3
    <3>4. CASE i # 2
      <4>1. i - 1 # 1 /\ i - 1 \in 2 .. n + 1 /\ t[i - 1] = s[i - 1 - 1]
        BY <1>1, <1>2, <3>1, <3>4
      <4>2. s[i - 1] # s[1]
        BY <1>8, <3>1, <4>1
      <4>3. QED
        BY <1>7, <2>2, <3>1, <3>2, <4>1, <4>2
    <3>5. QED
      BY <3>3, <3>4
  <2>3. QED
    BY <2>1, <2>2
<1>11. t # << >> /\ C2[p] = t[1]
  BY <1>2, <1>5
<1>12. /\ \A i \in 1 .. Len(t) : O2[t[i]] = IF i = Len(t) THEN NULL ELSE t[i + 1]
       /\ \A i \in 1 .. Len(t) : Y2[t[i]] = IF i = 1 THEN NULL ELSE t[i - 1]
  BY <1>2, <1>9, <1>10
<1>13. Row(C2, O2, Y2, p, t, x)
  BY <1>11, <1>12 DEF Row
<1>14. QED
  BY <1>13 DEF t

(* The first child is given up in the loop of do_exit.                     *)
LEMMA RowTail ==
  ASSUME NEW s \in Seq(Pid), s # << >>, NEW x, Distinct(s),
         NEW C, NEW O, NEW Y, NEW C2, NEW O2, NEW Y2, Row(C, O, Y, x, s, x),
         C2[x] = O[s[1]], \A c \in ToSet(s) \ {s[1]} : O2[c] = O[c] /\ Y2[c] = Y[c]
  PROVE  Row(C2, O2, Y2, x, Tail(s), x)
<1> DEFINE t == Tail(s)
           n == Len(s)
<1>1. n \in Nat \ {0} /\ DOMAIN s = 1 .. n
  BY LenProperties, EmptySeq
<1>2. t \in Seq(Pid) /\ Len(t) = n - 1 /\ \A i \in 1 .. n - 1 : t[i] = s[i + 1]
  BY HeadTailProperties
<1>3. t = << >> <=> n = 1
  <2> HIDE DEF t, n
  <2>1. t = << >> <=> Len(t) = 0
    BY <1>2, EmptySeq
  <2>2. QED
    BY <1>1, <1>2, <2>1
<1>4. \A i \in 1 .. n : s[i] \in ToSet(s)
  BY <1>1 DEF ToSet
<1>5. \A i \in 1 .. n : O[s[i]] = IF i = n THEN NULL ELSE s[i + 1]
  BY DEF Row
<1>6. \A i \in 1 .. n : i # 1 => Y[s[i]] = s[i - 1]
  BY DEF Row
<1>7. \A i \in 1 .. n : s[i] = s[1] => i = 1
  BY <1>1 DEF Distinct
<1> HIDE DEF t, n
<1>8. C2[x] = IF t = << >> THEN NULL ELSE t[1]
  BY <1>1, <1>2, <1>3, <1>5
<1>9. ASSUME NEW i \in 1 .. n - 1
      PROVE  /\ O2[t[i]] = IF i = n - 1 THEN NULL ELSE t[i + 1]
             /\ i # 1 => Y2[t[i]] = t[i - 1]
  <2>1. i + 1 \in 1 .. n /\ i + 1 # 1 /\ t[i] = s[i + 1]
    BY <1>1, <1>2
  <2>2. O2[t[i]] = O[s[i + 1]] /\ Y2[t[i]] = Y[s[i + 1]]
    BY <1>4, <1>7, <2>1
  <2>3. i # n - 1 => i + 1 \in 1 .. n - 1 /\ t[i + 1] = s[i + 1 + 1]
    BY <1>1, <1>2
  <2>4. O2[t[i]] = IF i + 1 = n THEN NULL ELSE s[i + 1 + 1]
    BY <1>5, <2>1, <2>2
  <2>5. i # 1 => i - 1 \in 1 .. n - 1 /\ t[i - 1] = s[i - 1 + 1]
    BY <1>1, <1>2
  <2>6. Y2[t[i]] = s[i + 1 - 1] /\ i + 1 - 1 = i /\ i - 1 + 1 = i
    BY <1>1, <1>6, <2>1, <2>2
  <2>7. i + 1 = n <=> i = n - 1
    BY <1>1
  <2>8. QED
    BY <2>3, <2>4, <2>5, <2>6, <2>7
<1>10. QED
  BY <1>2, <1>8, <1>9 DEF Row, t

(* remove_links.                                                           *)
LEMMA RowRemove ==
  ASSUME NEW s \in Seq(Pid), NEW i \in 1 .. Len(s), NEW p, NEW x, p # x, Distinct(s),
         NEW C, NEW O, NEW Y, NEW C2, NEW O2, NEW Y2, Row(C, O, Y, p, s, x),
         C2[p] = IF Y[s[i]] = NULL THEN O[s[i]] ELSE C[p],
         \A c \in ToSet(s) \ {s[i]} : /\ O2[c] = IF c = Y[s[i]] THEN O[s[i]] ELSE O[c]
                                      /\ Y2[c] = IF c = O[s[i]] THEN Y[s[i]] ELSE Y[c]
  PROVE  Row(C2, O2, Y2, p, RemoveAt(s, i), x)
<1> DEFINE t == RemoveAt(s, i)
           n == Len(s)
<1>1. n \in Nat \ {0} /\ DOMAIN s = 1 .. n /\ i \in 1 .. n
  BY LenProperties
<1>2. t \in Seq(Pid) /\ Len(t) = n - 1 /\ \A j \in 1 .. n - 1 : t[j] = s[IF j < i THEN j ELSE j + 1]
  BY RemoveAtProperties
<1>3. t = << >> <=> n = 1
  BY <1>1, <1>2, EmptySeq
<1>4. \A j \in 1 .. n : s[j] \in ToSet(s) /\ s[j] \in Pid /\ s[j] # NULL
  <2>1. \A j \in 1 .. n : s[j] \in Pid
    BY ElementOfSeq
  <2>2. NULL \notin Pid
    BY DEF Pid, NULL
  <2>3. QED
    BY <1>1, <2>1, <2>2 DEF ToSet
<1>5. \A j \in 1 .. n : O[s[j]] = IF j = n THEN NULL ELSE s[j + 1]
  BY DEF Row
<1>6. \A j \in 1 .. n : Y[s[j]] = IF j = 1 THEN NULL ELSE s[j - 1]
  BY DEF Row
<1>7. \A j, k \in 1 .. n : s[j] = s[k] => j = k
  BY <1>1 DEF Distinct
<1>8. s # << >> /\ C[p] = s[1]
  BY <1>1, EmptySeq DEF Row
<1> HIDE DEF t, n
<1>9. C2[p] = IF t = << >> THEN NULL ELSE t[1]
  <2>1. CASE i = 1
    BY <1>1, <1>2, <1>3, <1>5, <1>6, <2>1
  <2>2. CASE i # 1
    <3>1. i - 1 \in 1 .. n /\ 1 \in 1 .. n - 1 /\ 1 < i /\ n # 1
      BY <1>1, <2>2
    <3>2. Y[s[i]] # NULL
      BY <1>1, <1>4, <1>6, <2>2, <3>1
    <3>3. QED
      BY <1>2, <1>3, <1>8, <3>1, <3>2
  <2>3. QED
    BY <2>1, <2>2
<1>10. ASSUME NEW j \in 1 .. n - 1
       PROVE  /\ O2[t[j]] = IF j = n - 1 THEN NULL ELSE t[j + 1]
              /\ Y2[t[j]] = IF j = 1 THEN NULL ELSE t[j - 1]
  <2> DEFINE k == IF j < i THEN j ELSE j + 1
  <2>1. k \in 1 .. n /\ k # i /\ t[j] = s[k] /\ j \in Int /\ i \in Int /\ n \in Int
    BY <1>1, <1>2
  <2>2. /\ O2[t[j]] = IF s[k] = Y[s[i]] THEN O[s[i]] ELSE O[s[k]]
        /\ Y2[t[j]] = IF s[k] = O[s[i]] THEN Y[s[i]] ELSE Y[s[k]]
    BY <1>1, <1>4, <1>7, <2>1
  <2>3. s[k] = Y[s[i]] <=> k = i - 1
    <3>1. i # 1 => i - 1 \in 1 .. n
      BY <1>1
    <3>2. CASE i = 1
      BY <1>1, <1>4, <1>6, <2>1, <3>2
    <3>3. CASE i # 1
      BY <1>1, <1>6, <1>7, <2>1, <3>1, <3>3
    <3>4. QED
      BY <3>2, <3>3
  <2>4. s[k] = O[s[i]] <=> k = i + 1
    <3>1. i # n => i + 1 \in 1 .. n
      BY <1>1
    <3>2. CASE i = n
      BY <1>1, <1>4, <1>5, <2>1, <3>2
    <3>3. CASE i # n
      BY <1>1, <1>5, <1>7, <2>1, <3>1, <3>3
    <3>4. QED
      BY <3>2, <3>3
  <2>5. O2[t[j]] = IF j = n - 1 THEN NULL ELSE t[j + 1]
    <3>1. j # n - 1 => j + 1 \in 1 .. n - 1 /\ t[j + 1] = s[IF j + 1 < i THEN j + 1 ELSE j + 1 + 1]
      BY <1>1, <1>2
    <3>2. CASE k = i - 1
      <4>1. j = i - 1 /\ j + 1 = i
        BY <2>1, <3>2
      <4>2. O2[t[j]] = IF i = n THEN NULL ELSE s[i + 1]
        BY <1>1, <1>5, <2>2, <2>3, <3>2
      <4>3. i = n <=> j = n - 1
        BY <2>1, <4>1
      <4>4. j # n - 1 => t[j + 1] = s[i + 1]
        BY <2>1, <3>1, <4>1
      <4>5. QED
        BY <4>2, <4>3, <4>4
    <3>3. CASE k # i - 1
      <4>1. O2[t[j]] = IF k = n THEN NULL ELSE s[k + 1]
        BY <1>5, <2>1, <2>2, <2>3, <3>3
      <4>2. k = n <=> j = n - 1
        BY <2>1, <1>1, <3>3
      <4>3. j # n - 1 => t[j + 1] = s[k + 1]
        BY <2>1, <3>1, <3>3
      <4>4. QED
        BY <4>1, <4>2, <4>3
    <3>4. QED
      BY <3>2, <3>3
  <2>6. Y2[t[j]] = IF j = 1 THEN NULL ELSE t[j - 1]
    <3>1. j # 1 => j - 1 \in 1 .. n - 1 /\ t[j - 1] = s[IF j - 1 < i THEN j - 1 ELSE j - 1 + 1]
      BY <1>1, <1>2
    <3>2. CASE k = i + 1
      <4>1. j = i
        BY <2>1, <3>2
      <4>2. Y2[t[j]] = IF i = 1 THEN NULL ELSE s[i - 1]
        BY <1>1, <1>6, <2>2, <2>4, <3>2
      <4>3. j # 1 => t[j - 1] = s[i - 1]
        BY <2>1, <3>1, <4>1
      <4>4. QED
        BY <4>1, <4>2, <4>3
    <3>3. CASE k # i + 1
      <4>1. Y2[t[j]] = IF k = 1 THEN NULL ELSE s[k - 1]
        BY <1>6, <2>1, <2>2, <2>4, <3>3
      <4>2. k = 1 <=> j = 1
        BY <2>1, <1>1, <3>3
      <4>3. j # 1 => t[j - 1] = s[k - 1]
        BY <2>1, <3>1, <3>3
      <4>4. QED
        BY <4>1, <4>2, <4>3
    <3>4. QED
      BY <3>2, <3>3
  <2>7. QED
    BY <2>5, <2>6
<1>11. QED
  BY <1>2, <1>9, <1>10 DEF Row, t

-----------------------------------------------------------------------------
Field == {"cptr", "yptr", "optr"}
Ptr == Pid \cup {NULL}
LinkType == [Field -> [Pid -> Ptr]]

(* Types, and who initproc is: the first process, which stays.             *)
LinkTypes ==
  /\ links \in LinkType /\ parent \in [Pid -> Pid \cup {NULL}] /\ children \in [Pid -> Seq(Pid)]
  /\ \A c \in Used : parent[c] \in Pid
  /\ zombie \subseteq Used /\ initproc \notin zombie
  /\ exiting \in zombie \cup {NULL}
  /\ exiting # NULL => pc = "out"
  /\ IF proc_list = << >> THEN (pc = "out" /\ last_pid = MAX_PID) \/ (pc # "out" /\ last_pid = initproc)
     ELSE proc_list[Len(proc_list)] = initproc

Rows == \A p \in Pid : Row(links["cptr"], links["optr"], links["yptr"], p, children[p], exiting)
Members ==
  \A p \in Pid : /\ Distinct(children[p])
                 /\ \A c \in Pid : c \in ToSet(children[p]) <=> c \in Used /\ parent[c] = p
Living == \A p \in Pid : children[p] # << >> => p \in {idleproc, exiting} \cup (Used \ zombie)

(* The inductive invariant of the table.                                   *)
LinkInv == LinkTypes /\ Rows /\ Members /\ Living

(* The elements of a list of pids.                                         *)
LEMMA ListMembers ==
  ASSUME NEW s \in Seq(Pid)
  PROVE  /\ ToSet(s) \subseteq Pid
         /\ s # << >> => s[1] \in ToSet(s)
         /\ Len(s) \in Nat /\ DOMAIN s = 1 .. Len(s)
<1>1. Len(s) \in Nat /\ DOMAIN s = 1 .. Len(s) /\ (s # << >> => Len(s) # 0)
  BY LenProperties, EmptySeq
<1>2. \A i \in 1 .. Len(s) : s[i] \in Pid
  BY ElementOfSeq
<1>3. QED
  BY <1>1, <1>2 DEF ToSet

(* A list of pids without its first one.                                   *)
LEMMA TailKeeps ==
  ASSUME NEW s \in Seq(Pid), s # << >>, Distinct(s)
  PROVE  Tail(s) \in Seq(Pid) /\ Distinct(Tail(s)) /\ ToSet(Tail(s)) = ToSet(s) \ {s[1]}
<1> DEFINE t == Tail(s)
           n == Len(s)
<1>1. n \in Nat \ {0} /\ DOMAIN s = 1 .. n
  BY LenProperties, EmptySeq
<1>2. t \in Seq(Pid) /\ Len(t) = n - 1 /\ \A i \in 1 .. n - 1 : t[i] = s[i + 1]
  BY HeadTailProperties
<1>3. DOMAIN t = 1 .. n - 1
  BY <1>2, LenProperties
<1>4. \A i, j \in 1 .. n : s[i] = s[j] => i = j
  BY <1>1 DEF Distinct
<1> HIDE DEF t, n
<1>5. \A i \in 1 .. n - 1 : i + 1 \in 1 .. n /\ i + 1 # 1 /\ t[i] = s[i + 1]
  BY <1>1, <1>2
<1>6. \A i \in 1 .. n : i # 1 => i - 1 \in 1 .. n - 1 /\ t[i - 1] = s[i]
  <2>1. SUFFICES ASSUME NEW i \in 1 .. n, i # 1
                 PROVE  i - 1 \in 1 .. n - 1 /\ t[i - 1] = s[i]
    OBVIOUS
  <2>2. i - 1 \in 1 .. n - 1 /\ i - 1 + 1 = i
    BY <1>1, <2>1
  <2>3. QED
    BY <1>5, <2>2
<1>7. Distinct(t)
  <2>1. SUFFICES ASSUME NEW i \in 1 .. n - 1, NEW j \in 1 .. n - 1, t[i] = t[j]
                 PROVE  i = j
    BY <1>3 DEF Distinct
  <2>2. i + 1 = j + 1
    BY <1>4, <1>5, <2>1
  <2>3. QED
    BY <1>1, <2>2
<1>8. \A c : c \in ToSet(t) <=> c \in ToSet(s) /\ c # s[1]
  <2>1. ASSUME NEW c \in ToSet(t)
        PROVE  c \in ToSet(s) /\ c # s[1]
    <3>1. PICK i \in 1 .. n - 1 : c = t[i]
      BY <1>3 DEF ToSet
    <3>2. 1 \in 1 .. n
      BY <1>1
    <3>3. QED
      BY <1>1, <1>4, <1>5, <3>1, <3>2 DEF ToSet
  <2>2. ASSUME NEW c \in ToSet(s), c # s[1]
        PROVE  c \in ToSet(t)
    <3>1. PICK i \in 1 .. n : c = s[i]
      BY <1>1 DEF ToSet
    <3>2. i # 1
      BY <2>2, <3>1
    <3>3. QED
      BY <1>3, <1>6, <3>1, <3>2 DEF ToSet
  <2>3. QED
    BY <2>1, <2>2
<1>9. QED
  BY <1>2, <1>7, <1>8 DEF t

(* It says what LinksExact says.                                           *)
LEMMA LinkInvExact == IInv /\ LinkInv => LinksExact
<1> SUFFICES ASSUME IInv, LinkInv, NEW p \in Pid
             PROVE  LET s == children[p]
                    IN  /\ ToSet(s) = {c \in Used : parent[c] = p}
                        /\ \A i, j \in DOMAIN s : s[i] = s[j] => i = j
                        /\ links["cptr"][p] = IF s = << >> THEN NULL ELSE s[1]
                        /\ \A i \in DOMAIN s : links["optr"][s[i]] = IF i = Len(s) THEN NULL ELSE s[i + 1]
                        /\ \A i \in DOMAIN s :
                             \/ links["yptr"][s[i]] = IF i = 1 THEN NULL ELSE s[i - 1]
                             \/ i = 1 /\ p = exiting
                        /\ s # << >> => p \in {idleproc, exiting} \cup (Used \ zombie)
  BY DEF LinksExact
<1> DEFINE s == children[p]
<1>1. s \in Seq(Pid)
  BY DEF LinkInv, LinkTypes
<1>2. Used \subseteq Pid
  BY ListOfPids, PidAssumption DEF Pid
<1>3. /\ Distinct(s) /\ \A c \in Pid : c \in ToSet(s) <=> c \in Used /\ parent[c] = p
      /\ Row(links["cptr"], links["optr"], links["yptr"], p, s, exiting)
      /\ s # << >> => p \in {idleproc, exiting} \cup (Used \ zombie)
  BY DEF LinkInv, Members, Rows, Living
<1> HIDE DEF s
<1>4. ToSet(s) \subseteq Pid /\ DOMAIN s = 1 .. Len(s)
  BY <1>1, ListMembers
<1>5. ToSet(s) = {c \in Used : parent[c] = p}
  BY <1>2, <1>3, <1>4
<1>6. \A i, j \in DOMAIN s : s[i] = s[j] => i = j
  BY <1>3 DEF Distinct
<1>7. QED
  BY <1>3, <1>4, <1>5, <1>6 DEF Row, s

(* An assignment to a field.                                               *)
LEMMA SetField ==
  ASSUME NEW L \in LinkType, NEW f \in Field, NEW p \in Ptr, NEW x \in Ptr
  PROVE  /\ Set(L, f, p, x) \in LinkType
         /\ \A g \in Field : \A q \in Pid : Set(L, f, p, x)[g][q] = IF g = f /\ q = p THEN x ELSE L[g][q]
<1>1. NULL \notin Pid
  BY DEF Pid, NULL
<1>2. CASE p = NULL
  BY <1>1, <1>2 DEF Set
<1>3. CASE p # NULL
  BY <1>3 DEF Set, LinkType, Ptr
<1>4. QED
  BY <1>2, <1>3

(* set_links.                                                              *)
LEMMA SetLinksFields ==
  ASSUME NEW L \in LinkType, NEW c \in Pid, NEW q \in Pid
  PROVE  /\ SetLinks(L, c, q) \in LinkType
         /\ \A p \in Pid :
              /\ SetLinks(L, c, q)["cptr"][p] = IF p = q THEN c ELSE L["cptr"][p]
              /\ SetLinks(L, c, q)["optr"][p] = IF p = c THEN L["cptr"][q] ELSE L["optr"][p]
              /\ SetLinks(L, c, q)["yptr"][p] =
                   IF p = L["cptr"][q] THEN c ELSE IF p = c THEN NULL ELSE L["yptr"][p]
<1> DEFINE o  == L["cptr"][q]
           L1 == Set(L, "yptr", c, NULL)
           L2 == Set(L1, "optr", c, o)
           L3 == Set(L2, "yptr", o, c)
           L4 == Set(L3, "cptr", q, c)
<1>1. "cptr" \in Field /\ "yptr" \in Field /\ "optr" \in Field
  BY DEF Field
<1>2. o \in Ptr /\ c \in Ptr /\ q \in Ptr /\ NULL \in Ptr
  BY <1>1 DEF LinkType, Ptr
<1>3. SetLinks(L, c, q) = L4
  BY DEF SetLinks
<1> HIDE DEF o
<1>4. L1 \in LinkType /\ \A g \in Field : \A p \in Pid : L1[g][p] = IF g = "yptr" /\ p = c THEN NULL ELSE L[g][p]
  BY <1>1, <1>2, SetField
<1> HIDE DEF L1
<1>5. L2 \in LinkType /\ \A g \in Field : \A p \in Pid : L2[g][p] = IF g = "optr" /\ p = c THEN o ELSE L1[g][p]
  BY <1>1, <1>2, <1>4, SetField
<1> HIDE DEF L2
<1>6. L3 \in LinkType /\ \A g \in Field : \A p \in Pid : L3[g][p] = IF g = "yptr" /\ p = o THEN c ELSE L2[g][p]
  BY <1>1, <1>2, <1>5, SetField
<1> HIDE DEF L3
<1>7. L4 \in LinkType /\ \A g \in Field : \A p \in Pid : L4[g][p] = IF g = "cptr" /\ p = q THEN c ELSE L3[g][p]
  BY <1>1, <1>2, <1>6, SetField
<1> HIDE DEF L4
<1>8. QED
  BY <1>1, <1>3, <1>4, <1>5, <1>6, <1>7 DEF o

(* A round of the loop in do_exit.                                         *)
LEMMA AdoptFields ==
  ASSUME NEW L \in LinkType, NEW q \in Pid, initproc \in Pid, L["cptr"][q] # NULL, q # initproc
  PROVE  LET c == L["cptr"][q]
         IN  /\ Adopt(L, q) \in LinkType
             /\ \A p \in Pid :
                  /\ Adopt(L, q)["cptr"][p] =
                       IF p = initproc THEN c ELSE IF p = q THEN L["optr"][c] ELSE L["cptr"][p]
                  /\ Adopt(L, q)["optr"][p] = IF p = c THEN L["cptr"][initproc] ELSE L["optr"][p]
                  /\ Adopt(L, q)["yptr"][p] =
                       IF p = L["cptr"][initproc] THEN c ELSE IF p = c THEN NULL ELSE L["yptr"][p]
<1> DEFINE c  == L["cptr"][q]
           o  == L["cptr"][initproc]
           n  == L["optr"][c]
           L0 == Set(L, "cptr", q, n)
           L1 == Set(L0, "yptr", c, NULL)
           L2 == Set(L1, "optr", c, o)
           L3 == Set(L2, "yptr", o, c)
           L4 == Set(L3, "cptr", initproc, c)
<1>1. "cptr" \in Field /\ "yptr" \in Field /\ "optr" \in Field
  BY DEF Field
<1>2. c \in Pid /\ c \in Ptr /\ o \in Ptr /\ NULL \in Ptr /\ q \in Ptr /\ initproc \in Ptr
  BY <1>1 DEF LinkType, Ptr
<1> HIDE DEF c
<1>3. n \in Ptr
  BY <1>1, <1>2 DEF LinkType
<1>4. Adopt(L, q) = L4
  BY DEF Adopt, c
<1> HIDE DEF o, n
<1>5. L0 \in LinkType /\ \A g \in Field : \A p \in Pid : L0[g][p] = IF g = "cptr" /\ p = q THEN n ELSE L[g][p]
  BY <1>1, <1>2, <1>3, SetField
<1> HIDE DEF L0
<1>6. L1 \in LinkType /\ \A g \in Field : \A p \in Pid : L1[g][p] = IF g = "yptr" /\ p = c THEN NULL ELSE L0[g][p]
  BY <1>1, <1>2, <1>5, SetField
<1> HIDE DEF L1
<1>7. L2 \in LinkType /\ \A g \in Field : \A p \in Pid : L2[g][p] = IF g = "optr" /\ p = c THEN o ELSE L1[g][p]
  BY <1>1, <1>2, <1>6, SetField
<1> HIDE DEF L2
<1>8. L3 \in LinkType /\ \A g \in Field : \A p \in Pid : L3[g][p] = IF g = "yptr" /\ p = o THEN c ELSE L2[g][p]
  BY <1>1, <1>2, <1>7, SetField
<1> HIDE DEF L3
<1>9. L4 \in LinkType /\ \A g \in Field : \A p \in Pid : L4[g][p] = IF g = "cptr" /\ p = initproc THEN c ELSE L3[g][p]
  BY <1>1, <1>2, <1>8, SetField
<1> HIDE DEF L4
<1>10. QED
  BY <1>1, <1>4, <1>5, <1>6, <1>7, <1>8, <1>9 DEF o, n, c

(* remove_links, for a process whose parent is q.                          *)
LEMMA RemoveLinksFields ==
  ASSUME links \in LinkType, NEW c \in Pid, parent[c] \in Pid
  PROVE  LET o == links["optr"][c]
             y == links["yptr"][c]
         IN  /\ RemoveLinks(links, c) \in LinkType
             /\ \A p \in Pid :
                  /\ RemoveLinks(links, c)["cptr"][p] = IF y = NULL /\ p = parent[c] THEN o ELSE links["cptr"][p]
                  /\ RemoveLinks(links, c)["optr"][p] = IF p = y THEN o ELSE links["optr"][p]
                  /\ RemoveLinks(links, c)["yptr"][p] = IF p = o THEN y ELSE links["yptr"][p]
<1> DEFINE o == links["optr"][c]
           y == links["yptr"][c]
           q == parent[c]
           M == Set(links, "yptr", o, y)
           N == Set(M, "optr", y, o)
           K == Set(M, "cptr", q, o)
<1>1. "cptr" \in Field /\ "yptr" \in Field /\ "optr" \in Field
  BY DEF Field
<1>2. o \in Ptr /\ y \in Ptr /\ q \in Pid /\ q \in Ptr
  BY <1>1 DEF LinkType, Ptr
<1>3. RemoveLinks(links, c) = IF y # NULL THEN N ELSE K
  BY DEF RemoveLinks
<1> HIDE DEF o, y, q
<1>4. M \in LinkType /\ \A g \in Field : \A p \in Pid : M[g][p] = IF g = "yptr" /\ p = o THEN y ELSE links[g][p]
  BY <1>1, <1>2, SetField
<1> HIDE DEF M
<1>5. N \in LinkType /\ \A g \in Field : \A p \in Pid : N[g][p] = IF g = "optr" /\ p = y THEN o ELSE M[g][p]
  BY <1>1, <1>2, <1>4, SetField
<1>6. K \in LinkType /\ \A g \in Field : \A p \in Pid : K[g][p] = IF g = "cptr" /\ p = q THEN o ELSE M[g][p]
  BY <1>1, <1>2, <1>4, SetField
<1> HIDE DEF N, K
<1>7. NULL \notin Pid
  BY DEF Pid, NULL
<1>8. QED
  BY <1>1, <1>2, <1>3, <1>4, <1>5, <1>6, <1>7 DEF o, y, q

(* Everybody's pid is a pid, and NULL is none.                             *)
LEMMA PidFacts ==
  ASSUME IInv
  PROVE  /\ Used \subseteq Pid /\ idleproc \in Pid \ Used /\ initproc \in Pid
         /\ NULL \notin Pid /\ initproc # idleproc
         /\ "cptr" \in Field /\ "yptr" \in Field /\ "optr" \in Field
  BY ListOfPids, PidAssumption DEF Pid, idleproc, initproc, NULL, Field

(* What a child of p is, and what its parent's pointer says.               *)
LEMMA ChildFacts ==
  ASSUME IInv, LinkInv, NEW p \in Pid
  PROVE  /\ children[p] \in Seq(Pid) /\ Distinct(children[p])
         /\ Row(links["cptr"], links["optr"], links["yptr"], p, children[p], exiting)
         /\ \A c \in ToSet(children[p]) : c \in Pid /\ c \in Used /\ parent[c] = p
         /\ links["cptr"][p] # NULL
              => children[p] # << >> /\ links["cptr"][p] = children[p][1] /\ links["cptr"][p] \in ToSet(children[p])
         /\ children[p] # << >> => links["cptr"][p] # NULL
<1>1. /\ children[p] \in Seq(Pid) /\ Distinct(children[p])
      /\ Row(links["cptr"], links["optr"], links["yptr"], p, children[p], exiting)
      /\ \A c \in Pid : c \in ToSet(children[p]) <=> c \in Used /\ parent[c] = p
  BY DEF LinkInv, LinkTypes, Rows, Members
<1>2. ToSet(children[p]) \subseteq Pid /\ (children[p] # << >> => children[p][1] \in ToSet(children[p]))
  BY <1>1, ListMembers
<1>3. links["cptr"][p] = IF children[p] = << >> THEN NULL ELSE children[p][1]
  BY <1>1 DEF Row
<1>4. NULL \notin Pid
  BY PidFacts
<1>5. QED
  BY <1>1, <1>2, <1>3, <1>4

(* do_fork.                                                                *)
LEMMA ForkKeepsLinks ==
  ASSUME IInv, LinkInv, NEW q \in Pid, DoFork(q)
  PROVE  LinkInv'
<1> DEFINE c == last_pid
<1>1. /\ pc = "link" /\ pc' = "out" /\ proc_list \in Seq(1 .. MAX_PID - 1)
      /\ proc_list' = <<c>> \o proc_list
      /\ c \in 1 .. MAX_PID - 1 /\ c \in Pid /\ c \notin Used /\ c # idleproc
  BY PidAssumption DEF IInv, TypeOK, PidsUnique, DoFork, Link, Pid, idleproc
<1>2. /\ parent' = [parent EXCEPT ![c] = q] /\ links' = SetLinks(links, c, q)
      /\ children' = [children EXCEPT ![q] = <<c>> \o children[q]]
      /\ zombie' = zombie /\ exiting' = exiting
      /\ IF proc_list = << >> THEN q = idleproc ELSE q \in Used \ zombie
  BY DEF DoFork
<1>3. /\ links \in LinkType /\ parent \in [Pid -> Ptr] /\ children \in [Pid -> Seq(Pid)]
      /\ \A d \in Used : parent[d] \in Pid
      /\ zombie \subseteq Used /\ initproc \notin zombie /\ exiting \in zombie \cup {NULL} /\ exiting = NULL
      /\ IF proc_list = << >> THEN last_pid = initproc ELSE proc_list[Len(proc_list)] = initproc
  BY <1>1 DEF LinkInv, LinkTypes, Ptr
<1> HIDE DEF c
<1>4. /\ <<c>> \o proc_list \in Seq(1 .. MAX_PID - 1) /\ Len(<<c>> \o proc_list) = Len(proc_list) + 1
      /\ (<<c>> \o proc_list)[1] = c
      /\ \A i \in 2 .. Len(proc_list) + 1 : (<<c>> \o proc_list)[i] = proc_list[i - 1]
      /\ Len(proc_list) \in Nat /\ (proc_list = << >> <=> Len(proc_list) = 0)
  <2> DEFINE P == 1 .. MAX_PID - 1
  <2>1. proc_list \in Seq(P) /\ c \in P
    BY <1>1
  <2> HIDE DEF P
  <2>2. /\ <<c>> \o proc_list \in Seq(P) /\ Len(<<c>> \o proc_list) = Len(proc_list) + 1
        /\ (<<c>> \o proc_list)[1] = c
        /\ \A i \in 2 .. Len(proc_list) + 1 : (<<c>> \o proc_list)[i] = proc_list[i - 1]
    BY <2>1, PrependProperties
  <2>3. Len(proc_list) \in Nat /\ (proc_list = << >> <=> Len(proc_list) = 0)
    BY <2>1, LenProperties, EmptySeq
  <2>4. QED
    BY <2>2, <2>3 DEF P
<1>5. Used' = Used \cup {c}
  <2>1. DOMAIN proc_list = 1 .. Len(proc_list) /\ DOMAIN proc_list' = 1 .. Len(proc_list) + 1
    BY <1>1, <1>4
  <2>2. \A d : d \in Used' <=> d \in Used \/ d = c
    <3>1. ASSUME NEW d \in Used'
          PROVE  d \in Used \/ d = c
      <4>1. PICK i \in 1 .. Len(proc_list) + 1 : d = proc_list'[i]
        BY <2>1 DEF Used
      <4>2. CASE i = 1
        BY <1>1, <1>4, <4>1, <4>2
      <4>3. CASE i # 1
        <5>1. i \in 2 .. Len(proc_list) + 1 /\ i - 1 \in 1 .. Len(proc_list)
          BY <1>4, <4>3
        <5>2. QED
          BY <1>1, <1>4, <2>1, <4>1, <5>1 DEF Used
      <4>4. QED
        BY <4>2, <4>3
    <3>2. ASSUME NEW d \in Used
          PROVE  d \in Used'
      <4>1. PICK i \in 1 .. Len(proc_list) : d = proc_list[i]
        BY <2>1 DEF Used
      <4>2. i + 1 \in 2 .. Len(proc_list) + 1 /\ i + 1 - 1 = i /\ i + 1 \in 1 .. Len(proc_list) + 1
        BY <1>4
      <4>3. proc_list'[i + 1] = d
        BY <1>1, <1>4, <4>1, <4>2
      <4>4. QED
        BY <2>1, <4>2, <4>3 DEF Used
    <3>3. c \in Used'
      <4>1. 1 \in DOMAIN proc_list' /\ proc_list'[1] = c
        BY <1>1, <1>4, <2>1
      <4>2. QED
        BY <4>1 DEF Used
    <3>4. QED
      BY <3>1, <3>2, <3>3
  <2>3. QED
    BY <2>2
<1>6. /\ Used \subseteq Pid /\ idleproc \in Pid \ Used /\ initproc \in Pid
      /\ NULL \notin Pid /\ initproc # idleproc
      /\ "cptr" \in Field /\ "yptr" \in Field /\ "optr" \in Field
  BY PidFacts
<1>7. q \in {idleproc} \cup (Used \ zombie) /\ q # c /\ q # exiting
  BY <1>1, <1>2, <1>3, <1>6
<1> DEFINE L == SetLinks(links, c, q)
<1>8. /\ L \in LinkType
      /\ \A p \in Pid :
           /\ L["cptr"][p] = IF p = q THEN c ELSE links["cptr"][p]
           /\ L["optr"][p] = IF p = c THEN links["cptr"][q] ELSE links["optr"][p]
           /\ L["yptr"][p] = IF p = links["cptr"][q] THEN c ELSE IF p = c THEN NULL ELSE links["yptr"][p]
  BY <1>1, <1>3, SetLinksFields
<1> HIDE DEF L
<1>9. c \notin ToSet(children[q]) /\ links["cptr"][q] # c
  BY <1>1, <1>6, ChildFacts
<1>10. children[q] \in Seq(Pid) /\ Distinct(children[q])
  BY ChildFacts
<1>11. /\ <<c>> \o children[q] \in Seq(Pid) /\ Distinct(<<c>> \o children[q])
       /\ ToSet(<<c>> \o children[q]) = ToSet(children[q]) \cup {c}
  BY <1>1, <1>9, <1>10, ToSetPrepend, PrependProperties
<1>12. \A p \in Pid : children'[p] = IF p = q THEN <<c>> \o children[q] ELSE children[p]
  BY <1>2, <1>3
<1>13. \A d \in Pid : parent'[d] = IF d = c THEN q ELSE parent[d]
  BY <1>2, <1>3
<1>14. LinkTypes'
  <2>1. parent' \in [Pid -> Ptr] /\ children' \in [Pid -> Seq(Pid)]
    BY <1>2, <1>3, <1>11 DEF Ptr
  <2>2. \A d \in Used' : parent'[d] \in Pid
    <3>1. SUFFICES ASSUME NEW d \in Used'
                   PROVE  parent'[d] \in Pid
      OBVIOUS
    <3>2. d \in Pid /\ (d = c \/ d \in Used)
      BY <1>1, <1>5, <1>6
    <3>3. QED
      BY <1>3, <1>13, <3>2
  <2>3. links' \in LinkType
    BY <1>2, <1>8 DEF L
  <2>4. zombie' \subseteq Used' /\ initproc \notin zombie' /\ exiting' \in zombie' \cup {NULL} /\ exiting' = NULL
    BY <1>2, <1>3, <1>5
  <2>5. proc_list' # << >> /\ proc_list'[Len(proc_list')] = initproc
    <3>1. Len(proc_list') = Len(proc_list) + 1 /\ proc_list' # << >>
      BY <1>1, <1>4, EmptySeq
    <3>2. CASE proc_list = << >>
      <4>1. Len(proc_list') = 1 /\ proc_list'[1] = c /\ c = initproc
        BY <1>1, <1>3, <1>4, <3>1, <3>2 DEF c
      <4>2. QED
        BY <3>1, <4>1
    <3>3. CASE proc_list # << >>
      <4>1. Len(proc_list) + 1 \in 2 .. Len(proc_list) + 1 /\ Len(proc_list) + 1 - 1 = Len(proc_list)
        BY <1>4, <3>3
      <4>2. proc_list'[Len(proc_list) + 1] = proc_list[Len(proc_list)]
        BY <1>1, <1>4, <4>1
      <4>3. QED
        BY <1>3, <3>1, <3>3, <4>2
    <3>4. QED
      BY <3>2, <3>3
  <2>6. QED
    BY <2>1, <2>2, <2>3, <2>4, <2>5 DEF LinkTypes, Ptr
<1>15. Rows'
  <2>1. ASSUME NEW p \in Pid
        PROVE  Row(L["cptr"], L["optr"], L["yptr"], p, children'[p], exiting)
    <3>1. /\ children[p] \in Seq(Pid) /\ Distinct(children[p])
          /\ Row(links["cptr"], links["optr"], links["yptr"], p, children[p], exiting)
          /\ \A d \in ToSet(children[p]) : d \in Pid /\ d # c /\ parent[d] = p
      BY <1>1, ChildFacts
    <3>2. CASE p = q
      <4>1. /\ L["cptr"][p] = c /\ L["optr"][c] = links["cptr"][p] /\ L["yptr"][c] = NULL
            /\ \A d \in ToSet(children[p]) :
                 /\ L["optr"][d] = links["optr"][d]
                 /\ L["yptr"][d] = IF d = links["cptr"][p] THEN c ELSE links["yptr"][d]
        BY <1>1, <1>8, <1>9, <3>1, <3>2
      <4> DEFINE C == links["cptr"]  O == links["optr"]  Y == links["yptr"]
                 C2 == L["cptr"]  O2 == L["optr"]  Y2 == L["yptr"]
                 s == children[p]
      <4>2. /\ C2[p] = c /\ O2[c] = C[p] /\ Y2[c] = NULL
            /\ \A d \in ToSet(s) : O2[d] = O[d] /\ Y2[d] = IF d = C[p] THEN c ELSE Y[d]
            /\ Row(C, O, Y, p, s, exiting) /\ s \in Seq(Pid) /\ Distinct(s) /\ c \in Pid /\ p # exiting
        BY <1>1, <1>7, <3>1, <3>2, <4>1
      <4> HIDE DEF C, O, Y, C2, O2, Y2, s
      <4>3. Row(C2, O2, Y2, p, <<c>> \o s, exiting)
        BY <4>2, RowPrepend
      <4>4. Row(L["cptr"], L["optr"], L["yptr"], p, <<c>> \o children[p], exiting)
        BY <4>3 DEF C2, O2, Y2, s
      <4>5. QED
        BY <1>12, <3>2, <4>4
    <3>3. CASE p # q
      <4>1. \A d \in ToSet(children[p]) : d # links["cptr"][q]
        <5>1. links["cptr"][q] \in Pid => parent[links["cptr"][q]] = q
          BY <1>6, ChildFacts
        <5>2. QED
          BY <3>1, <3>3, <5>1
      <4>2. /\ L["cptr"][p] = links["cptr"][p]
            /\ \A d \in ToSet(children[p]) : L["optr"][d] = links["optr"][d] /\ L["yptr"][d] = links["yptr"][d]
        BY <1>8, <3>1, <3>3, <4>1
      <4>3. Row(L["cptr"], L["optr"], L["yptr"], p, children[p], exiting)
        BY <3>1, <4>2, RowSame
      <4>4. QED
        BY <1>12, <3>3, <4>3
    <3>4. QED
      BY <3>2, <3>3
  <2>2. links' = L /\ exiting' = exiting
    BY <1>2 DEF L
  <2>3. QED
    BY <2>1, <2>2 DEF Rows
<1>16. Members'
  <2>1. ASSUME NEW p \in Pid
        PROVE  /\ Distinct(children'[p])
               /\ \A d \in Pid : d \in ToSet(children'[p]) <=> d \in Used' /\ parent'[d] = p
    <3>1. Distinct(children[p]) /\ \A d \in Pid : d \in ToSet(children[p]) <=> d \in Used /\ parent[d] = p
      BY DEF LinkInv, Members
    <3>2. QED
      BY <1>1, <1>5, <1>11, <1>12, <1>13, <3>1
  <2>2. QED
    BY <2>1 DEF Members
<1>17. Living'
  <2>1. \A p \in Pid : children[p] # << >> => p \in {idleproc, exiting} \cup (Used \ zombie)
    BY DEF LinkInv, Living
  <2>2. \A p \in Pid : children'[p] # << >> => p \in {idleproc, exiting'} \cup (Used' \ zombie')
    BY <1>2, <1>5, <1>7, <1>12, <2>1
  <2>3. QED
    BY <2>2 DEF Living
<1>18. QED
  BY <1>14, <1>15, <1>16, <1>17 DEF LinkInv

(* One round of the loop in do_exit.                                       *)
LEMMA GiveUpKeepsLinks ==
  ASSUME IInv, LinkInv, GiveUpChild
  PROVE  LinkInv'
<1> DEFINE e == exiting
           c == links["cptr"][e]
           L == Adopt(links, e)
<1>1. /\ e # NULL /\ c # NULL
      /\ links' = L
      /\ parent' = [parent EXCEPT ![c] = initproc]
      /\ children' = [children EXCEPT ![e] = Tail(children[e]), ![initproc] = <<c>> \o children[initproc]]
      /\ zombie' = zombie /\ exiting' = exiting /\ proc_list' = proc_list /\ pc' = pc /\ last_pid' = last_pid
  <2>1. e # initproc
    BY DEF GiveUpChild, LinkInv, LinkTypes, initproc, NULL
  <2>2. QED
    BY <2>1 DEF GiveUpChild, vars
<1>2. /\ Used \subseteq Pid /\ idleproc \in Pid \ Used /\ initproc \in Pid
      /\ NULL \notin Pid /\ initproc # idleproc
      /\ "cptr" \in Field /\ "yptr" \in Field /\ "optr" \in Field
  BY PidFacts
<1>3. /\ links \in LinkType /\ parent \in [Pid -> Ptr] /\ children \in [Pid -> Seq(Pid)]
      /\ \A d \in Used : parent[d] \in Pid
      /\ zombie \subseteq Used /\ initproc \notin zombie
      /\ e \in zombie /\ e \in Pid /\ e # initproc
  BY <1>1, <1>2 DEF LinkInv, LinkTypes, Ptr
<1>4. initproc \in Used
  <2>1. proc_list # << >> /\ proc_list[Len(proc_list)] = initproc
    BY <1>3 DEF LinkInv, LinkTypes, Used
  <2>2. proc_list \in Seq(1 .. MAX_PID - 1)
    BY DEF IInv, TypeOK
  <2>3. Len(proc_list) \in DOMAIN proc_list
    BY <2>1, <2>2, LenProperties, EmptySeq
  <2>4. QED
    BY <2>1, <2>3 DEF Used
<1>5. /\ children[e] \in Seq(Pid) /\ Distinct(children[e]) /\ children[e] # << >>
      /\ c = children[e][1] /\ c \in ToSet(children[e]) /\ c \in Pid /\ c \in Used /\ parent[c] = e
      /\ Row(links["cptr"], links["optr"], links["yptr"], e, children[e], e)
  BY <1>1, <1>3, ChildFacts
<1> HIDE DEF c
<1>6. /\ L \in LinkType
      /\ \A p \in Pid :
           /\ L["cptr"][p] = IF p = initproc THEN c ELSE IF p = e THEN links["optr"][c] ELSE links["cptr"][p]
           /\ L["optr"][p] = IF p = c THEN links["cptr"][initproc] ELSE links["optr"][p]
           /\ L["yptr"][p] =
                IF p = links["cptr"][initproc] THEN c ELSE IF p = c THEN NULL ELSE links["yptr"][p]
  <2>1. links \in LinkType /\ e \in Pid /\ initproc \in Pid /\ links["cptr"][e] # NULL /\ e # initproc
    BY <1>1, <1>2, <1>3 DEF c
  <2> HIDE DEF e
  <2>2. LET b == links["cptr"][e]
        IN  /\ Adopt(links, e) \in LinkType
            /\ \A p \in Pid :
                 /\ Adopt(links, e)["cptr"][p] =
                      IF p = initproc THEN b ELSE IF p = e THEN links["optr"][b] ELSE links["cptr"][p]
                 /\ Adopt(links, e)["optr"][p] = IF p = b THEN links["cptr"][initproc] ELSE links["optr"][p]
                 /\ Adopt(links, e)["yptr"][p] =
                      IF p = links["cptr"][initproc] THEN b ELSE IF p = b THEN NULL ELSE links["yptr"][p]
    BY <2>1, AdoptFields
  <2>3. QED
    BY <2>2 DEF c
<1> HIDE DEF L, e
<1>7. children[initproc] \in Seq(Pid) /\ Distinct(children[initproc]) /\ c \notin ToSet(children[initproc])
  BY <1>2, <1>3, <1>5, ChildFacts
<1>8. /\ <<c>> \o children[initproc] \in Seq(Pid) /\ Distinct(<<c>> \o children[initproc])
      /\ ToSet(<<c>> \o children[initproc]) = ToSet(children[initproc]) \cup {c}
  BY <1>5, <1>7, ToSetPrepend, PrependProperties
<1>9. Tail(children[e]) \in Seq(Pid) /\ Distinct(Tail(children[e])) /\ ToSet(Tail(children[e])) = ToSet(children[e]) \ {c}
  BY <1>5, TailKeeps
<1>10. \A p \in Pid : children'[p] = IF p = e THEN Tail(children[e])
                                     ELSE IF p = initproc THEN <<c>> \o children[initproc] ELSE children[p]
  BY <1>1, <1>2, <1>3
<1>11. \A d \in Pid : parent'[d] = IF d = c THEN initproc ELSE parent[d]
  BY <1>1, <1>3
<1>12. Used' = Used
  BY <1>1 DEF Used
<1>13. LinkTypes'
  <2>1. parent' \in [Pid -> Ptr] /\ children' \in [Pid -> Seq(Pid)]
    BY <1>1, <1>2, <1>3, <1>8, <1>9 DEF Ptr
  <2>2. \A d \in Used' : parent'[d] \in Pid
    BY <1>2, <1>3, <1>11, <1>12
  <2>3. QED
    BY <1>1, <1>6, <1>12, <2>1, <2>2 DEF LinkInv, LinkTypes, Ptr
<1>14. Rows'
  <2> DEFINE C == links["cptr"]  O == links["optr"]  Y == links["yptr"]
             C2 == L["cptr"]  O2 == L["optr"]  Y2 == L["yptr"]
  <2>1. ASSUME NEW p \in Pid
        PROVE  Row(C2, O2, Y2, p, children'[p], e)
    <3> DEFINE s == children[p]
    <3>1. /\ s \in Seq(Pid) /\ Distinct(s) /\ Row(C, O, Y, p, s, e)
          /\ \A d \in ToSet(s) : d \in Pid /\ parent[d] = p
      BY ChildFacts DEF e
    <3>2. links["cptr"][initproc] \in Pid => parent[links["cptr"][initproc]] = initproc
      BY <1>2, ChildFacts
    <3>3. CASE p = e
      <4>1. C2[e] = O[s[1]] /\ s # << >>
        BY <1>3, <1>5, <1>6, <3>3
      <4>2. \A d \in ToSet(s) \ {s[1]} : O2[d] = O[d] /\ Y2[d] = Y[d]
        BY <1>3, <1>5, <1>6, <3>1, <3>2, <3>3
      <4> HIDE DEF C, O, Y, C2, O2, Y2, s
      <4>3. Row(C2, O2, Y2, e, Tail(s), e)
        BY <3>1, <3>3, <4>1, <4>2, RowTail
      <4>4. QED
        BY <1>10, <3>3, <4>3 DEF s
    <3>4. CASE p = initproc
      <4>1. /\ C2[p] = c /\ O2[c] = C[p] /\ Y2[c] = NULL
            /\ \A d \in ToSet(s) : O2[d] = O[d] /\ Y2[d] = IF d = C[p] THEN c ELSE Y[d]
            /\ p # e
        <5>1. C[p] # c
          BY <1>3, <1>5, <3>2, <3>4
        <5>2. QED
          BY <1>3, <1>5, <1>6, <1>7, <3>1, <3>4, <5>1
      <4> HIDE DEF C, O, Y, C2, O2, Y2, s
      <4>2. Row(C2, O2, Y2, p, <<c>> \o s, e)
        BY <1>5, <1>7, <3>1, <4>1, RowPrepend
      <4>3. QED
        BY <1>3, <1>10, <3>4, <4>2 DEF s
    <3>5. CASE p # e /\ p # initproc
      <4>1. C2[p] = C[p] /\ \A d \in ToSet(s) : O2[d] = O[d] /\ Y2[d] = Y[d]
        BY <1>5, <1>6, <3>1, <3>2, <3>5
      <4> HIDE DEF C, O, Y, C2, O2, Y2, s
      <4>2. Row(C2, O2, Y2, p, s, e)
        BY <3>1, <4>1, RowSame
      <4>3. QED
        BY <1>10, <3>5, <4>2 DEF s
    <3>6. QED
      BY <3>3, <3>4, <3>5
  <2>2. links' = L /\ exiting' = e
    BY <1>1 DEF e
  <2>3. QED
    BY <2>1, <2>2 DEF Rows
<1>15. Members'
  <2>1. ASSUME NEW p \in Pid
        PROVE  /\ Distinct(children'[p])
               /\ \A d \in Pid : d \in ToSet(children'[p]) <=> d \in Used' /\ parent'[d] = p
    <3>1. Distinct(children[p]) /\ \A d \in Pid : d \in ToSet(children[p]) <=> d \in Used /\ parent[d] = p
      BY DEF LinkInv, Members
    <3>2. CASE p = e
      BY <1>3, <1>9, <1>10, <1>11, <1>12, <3>1, <3>2
    <3>3. CASE p = initproc
      BY <1>3, <1>5, <1>8, <1>10, <1>11, <1>12, <3>1, <3>3
    <3>4. CASE p # e /\ p # initproc
      BY <1>5, <1>10, <1>11, <1>12, <3>1, <3>4
    <3>5. QED
      BY <3>2, <3>3, <3>4
  <2>2. QED
    BY <2>1 DEF Members
<1>16. Living'
  <2>1. \A p \in Pid : children[p] # << >> => p \in {idleproc, exiting} \cup (Used \ zombie)
    BY DEF LinkInv, Living
  <2>2. \A p \in Pid : children'[p] # << >> => p \in {idleproc, exiting'} \cup (Used' \ zombie')
    BY <1>1, <1>3, <1>4, <1>10, <1>12, <2>1 DEF e
  <2>3. QED
    BY <2>2 DEF Living
<1>17. QED
  BY <1>13, <1>14, <1>15, <1>16 DEF LinkInv

(* do_exit begins and ends.                                                *)
LEMMA ExitKeepsLinks ==
  ASSUME IInv, LinkInv, Exited \/ \E p \in Pid : DoExit(p)
  PROVE  LinkInv'
<1>1. /\ UNCHANGED <<links, parent, children, proc_list, last_pid, pc>>
      /\ exiting # NULL => exiting' = NULL /\ links["cptr"][exiting] = NULL /\ zombie' = zombie
      /\ exiting = NULL => \E p \in Used \ {initproc} : exiting' = p /\ zombie' = zombie \cup {p} /\ pc = "out"
  BY DEF Exited, DoExit, vars
<1>2. Used' = Used /\ Used \subseteq Pid /\ NULL \notin Pid
  BY <1>1, PidFacts DEF Used
<1>3. LinkTypes'
  BY <1>1, <1>2 DEF LinkInv, LinkTypes, LinkType
<1>4. exiting # NULL => exiting \in Pid /\ children[exiting] = << >>
  BY <1>1, <1>2, ChildFacts DEF LinkInv, LinkTypes
<1>5. Rows'
  <2> DEFINE C == links["cptr"]  O == links["optr"]  Y == links["yptr"]
  <2>1. ASSUME NEW p \in Pid
        PROVE  Row(C, O, Y, p, children[p], exiting')
    <3>1. Row(C, O, Y, p, children[p], exiting) /\ children[p] \in Seq(Pid)
      BY DEF LinkInv, Rows, LinkTypes
    <3> HIDE DEF C, O, Y
    <3>2. CASE p = exiting
      <4>1. children[p] = << >>
        BY <1>2, <1>4, <3>2
      <4>2. 1 .. Len(<< >>) = {}
        OBVIOUS
      <4>3. QED
        BY <3>1, <4>1, <4>2 DEF Row
    <3>3. CASE p # exiting
      BY <3>1, <3>3, RowSame
    <3>4. QED
      BY <3>2, <3>3
  <2>2. QED
    BY <1>1, <2>1 DEF Rows
<1>6. Members'
  BY <1>1, <1>2 DEF LinkInv, Members
<1>7. Living'
  <2>1. \A p \in Pid : children[p] # << >> => p \in {idleproc, exiting} \cup (Used \ zombie)
    BY DEF LinkInv, Living
  <2>2. \A p \in Pid : children[p] # << >> => p \in {idleproc, exiting'} \cup (Used \ zombie')
    BY <1>1, <1>2, <1>4, <2>1
  <2>3. QED
    BY <1>1, <1>2, <2>2 DEF Living
<1>8. QED
  BY <1>3, <1>5, <1>6, <1>7 DEF LinkInv

(* do_wait.                                                                *)
LEMMA WaitKeepsLinks ==
  ASSUME IInv, LinkInv, NEW i \in DOMAIN proc_list, DoWait(i)
  PROVE  LinkInv'
<1> DEFINE c == proc_list[i]
           q == parent[c]
           s == children[q]
           R == RemoveLinks(links, c)
           M(f) == [R[f] EXCEPT ![c] = NULL]
<1>1. /\ c \in zombie /\ exiting = NULL /\ pc = "out" /\ pc' = pc /\ i < Len(proc_list) /\ last_pid' = last_pid
      /\ proc_list' = RemoveAt(proc_list, i)
      /\ links' = [f \in DOMAIN links |-> M(f)]
      /\ parent' = [parent EXCEPT ![c] = NULL]
      /\ children' = [children EXCEPT ![q] = RemoveFirst(s, c)]
      /\ zombie' = zombie \ {c} /\ exiting' = exiting
  BY DEF DoWait, Unlink
<1>2. /\ Used \subseteq Pid /\ idleproc \in Pid \ Used /\ initproc \in Pid
      /\ NULL \notin Pid /\ initproc # idleproc
      /\ "cptr" \in Field /\ "yptr" \in Field /\ "optr" \in Field
  BY PidFacts
<1>3. /\ links \in LinkType /\ parent \in [Pid -> Ptr] /\ children \in [Pid -> Seq(Pid)]
      /\ \A d \in Used : parent[d] \in Pid
      /\ zombie \subseteq Used /\ initproc \notin zombie
  BY DEF LinkInv, LinkTypes, Ptr
<1>4. c \in Used /\ c \in Pid /\ q \in Pid /\ c # initproc /\ c # idleproc
  BY <1>1, <1>2, <1>3
<1>5. \A p \in Pid : children[p] # << >> => p \in {idleproc, NULL} \cup (Used \ zombie)
  BY <1>1 DEF LinkInv, Living
<1>6. /\ s \in Seq(Pid) /\ Distinct(s) /\ c \in ToSet(s)
      /\ Row(links["cptr"], links["optr"], links["yptr"], q, s, NULL)
  BY <1>1, <1>4, ChildFacts DEF LinkInv, Members
<1>7. children[c] = << >> /\ q # c
  <2>1. children[c] = << >>
    BY <1>1, <1>2, <1>4, <1>5
  <2>2. s # << >>
    BY <1>6 DEF ToSet
  <2>3. QED
    BY <2>1, <2>2
<1>8. PICK k \in 1 .. Len(s) : s[k] = c /\ RemoveFirst(s, c) = RemoveAt(s, k)
  BY <1>6, RemoveFirstProperties
<1>9. RemoveFirst(s, c) \in Seq(Pid) /\ Distinct(RemoveFirst(s, c)) /\ ToSet(RemoveFirst(s, c)) = ToSet(s) \ {c}
  BY <1>6, <1>8, ToSetRemoveAt, RemoveAtProperties
<1>10. /\ proc_list \in Seq(1 .. MAX_PID - 1) /\ Distinct(proc_list) /\ i \in 1 .. Len(proc_list)
       /\ Len(proc_list) \in Nat
  BY ListOfPids, LenProperties
<1>11. Used' = Used \ {c}
  <2>1. ToSet(RemoveAt(proc_list, i)) = ToSet(proc_list) \ {c}
    BY <1>10, ToSetRemoveAt
  <2>2. QED
    BY <1>1, <2>1, UsedIsToSet DEF Used, ToSet
<1> HIDE DEF s, R
<1>12. /\ R \in LinkType
       /\ \A p \in Pid :
            /\ R["cptr"][p] = IF links["yptr"][c] = NULL /\ p = q THEN links["optr"][c] ELSE links["cptr"][p]
            /\ R["optr"][p] = IF p = links["yptr"][c] THEN links["optr"][c] ELSE links["optr"][p]
            /\ R["yptr"][p] = IF p = links["optr"][c] THEN links["yptr"][c] ELSE links["yptr"][p]
  <2>1. links \in LinkType /\ c \in Pid /\ parent[c] \in Pid
    BY <1>3, <1>4
  <2> HIDE DEF c
  <2>2. LET o == links["optr"][c]
            y == links["yptr"][c]
        IN  /\ RemoveLinks(links, c) \in LinkType
            /\ \A p \in Pid :
                 /\ RemoveLinks(links, c)["cptr"][p] = IF y = NULL /\ p = parent[c] THEN o ELSE links["cptr"][p]
                 /\ RemoveLinks(links, c)["optr"][p] = IF p = y THEN o ELSE links["optr"][p]
                 /\ RemoveLinks(links, c)["yptr"][p] = IF p = o THEN y ELSE links["yptr"][p]
    BY <2>1, RemoveLinksFields
  <2>3. QED
    BY <2>2 DEF R
<1> HIDE DEF q, c
<1>13. \A f \in Field : links'[f] = M(f) /\ M(f) \in [Pid -> Ptr]
                        /\ \A p \in Pid : M(f)[p] = IF p = c THEN NULL ELSE R[f][p]
  <2>1. ASSUME NEW f \in Field
        PROVE  /\ links'[f] = M(f) /\ M(f) \in [Pid -> Ptr]
               /\ \A p \in Pid : M(f)[p] = IF p = c THEN NULL ELSE R[f][p]
    <3>1. R[f] \in [Pid -> Ptr] /\ f \in DOMAIN links /\ NULL \in Ptr
      BY <1>3, <1>12 DEF LinkType, Ptr
    <3>2. links'[f] = M(f)
      BY <1>1, <3>1
    <3>3. QED
      BY <1>4, <3>1, <3>2
  <2>2. QED
    BY <2>1
<1>14. links' \in LinkType
  <2>1. DOMAIN links = Field
    BY <1>3 DEF LinkType
  <2>2. QED
    BY <1>1, <1>13, <2>1 DEF LinkType
<1> HIDE DEF M
<1>15. \A p \in Pid : children'[p] = IF p = q THEN RemoveAt(s, k) ELSE children[p]
  BY <1>1, <1>3, <1>8
<1>16. \A d \in Pid : parent'[d] = IF d = c THEN NULL ELSE parent[d]
  BY <1>1, <1>3
<1>17. LinkTypes'
  <2>1. parent' \in [Pid -> Ptr] /\ children' \in [Pid -> Seq(Pid)]
    BY <1>1, <1>3, <1>9 DEF Ptr
  <2>2. \A d \in Used' : parent'[d] \in Pid
    BY <1>2, <1>3, <1>11, <1>16
  <2>3. zombie' \subseteq Used' /\ initproc \notin zombie' /\ exiting' \in zombie' \cup {NULL} /\ exiting' = NULL
    BY <1>1, <1>3, <1>11
  <2>4. proc_list' # << >> /\ proc_list'[Len(proc_list')] = initproc
    <3>1. proc_list # << >> /\ proc_list[Len(proc_list)] = initproc
      <4>1. proc_list # << >>
        BY <1>10, EmptySeq
      <4>2. QED
        BY <4>1 DEF LinkInv, LinkTypes
    <3>2. /\ Len(proc_list') = Len(proc_list) - 1 /\ proc_list' \in Seq(1 .. MAX_PID - 1)
          /\ \A j \in 1 .. Len(proc_list) - 1 : proc_list'[j] = proc_list[IF j < i THEN j ELSE j + 1]
      BY <1>1, <1>10, RemoveAtProperties
    <3>3. Len(proc_list) - 1 \in 1 .. Len(proc_list) - 1 /\ ~(Len(proc_list) - 1 < i) /\ Len(proc_list) - 1 + 1 = Len(proc_list)
      BY <1>1, <1>10
    <3>4. proc_list'[Len(proc_list')] = initproc
      BY <3>1, <3>2, <3>3
    <3>5. QED
      BY <3>2, <3>3, <3>4, EmptySeq
  <2>5. QED
    BY <1>1, <1>14, <2>1, <2>2, <2>3, <2>4 DEF LinkTypes, Ptr
<1>18. Rows'
  <2> DEFINE C == links["cptr"]  O == links["optr"]  Y == links["yptr"]
             C2 == links'["cptr"]  O2 == links'["optr"]  Y2 == links'["yptr"]
  <2>1. /\ \A p \in Pid : C2[p] = IF p = c THEN NULL ELSE IF Y[c] = NULL /\ p = q THEN O[c] ELSE C[p]
        /\ \A p \in Pid : O2[p] = IF p = c THEN NULL ELSE IF p = Y[c] THEN O[c] ELSE O[p]
        /\ \A p \in Pid : Y2[p] = IF p = c THEN NULL ELSE IF p = O[c] THEN Y[c] ELSE Y[p]
    BY <1>2, <1>12, <1>13
  <2>2. /\ O[c] # NULL => O[c] \in ToSet(s)
        /\ Y[c] # NULL => Y[c] \in ToSet(s)
    <3>1. \A j \in 1 .. Len(s) : s[j] \in ToSet(s)
      BY <1>6, LenProperties DEF ToSet
    <3>2. Len(s) \in Nat /\ O[c] = (IF k = Len(s) THEN NULL ELSE s[k + 1])
      BY <1>6, <1>8, LenProperties DEF Row
    <3>3. Y[c] = IF k = 1 THEN NULL ELSE s[k - 1]
      BY <1>2, <1>4, <1>6, <1>8 DEF Row
    <3>4. (k # Len(s) => k + 1 \in 1 .. Len(s)) /\ (k # 1 => k - 1 \in 1 .. Len(s))
      BY <3>2
    <3>5. QED
      BY <3>1, <3>2, <3>3, <3>4
  <2>3. \A d \in ToSet(s) : d \in Pid /\ parent[d] = q
    BY <1>4, ChildFacts DEF s
  <2>4. ASSUME NEW p \in Pid
        PROVE  Row(C2, O2, Y2, p, children'[p], NULL)
    <3> DEFINE t == children[p]
    <3>1. /\ t \in Seq(Pid) /\ Distinct(t) /\ Row(C, O, Y, p, t, NULL)
          /\ \A d \in ToSet(t) : d \in Pid /\ parent[d] = p
      BY <1>1, ChildFacts
    <3>2. CASE p = q
      <4>1. C2[p] = IF Y[s[k]] = NULL THEN O[s[k]] ELSE C[p]
        BY <1>4, <1>7, <1>8, <2>1, <3>2
      <4>2. \A d \in ToSet(s) \ {s[k]} : /\ O2[d] = IF d = Y[s[k]] THEN O[s[k]] ELSE O[d]
                                         /\ Y2[d] = IF d = O[s[k]] THEN Y[s[k]] ELSE Y[d]
        BY <1>8, <2>1, <2>3
      <4>3. p # NULL /\ Row(C, O, Y, p, s, NULL)
        BY <1>2, <1>6, <3>2
      <4> HIDE DEF C, O, Y, C2, O2, Y2
      <4>4. Row(C2, O2, Y2, p, RemoveAt(s, k), NULL)
        BY <1>6, <1>8, <4>1, <4>2, <4>3, RowRemove
      <4>5. QED
        BY <1>15, <3>2, <4>4
    <3>3. CASE p # q
      <4>1. \A d \in ToSet(t) : d # c /\ d # O[c] /\ d # Y[c]
        <5>1. c \in ToSet(s)
          BY <1>6
        <5>2. \A d \in ToSet(t) : d \notin ToSet(s) /\ d # NULL
          BY <1>2, <2>3, <3>1, <3>3
        <5>3. QED
          BY <2>2, <5>1, <5>2
      <4>2. C2[p] = C[p]
        <5>1. C[c] = NULL
          BY <1>2, <1>4, <1>7, ChildFacts, ListMembers
        <5>2. QED
          BY <2>1, <3>3, <5>1
      <4>3. \A d \in ToSet(t) : O2[d] = O[d] /\ Y2[d] = Y[d]
        BY <2>1, <3>1, <4>1
      <4> HIDE DEF C, O, Y, C2, O2, Y2, t
      <4>4. Row(C2, O2, Y2, p, t, NULL)
        BY <3>1, <4>2, <4>3, RowSame
      <4>5. QED
        BY <1>15, <3>3, <4>4 DEF t
    <3>4. QED
      BY <3>2, <3>3
  <2>5. QED
    BY <1>1, <2>4 DEF Rows
<1>19. Members'
  <2>1. ASSUME NEW p \in Pid
        PROVE  /\ Distinct(children'[p])
               /\ \A d \in Pid : d \in ToSet(children'[p]) <=> d \in Used' /\ parent'[d] = p
    <3>1. Distinct(children[p]) /\ \A d \in Pid : d \in ToSet(children[p]) <=> d \in Used /\ parent[d] = p
      BY DEF LinkInv, Members
    <3>2. CASE p = q
      BY <1>8, <1>9, <1>11, <1>15, <1>16, <3>1, <3>2 DEF s
    <3>3. CASE p # q
      BY <1>11, <1>15, <1>16, <3>1, <3>3 DEF q
    <3>4. QED
      BY <3>2, <3>3
  <2>2. QED
    BY <2>1 DEF Members
<1>20. Living'
  <2>1. \A p \in Pid : children'[p] # << >> => children[p] # << >>
    <3>1. s # << >>
      BY <1>6 DEF ToSet
    <3>2. QED
      BY <1>15, <3>1 DEF s
  <2>2. \A p \in Pid : children'[p] # << >> => p \in {idleproc, exiting'} \cup (Used' \ zombie')
    BY <1>1, <1>5, <1>11, <2>1
  <2>3. QED
    BY <2>2 DEF Living
<1>21. QED
  BY <1>17, <1>18, <1>19, <1>20 DEF LinkInv

(* Every step keeps the links.                                             *)
LEMMA LinkInvStep == IInv /\ LinkInv /\ [TableNext]_<<vars, table>> => LinkInv'
<1> SUFFICES ASSUME IInv, LinkInv, [TableNext]_<<vars, table>>
             PROVE  LinkInv'
  OBVIOUS
<1>1. ASSUME UNCHANGED table, UNCHANGED vars
      PROVE  LinkInv'
  BY <1>1 DEF LinkInv, LinkTypes, LinkType, Rows, Members, Living, Used, table, vars
<1>2. ASSUME UNCHANGED <<table, proc_list>>, (Call /\ exiting = NULL) \/ Scan \/ Return
      PROVE  LinkInv'
  <2>1. Rows' /\ Members' /\ Living'
    BY <1>2 DEF LinkInv, Rows, Members, Living, Used, table
  <2>2. exiting' # NULL => pc' = "out"
    BY <1>2 DEF LinkInv, LinkTypes, table, Call, Scan, Return
  <2>3. proc_list = << >> => pc' # "out" /\ last_pid' = initproc
    <3> SUFFICES ASSUME proc_list = << >>
                 PROVE  pc' # "out" /\ last_pid' = initproc
      OBVIOUS
    <3>1. (pc = "out" /\ last_pid = MAX_PID) \/ (pc # "out" /\ last_pid = initproc)
      BY DEF LinkInv, LinkTypes
    <3>2. le \in Nat \ {0} /\ Len(proc_list) = 0
      BY DEF IInv, TypeOK
    <3>3. CASE Call
      BY <3>1, <3>3, PidAssumption DEF Call, Rescan, initproc
    <3>4. CASE Scan
      BY <3>2, <3>4 DEF Scan
    <3>5. CASE Return
      BY <3>1, <3>5 DEF Return
    <3>6. QED
      BY <1>2, <3>3, <3>4, <3>5
  <2>4. LinkTypes'
    BY <1>2, <2>2, <2>3 DEF LinkInv, LinkTypes, LinkType, Used, table
  <2>5. QED
    BY <2>1, <2>4 DEF LinkInv
<1>3. ((Call /\ exiting = NULL) \/ Scan \/ Return) => UNCHANGED proc_list
  BY DEF Call, Scan, Return
<1>4. QED
  BY <1>1, <1>2, <1>3, ForkKeepsLinks, ExitKeepsLinks, GiveUpKeepsLinks, WaitKeepsLinks DEF TableNext

(* Nobody has a child at the start.                                        *)
LEMMA LinkInvInit == TableInit => LinkInv
<1> SUFFICES ASSUME TableInit
             PROVE  LinkInv
  OBVIOUS
<1>1. Used = {} /\ proc_list = << >> /\ pc = "out" /\ last_pid = MAX_PID /\ exiting = NULL /\ zombie = {}
  BY DEF TableInit, Init, Used
<1>2. \A p \in Pid : children[p] = << >> /\ \A f \in Field : links[f][p] = NULL
  BY DEF TableInit, Field
<1>3. << >> \in Seq(Pid) /\ ToSet(<< >>) = {} /\ Distinct(<< >>) /\ 1 .. Len(<< >>) = {}
  BY EmptySeq DEF ToSet, Distinct
<1>4. LinkTypes
  BY <1>1, <1>3 DEF TableInit, LinkTypes, LinkType, Field, Ptr
<1>5. Rows
  BY <1>2, <1>3 DEF Rows, Row, Field
<1>6. Members /\ Living
  BY <1>1, <1>2, <1>3 DEF Members, Living
<1>7. QED
  BY <1>4, <1>5, <1>6 DEF LinkInv

(* Both ways of finding a process stay exact: the lists of children that   *)
(* cptr, optr and yptr make, through fork, the adoptions of do_exit and    *)
(* do_wait, and the hash lists.                                            *)
THEOREM TableStaysExact == TableSpec => []TableExact
<1>1. TableInit => LinkInv
  BY LinkInvInit
<1>2. TableInv => IInv
  BY DEF TableInv
<1>3. TableInv /\ LinkInv => LinksExact
  BY <1>2, LinkInvExact
<1>4. TableSpec => [](LinksExact)
  BY <1>1, <1>2, <1>3, LinkInvStep, TableInvariant, PTL DEF TableSpec
<1>5. LinksExact /\ FindsExactly <=> TableExact
  BY DEF TableExact
<1>6. QED
  BY <1>4, <1>5, EveryPidFound, PTL

-----------------------------------------------------------------------------
(* The kernel heap.  Division finds the unit, and the page, that something *)
(* is in.                                                                  *)
LEMMA DivOrder ==
  ASSUME NEW a \in Nat, NEW k \in Nat, NEW d \in Nat \ {0}
  PROVE  /\ a \div d \in Nat
         /\ k <= a \div d <=> k * d <= a
<1> DEFINE q == a \div d
           r == a % d
<1>1. q \in Nat /\ r \in Nat /\ r < d /\ a = d * q + r
  BY DivMod
<1> HIDE DEF q, r
<1>2. d * q \in Nat /\ k * d \in Nat /\ q * d = d * q
  BY <1>1
<1>3. CASE k <= q
  <2>1. (q - k) * d >= 0
    BY <1>1, <1>3
  <2>2. (q - k) * d = q * d - k * d
    BY <1>1
  <2> QED  BY <1>1, <1>2, <1>3, <2>1, <2>2 DEF q
<1>4. CASE ~ (k <= q)
  <2>1. (k - (q + 1)) * d >= 0
    BY <1>1, <1>4
  <2>2. (k - (q + 1)) * d = k * d - q * d - d
    BY <1>1
  <2> QED  BY <1>1, <1>2, <1>4, <2>1, <2>2 DEF q
<1> QED  BY <1>1, <1>3, <1>4 DEF q

HeapMax == (NHeapPage + 1) * Slob!PAGE_UNITS - 1
Descriptor == Slob!SLOB_UNITS(BIGBLOCK)

(* What the constants of kmalloc.c are taken to be.                        *)
LEMMA HeapConstants ==
  /\ SLOB_UNIT \in Nat \ {0} /\ PAGE_SIZE \in Nat \ {0} /\ BIGBLOCK \in Nat \ {0} /\ NHeapPage \in Nat \ {0}
  /\ Slob!PAGE_UNITS \in Nat /\ Slob!PAGE_UNITS > 2 /\ PAGE_SIZE = Slob!PAGE_UNITS * SLOB_UNIT
  /\ HeapMax \in Nat /\ HeapMax + 1 = (NHeapPage + 1) * Slob!PAGE_UNITS
  /\ Slob!Unit = 0 .. HeapMax /\ Slob!Page = 1 .. NHeapPage
  /\ BlockSize \subseteq Nat \ {0}
  /\ BIGBLOCK > SLOB_UNIT /\ BIGBLOCK + SLOB_UNIT < PAGE_SIZE
<1>1. /\ SLOB_UNIT \in Nat \ {0} /\ PAGE_SIZE \in Nat \ {0} /\ BIGBLOCK \in Nat \ {0} /\ NHeapPage \in Nat \ {0}
      /\ BIGBLOCK > SLOB_UNIT /\ BIGBLOCK + SLOB_UNIT < PAGE_SIZE
      /\ Slob!PAGE_UNITS > 2 /\ PAGE_SIZE = Slob!PAGE_UNITS * SLOB_UNIT
      /\ BlockSize \subseteq Nat \ {0}
  BY KernelPartsAssumption DEF Slob!SlobHeapAssumption
<1>2. Slob!PAGE_UNITS \in Nat
  BY <1>1, DivOrder DEF Slob!PAGE_UNITS
<1>3. (NHeapPage + 1) * Slob!PAGE_UNITS \in Nat \ {0}
  BY <1>1, <1>2
<1>4. HeapMax \in Nat /\ HeapMax + 1 = (NHeapPage + 1) * Slob!PAGE_UNITS
  BY <1>3 DEF HeapMax
<1> QED  BY <1>1, <1>2, <1>4 DEF HeapMax, Slob!Unit, Slob!Page

(* A block of the heap has two units or more, and fewer than a page has.   *)
LEMMA UnitsNeeded ==
  ASSUME NEW s \in Nat, s > SLOB_UNIT, s + SLOB_UNIT < PAGE_SIZE
  PROVE  Slob!SLOB_UNITS(s) \in Nat /\ Slob!SLOB_UNITS(s) >= 2 /\ Slob!SLOB_UNITS(s) < Slob!PAGE_UNITS
<1> DEFINE a == s + SLOB_UNIT - 1
<1>1. SLOB_UNIT \in Nat \ {0} /\ PAGE_SIZE \in Nat /\ Slob!PAGE_UNITS \in Nat /\ PAGE_SIZE = Slob!PAGE_UNITS * SLOB_UNIT
  BY HeapConstants
<1>2. a \in Nat /\ 2 * SLOB_UNIT <= a /\ ~ (PAGE_SIZE <= a)
  BY <1>1
<1>3. Slob!SLOB_UNITS(s) = a \div SLOB_UNIT
  BY DEF Slob!SLOB_UNITS
<1> HIDE DEF a
<1>4. a \div SLOB_UNIT \in Nat /\ 2 <= a \div SLOB_UNIT
  BY <1>1, <1>2, DivOrder
<1>5. ~ (Slob!PAGE_UNITS <= a \div SLOB_UNIT)
  BY <1>1, <1>2, DivOrder
<1> QED  BY ONLY <1>1, <1>3, <1>4, <1>5

(* So has a descriptor of pages.                                           *)
LEMMA DescriptorUnits ==
  Descriptor \in Nat /\ Descriptor >= 2 /\ Descriptor < Slob!PAGE_UNITS
BY HeapConstants, UnitsNeeded DEF Descriptor

(* So has a small block with its header, and room for what was asked for.  *)
LEMMA SmallUnits ==
  ASSUME NEW size \in BlockSize, size + 2 * SLOB_UNIT < PAGE_SIZE
  PROVE  /\ Slob!Need(size) \in Nat /\ Slob!Need(size) >= 2 /\ Slob!Need(size) < Slob!PAGE_UNITS
         /\ (size - 1) \div SLOB_UNIT \in Nat /\ (size - 1) \div SLOB_UNIT + 2 <= Slob!Need(size)
<1>1. SLOB_UNIT \in Nat \ {0} /\ PAGE_SIZE \in Nat /\ size \in Nat \ {0}
  BY HeapConstants
<1>2. PICK s \in Nat : s = size + SLOB_UNIT
  BY <1>1
<1>3. s > SLOB_UNIT /\ s + SLOB_UNIT < PAGE_SIZE /\ Slob!Need(size) = Slob!SLOB_UNITS(s)
  BY <1>1, <1>2 DEF Slob!Need
<1>4. Slob!Need(size) \in Nat /\ Slob!Need(size) >= 2 /\ Slob!Need(size) < Slob!PAGE_UNITS
  BY <1>3, UnitsNeeded
<1>5. PICK a \in Nat : a = size - 1
  BY <1>1
<1>6. PICK k \in Nat : k = a \div SLOB_UNIT
  BY <1>1, DivOrder
<1>7. k * SLOB_UNIT <= a
  BY <1>1, <1>6, DivOrder
<1>8. PICK c \in Nat : c = s + SLOB_UNIT - 1
  BY <1>1
<1>9. (k + 2) * SLOB_UNIT <= c
  <2>1. (k + 2) * SLOB_UNIT = k * SLOB_UNIT + 2 * SLOB_UNIT
    BY <1>1
  <2>2. c = a + 2 * SLOB_UNIT
    BY <1>1, <1>2, <1>5, <1>8
  <2>3. k * SLOB_UNIT \in Nat
    BY <1>1
  <2> QED  BY ONLY <1>1, <1>7, <2>1, <2>2, <2>3, a \in Nat
<1>10. k + 2 <= c \div SLOB_UNIT
  <2>1. k + 2 \in Nat
    OBVIOUS
  <2> QED  BY <1>1, <1>9, <2>1, DivOrder
<1>11. Slob!Need(size) = c \div SLOB_UNIT
  BY <1>3, <1>8 DEF Slob!SLOB_UNITS
<1> QED  BY <1>4, <1>5, <1>6, <1>10, <1>11

(* The units of pages.                                                     *)
PageUnits(P) == Slob!UnitsOf(P)

(* They are counted like the pages.                                        *)
LEMMA PageUnitsFacts ==
  ASSUME NEW P, NEW Q
  PROVE  /\ PageUnits(P \cup Q) = PageUnits(P) \cup PageUnits(Q)
         /\ PageUnits(P \ Q) = PageUnits(P) \ PageUnits(Q)
         /\ Q \subseteq P => PageUnits(Q) \subseteq PageUnits(P)
         /\ P \subseteq Slob!Page => 0 \notin PageUnits(P)
         /\ PageUnits(P) \subseteq 0 .. HeapMax
         /\ PageUnits({}) = {}
<1>1. \A R, u : u \in PageUnits(R) <=> u \in Slob!Unit /\ u \div Slob!PAGE_UNITS \in R
  BY DEF PageUnits, Slob!UnitsOf
<1>2. Slob!Unit = 0 .. HeapMax /\ Slob!Page = 1 .. NHeapPage
  BY HeapConstants
<1>3. 0 \div Slob!PAGE_UNITS = 0
  <2>1. Slob!PAGE_UNITS \in Nat \ {0}
    BY HeapConstants
  <2>2. PICK q \in Nat : q = 0 \div Slob!PAGE_UNITS
    BY <2>1, DivOrder
  <2>3. 1 <= q <=> 1 * Slob!PAGE_UNITS <= 0
    BY <2>1, <2>2, DivOrder
  <2>4. ~ (1 * Slob!PAGE_UNITS <= 0)
    BY <2>1
  <2> QED  BY ONLY <2>2, <2>3, <2>4, q \in Nat
<1>4. 0 \notin Slob!Page
  BY <1>2
<1>5. PageUnits(P \cup Q) = PageUnits(P) \cup PageUnits(Q)
  BY ONLY <1>1
<1>6. PageUnits(P \ Q) = PageUnits(P) \ PageUnits(Q)
  BY ONLY <1>1
<1>7. Q \subseteq P => PageUnits(Q) \subseteq PageUnits(P)
  BY ONLY <1>1
<1>8. P \subseteq Slob!Page => 0 \notin PageUnits(P)
  BY ONLY <1>1, <1>3, <1>4
<1>9. PageUnits(P) \subseteq 0 .. HeapMax
  BY ONLY <1>1, <1>2
<1>10. PageUnits({}) = {}
  BY ONLY <1>1
<1> QED  BY ONLY <1>5, <1>6, <1>7, <1>8, <1>9, <1>10

(* The units of a run of m pages lie from its first unit on.               *)
LEMMA PageUnitsOfRun ==
  ASSUME NEW p \in Nat, NEW m \in Nat, p >= 1, m >= 1, Span(p, m) \subseteq Slob!Page
  PROVE  /\ p * Slob!PAGE_UNITS \in Nat /\ p * Slob!PAGE_UNITS > 1 /\ p \in Slob!Page
         /\ p * Slob!PAGE_UNITS + m * Slob!PAGE_UNITS - 1 <= HeapMax
         /\ \A u \in Nat : u \in PageUnits(Span(p, m))
                           <=> p * Slob!PAGE_UNITS <= u /\ u < p * Slob!PAGE_UNITS + m * Slob!PAGE_UNITS
<1>1. PICK U \in Nat : U = Slob!PAGE_UNITS /\ U > 2
  BY HeapConstants
<1>2. HeapMax \in Nat /\ HeapMax + 1 = (NHeapPage + 1) * U /\ Slob!Unit = 0 .. HeapMax
      /\ Slob!Page = 1 .. NHeapPage /\ NHeapPage \in Nat
  BY <1>1, HeapConstants
<1>3. p \in Slob!Page /\ p + m - 1 \in Slob!Page
  BY DEF Span
<1>4. p + m <= NHeapPage + 1
  BY <1>2, <1>3
<1>5. p * U \in Nat /\ m * U \in Nat /\ (p + m) * U = p * U + m * U /\ (p + m) * U \in Nat
  BY ONLY <1>1, p \in Nat, m \in Nat, U \in Nat
<1>6. p * U > 1
  <2>1. (p - 1) * U >= 0
    BY ONLY <1>1, p \in Nat, p >= 1, U \in Nat
  <2>2. (p - 1) * U = p * U - U
    BY ONLY p \in Nat, U \in Nat
  <2> QED  BY ONLY <1>1, <1>5, <2>1, <2>2, U \in Nat
<1>7. (p + m) * U <= HeapMax + 1
  <2>1. (NHeapPage + 1 - (p + m)) * U >= 0
    BY ONLY <1>1, <1>2, <1>4, p \in Nat, m \in Nat, U \in Nat
  <2>2. (NHeapPage + 1 - (p + m)) * U = (NHeapPage + 1) * U - (p + m) * U
    BY ONLY <1>2, p \in Nat, m \in Nat, U \in Nat
  <2> QED  BY ONLY <1>2, <1>5, <2>1, <2>2, U \in Nat
<1>8. ASSUME NEW u \in Nat
      PROVE  u \in PageUnits(Span(p, m)) <=> p * U <= u /\ u < p * U + m * U
  <2>1. PICK q \in Nat : q = u \div U
    BY <1>1, DivOrder
  <2>2. p <= q <=> p * U <= u
    BY <1>1, <2>1, DivOrder
  <2>3. p + m <= q <=> (p + m) * U <= u
    <3>1. p + m \in Nat
      OBVIOUS
    <3> QED  BY <1>1, <2>1, <3>1, DivOrder
  <2>4. u \in PageUnits(Span(p, m)) <=> u \in 0 .. HeapMax /\ q \in p .. p + m - 1
    BY <1>1, <1>2, <2>1 DEF PageUnits, Slob!UnitsOf, Span
  <2>5. q \in p .. p + m - 1 <=> p <= q /\ ~ (p + m <= q)
    BY ONLY q \in Nat, p \in Nat, m \in Nat
  <2> QED  BY ONLY <1>2, <1>5, <1>7, <2>2, <2>3, <2>4, <2>5, u \in Nat
<1>9. p * U + m * U - 1 <= HeapMax
  BY ONLY <1>2, <1>5, <1>7
<1> QED  BY <1>1, <1>3, <1>5, <1>6, <1>8, <1>9

(* The units of one page.                                                  *)
LEMMA UnitsOfPage ==
  ASSUME NEW p \in Slob!Page
  PROVE  /\ p * Slob!PAGE_UNITS \in Nat /\ p * Slob!PAGE_UNITS > 1
         /\ p * Slob!PAGE_UNITS + Slob!PAGE_UNITS - 1 <= HeapMax
         /\ PageUnits({p}) = Span(p * Slob!PAGE_UNITS, Slob!PAGE_UNITS)
<1>1. p \in Nat /\ p >= 1 /\ Span(p, 1) = {p} /\ Slob!PAGE_UNITS \in Nat
  BY HeapConstants DEF Span
<1>2. PICK m \in Nat : m = 1
  OBVIOUS
<1>3. m >= 1 /\ Span(p, m) \subseteq Slob!Page /\ Span(p, m) = {p} /\ m * Slob!PAGE_UNITS = Slob!PAGE_UNITS
  BY <1>1, <1>2
<1>4. /\ p * Slob!PAGE_UNITS \in Nat /\ p * Slob!PAGE_UNITS > 1
      /\ p * Slob!PAGE_UNITS + m * Slob!PAGE_UNITS - 1 <= HeapMax
      /\ \A u \in Nat : u \in PageUnits(Span(p, m))
                        <=> p * Slob!PAGE_UNITS <= u /\ u < p * Slob!PAGE_UNITS + m * Slob!PAGE_UNITS
  BY <1>1, <1>3, PageUnitsOfRun
<1>5. PICK a \in Nat : a = p * Slob!PAGE_UNITS
  BY <1>4
<1>6. PICK U \in Nat : U = Slob!PAGE_UNITS
  BY <1>1
<1>7. PageUnits({p}) \subseteq Nat
  <2>1. PageUnits({p}) \subseteq 0 .. HeapMax
    BY PageUnitsFacts
  <2> QED  BY ONLY <2>1
<1>8. PageUnits({p}) = a .. a + U - 1
  <2>1. \A u \in Nat : u \in PageUnits({p}) <=> a <= u /\ u < a + U
    BY ONLY <1>3, <1>4, <1>5, <1>6
  <2>2. \A u : u \in a .. a + U - 1 <=> u \in Nat /\ a <= u /\ u < a + U
    BY ONLY a \in Nat, U \in Nat
  <2> QED  BY ONLY <1>7, <2>1, <2>2
<1> QED  BY ONLY <1>3, <1>4, <1>5, <1>6, <1>8 DEF Span

(* A power of two that is large enough for a block.                        *)
LEMMA EnoughPages ==
  ASSUME NEW size \in BlockSize, NEW m, m = 2 ^ Slob!find_order[size]
  PROVE  /\ Slob!find_order[size] \in Nat /\ m \in Nat /\ m >= 1
         /\ (size - 1) \div SLOB_UNIT \in Nat
         /\ (size - 1) \div SLOB_UNIT < m * Slob!PAGE_UNITS
<1>1. PICK k \in Nat : k = Slob!find_order[size] /\ size <= PAGE_SIZE * 2 ^ k
  BY KernelPartsAssumption DEF Slob!SlobHeapAssumption
<1>2. PICK s \in Nat : s = size /\ s > 0
  BY HeapConstants
<1>3. PICK U \in Nat : U = Slob!PAGE_UNITS
  BY HeapConstants
<1>4. PICK d \in Nat \ {0} : d = SLOB_UNIT
  BY HeapConstants
<1>5. m \in Int
  BY <1>1
<1>6. PICK M \in Int : M = m
  BY <1>5
<1>7. s <= (U * d) * M
  BY <1>1, <1>2, <1>3, <1>4, <1>6, HeapConstants
<1>8. U * d \in Nat
  OBVIOUS
<1>9. M >= 1
  <2>1. CASE M <= 0
    <3>1. (U * d) * M <= 0
      BY ONLY <1>8, <2>1, M \in Int
    <3> QED  BY <1>2, <1>7, <3>1
  <2> QED  BY <2>1
<1>10. PICK a \in Nat : a = s - 1
  BY <1>2
<1>11. M * U \in Nat /\ (M * U) * d = (U * d) * M
  BY <1>9
<1>12. ~ ((M * U) * d <= a)
  BY <1>7, <1>8, <1>10, <1>11
<1>13. a \div d \in Nat /\ ~ (M * U <= a \div d)
  BY <1>11, <1>12, DivOrder
<1> QED  BY <1>1, <1>2, <1>3, <1>4, <1>6, <1>9, <1>10, <1>11, <1>13

(* The least index that SelectInSeq takes is one of them.                  *)
LEMMA SlobMin ==
  ASSUME NEW I \in SUBSET Nat, I # {}
  PROVE  Slob!Min(I) \in I
<1>1. Slob!Min(I) = Min(I)
  BY DEF Slob!Min, Min
<1> QED  BY <1>1, MinProperties

(* slob_free finds a place for a block that is not on the list.            *)
LEMMA SlobPlace ==
  ASSUME NEW l, NEW f, FreeHeap(HeapMax, l, f), NEW b \in Nat, b \notin ToSet(l), NEW k, k = Slob!PlaceOf(l, b)
  PROVE  k \in 1 .. Len(l) /\ Between(l[k], b, l[(k % Len(l)) + 1])
<1> DEFINE n == Len(l)
           q == [i \in DOMAIN l |-> <<l[i], l[(i % n) + 1]>>]
           I == {i \in 1 .. Len(q) : Between(q[i][1], b, q[i][2])}
<1>1. l \in Seq(0 .. HeapMax) /\ l # << >> /\ n \in Nat \ {0} /\ HeapMax \in Nat
  BY HeapFacts, HeapConstants DEF FreeHeap
<1>2. DOMAIN l = 1 .. n
  BY <1>1, LenProperties
<1>3. Len(q) = n /\ \A i \in 1 .. n : q[i][1] = l[i] /\ q[i][2] = l[(i % n) + 1]
  <2>1. q = [i \in 1 .. n |-> <<l[i], l[(i % n) + 1]>>]
    BY <1>2
  <2> HIDE DEF q, n
  <2> QED  BY <1>1, <2>1
<1>4. \E i \in 1 .. n : Between(l[i], b, l[(i % n) + 1])
  BY <1>1, CircularHasPlace
<1>5. k = IF I # {} THEN Slob!Min(I) ELSE 0
  BY DEF Slob!PlaceOf, Slob!SelectInSeq, Slob!Before, Between
<1>6. I = {i \in 1 .. n : Between(l[i], b, l[(i % n) + 1])}
  <2> HIDE DEF q, n
  <2> QED  BY <1>3
<1> HIDE DEF I, q, n
<1>7. I # {} /\ I \in SUBSET Nat
  BY <1>4, <1>6
<1>8. k \in I
  BY <1>5, <1>7, SlobMin
<1> QED  BY <1>6, <1>8 DEF n

(* slob_free: the run is free, and no length elsewhere has changed.        *)
Heap(h) == FreeHeap(HeapMax, h.list, h.units)
FreeOf(h) == Covered(ToSet(h.list), h.units)
Same(h, r, F) == \A u \in 0 .. HeapMax : u \notin F => r.units[u] = h.units[u]

(* slob_free of n units at b.                                              *)
LEMMA SlobFreed ==
  ASSUME NEW h, Heap(h), NEW b \in Nat, b > 1, NEW n \in Nat \ {0}, b + n - 1 <= HeapMax,
         Span(b, n) \cap FreeOf(h) = {}, NEW r, r = Slob!SlobFree(h, b, n)
  PROVE  /\ Heap(r) /\ FreeOf(r) = FreeOf(h) \cup Span(b, n)
         /\ \E x \in ToSet(r.list) : r.units[x] >= n
         /\ Same(h, r, FreeOf(r))
         /\ r = [list |-> r.list, units |-> r.units]
<1>1. PICK l : l = h.list
  OBVIOUS
<1>2. PICK f : f = h.units
  OBVIOUS
<1>3. FreeHeap(HeapMax, l, f) /\ HeapMax \in Nat
  BY <1>1, <1>2, HeapConstants DEF Heap
<1>4. FreeOf(h) = Covered(ToSet(l), f)
  BY <1>1, <1>2 DEF FreeOf
<1>5. b \notin ToSet(l)
  <2>1. b \in Span(b, n)
    BY DEF Span
  <2>2. ToSet(l) \subseteq Covered(ToSet(l), f)
    BY <1>3, HeapFacts
  <2> QED  BY ONLY <1>4, <2>1, <2>2, Span(b, n) \cap FreeOf(h) = {}
<1>6. PICK k : k = Slob!PlaceOf(l, b)
  OBVIOUS
<1>7. k \in 1 .. Len(l) /\ Between(l[k], b, l[(k % Len(l)) + 1])
  BY <1>3, <1>5, <1>6, SlobPlace
<1>8. PICK s : s = Turned(l, k)
  OBVIOUS
<1>9. IsTurned(l, k, s)
  <2>1. l \in Seq(Nat)
    BY <1>3, HeapFacts
  <2> QED  BY ONLY <1>7, <1>8, <2>1, TurnedProperties
<1>10. /\ FreeHeap(HeapMax, s, f) /\ ToSet(s) = ToSet(l) /\ Len(s) = Len(l) /\ s[1] = l[k]
       /\ Len(s) > 1 => s[2] = l[(k % Len(l)) + 1]
       /\ Len(s) = 1 => s[1] = l[(k % Len(l)) + 1]
  BY ONLY <1>3, <1>7, <1>9, HeapTurns
<1>11. Clear(s, f, b, n)
  BY ONLY <1>4, <1>10, Span(b, n) \cap FreeOf(h) = {} DEF Clear, Span
<1>12. Behind(s, b)
  <2>1. PICK next : next = l[(k % Len(l)) + 1]
    OBVIOUS
  <2>2. (Len(s) > 1 => s[2] = next) /\ (Len(s) = 1 => s[1] = next) /\ Between(s[1], b, next)
    BY ONLY <1>7, <1>10, <2>1
  <2> QED  BY ONLY <1>3, <1>10, <1>11, <2>2, b \in Nat, n \in Nat \ {0}, HeapPlaces
<1>13. PICK t : t = FreedList(s, f, b, n)
  OBVIOUS
<1>14. PICK g : g = FreedUnits(HeapMax, s, f, b, n)
  OBVIOUS
<1>15. IsFreed(HeapMax, s, f, b, n, t, g)
  <2>1. IsFreed(HeapMax, s, f, b, n, FreedList(s, f, b, n), FreedUnits(HeapMax, s, f, b, n))
    BY ONLY <1>3, <1>10, <1>11, <1>12, b \in Nat, b > 1, n \in Nat \ {0}, b + n - 1 <= HeapMax, FreedIsFreed
  <2> QED  BY ONLY <1>13, <1>14, <2>1
<1>16. /\ FreeHeap(HeapMax, t, g)
       /\ Covered(ToSet(t), g) = Covered(ToSet(s), f) \cup Span(b, n)
       /\ \E x \in ToSet(t) : g[x] >= n
       /\ \A u \in 0 .. HeapMax : u \notin Covered(ToSet(t), g) => g[u] = f[u]
  BY ONLY <1>3, <1>10, <1>11, <1>12, <1>15, b \in Nat, b > 1, n \in Nat \ {0}, b + n - 1 <= HeapMax, HeapFrees
<1>17. r = [list |-> t, units |-> g]
  <2>1. Slob!Rotate(l, k) = s
    BY ONLY <1>8 DEF Slob!Rotate, Turned
  <2>2. Slob!Unit = 0 .. HeapMax
    BY HeapConstants
  <2> DEFINE up == Len(s) > 1 /\ b + n = s[2]
             size == IF up THEN n + f[s[2]] ELSE n
             tail == SubSeq(s, IF up THEN 3 ELSE 2, Len(s))
             apart == [u \in Slob!Unit |-> IF u = b THEN size ELSE IF up /\ u = s[2] THEN 0 ELSE f[u]]
  <2>3. r = IF s[1] + f[s[1]] = b
            THEN [list |-> <<s[1]>> \o tail, units |-> [apart EXCEPT ![s[1]] = @ + size, ![b] = 0]]
            ELSE [list |-> <<s[1], b>> \o tail, units |-> apart]
    BY ONLY r = Slob!SlobFree(h, b, n), <1>1, <1>2, <1>6, <2>1 DEF Slob!SlobFree
  <2>4. up <=> JoinsNext(s, b, n)
    BY DEF JoinsNext
  <2>5. size = FreedSize(s, f, b, n)
    BY ONLY <2>4 DEF FreedSize
  <2>6. tail = SubSeq(s, IF JoinsNext(s, b, n) THEN 3 ELSE 2, Len(s))
    BY ONLY <2>4
  <2>7. apart = ApartUnits(HeapMax, s, f, b, n)
    <3> HIDE DEF size, up
    <3> QED  BY ONLY <2>2, <2>4, <2>5 DEF ApartUnits
  <2> HIDE DEF up, size, tail, apart
  <2>8. t = IF s[1] + f[s[1]] = b THEN <<s[1]>> \o tail ELSE <<s[1], b>> \o tail
    BY ONLY <1>13, <2>6 DEF FreedList, JoinsCur
  <2>9. g = IF s[1] + f[s[1]] = b THEN [apart EXCEPT ![s[1]] = @ + size, ![b] = 0] ELSE apart
    BY ONLY <1>14, <2>5, <2>7 DEF FreedUnits, JoinsCur
  <2>10. CASE s[1] + f[s[1]] = b
    BY ONLY <2>3, <2>8, <2>9, <2>10
  <2>11. CASE ~ (s[1] + f[s[1]] = b)
    BY ONLY <2>3, <2>8, <2>9, <2>11
  <2> QED  BY ONLY <2>10, <2>11
<1>18. r.list = t /\ r.units = g
  BY ONLY <1>17
<1>19. Heap(r) /\ FreeOf(r) = FreeOf(h) \cup Span(b, n)
  BY ONLY <1>4, <1>10, <1>16, <1>18 DEF Heap, FreeOf
<1>20. Same(h, r, FreeOf(r))
  BY ONLY <1>2, <1>16, <1>18 DEF Same, FreeOf
<1> QED  BY ONLY <1>16, <1>17, <1>18, <1>19, <1>20

(* slob_alloc finds a block that is long enough, if there is one.          *)
LEMMA SlobFit ==
  ASSUME NEW h, Heap(h), NEW n, NEW l, l = Turned(h.list, 2), NEW k, k = Slob!Fit(h, n)
  PROVE  /\ FreeHeap(HeapMax, l, h.units) /\ ToSet(l) = ToSet(h.list)
         /\ k = 0 => \A x \in ToSet(h.list) : ~ (h.units[x] >= n)
         /\ k # 0 => k \in 1 .. Len(l) /\ h.units[l[k]] >= n
<1>1. FreeHeap(HeapMax, h.list, h.units) /\ HeapMax \in Nat
  BY HeapConstants DEF Heap
<1>2. h.list \in Seq(Nat) /\ h.list # << >> /\ Len(h.list) \in Nat \ {0}
  BY <1>1, HeapFacts
<1>3. FreeHeap(HeapMax, l, h.units) /\ ToSet(l) = ToSet(h.list)
  <2>1. CASE Len(h.list) = 1
    <3>1. IsTurned(h.list, 1, l)
      <4>1. Len(h.list) + 1 = 2
        BY ONLY <2>1
      <4>2. IsTurned(h.list, 1, Turned(h.list, Len(h.list) + 1))
        BY ONLY <1>2, TurnedWhole
      <4> QED  BY ONLY <4>1, <4>2, l = Turned(h.list, 2)
    <3>2. 1 \in 1 .. Len(h.list)
      BY <2>1
    <3> QED  BY ONLY <1>1, <3>1, <3>2, HeapTurns
  <2>2. CASE Len(h.list) # 1
    <3>1. 2 \in 1 .. Len(h.list)
      <4>1. PICK m \in Nat \ {0} : m = Len(h.list)
        BY <1>2
      <4>2. m # 1
        BY ONLY <2>2, <4>1
      <4>3. 2 \in 1 .. m
        BY <4>2
      <4> QED  BY ONLY <4>1, <4>3
    <3>2. IsTurned(h.list, 2, l)
      BY ONLY <1>2, <3>1, l = Turned(h.list, 2), TurnedProperties
    <3> QED  BY ONLY <1>1, <3>1, <3>2, HeapTurns
  <2> QED  BY <2>1, <2>2
<1>4. l \in Seq(Nat) /\ Len(l) \in Nat
  BY <1>1, <1>3, HeapFacts
<1>5. DOMAIN l = 1 .. Len(l)
  BY <1>4, LenProperties
<1> DEFINE I == {i \in 1 .. Len(l) : h.units[l[i]] >= n}
<1>6. k = IF I # {} THEN Slob!Min(I) ELSE 0
  <2>1. Slob!Rotate(h.list, 2) = l
    BY DEF Slob!Rotate, Turned
  <2> QED  BY ONLY <2>1, k = Slob!Fit(h, n) DEF Slob!Fit, Slob!SelectInSeq
<1>7. I \in SUBSET Nat /\ 0 \notin I
  BY <1>4
<1>8. I = {} => k = 0
  BY ONLY <1>6
<1>9. I # {} => k \in I
  <2> HIDE DEF I
  <2> QED  BY <1>6, <1>7, SlobMin
<1>10. k = 0 => \A x \in ToSet(l) : ~ (h.units[x] >= n)
  <2>1. ASSUME k = 0, NEW x \in ToSet(l)
        PROVE  ~ (h.units[x] >= n)
    <3>1. PICK i \in 1 .. Len(l) : x = l[i]
      BY ONLY <1>5, x \in ToSet(l) DEF ToSet
    <3>2. I = {}
      BY ONLY <1>7, <1>9, <2>1
    <3> QED  BY <3>1, <3>2
  <2> QED  BY <2>1
<1>11. k # 0 => k \in 1 .. Len(l) /\ h.units[l[k]] >= n
  BY ONLY <1>8, <1>9
<1> QED  BY ONLY <1>3, <1>10, <1>11

(* The first n units of a block are taken off the list.                    *)
TakenFrom(h, r, n, at) ==
  /\ Heap(r) /\ FreeOf(r) = FreeOf(h) \ Span(at, n) /\ Span(at, n) \subseteq FreeOf(h)
  /\ at > 1 /\ at \in 0 .. HeapMax /\ r.units[at] = n
  /\ Same(h, r, FreeOf(h))
  /\ r = [list |-> r.list, units |-> r.units]

(* slob_alloc of n units, where the list has that many in a row.           *)
LEMMA SlobTaken ==
  ASSUME NEW h, Heap(h), NEW n \in Nat, n >= 2, \E x \in ToSet(h.list) : h.units[x] >= n,
         NEW c, c = Slob!Cut(h, n)
  PROVE  TakenFrom(h, c.heap, n, c.at) /\ Slob!Fit(h, n) # 0
<1>1. PICK l : l = Turned(h.list, 2)
  OBVIOUS
<1>2. PICK k : k = Slob!Fit(h, n)
  OBVIOUS
<1>3. PICK f : f = h.units
  OBVIOUS
<1>4. /\ FreeHeap(HeapMax, l, f) /\ ToSet(l) = ToSet(h.list)
      /\ k = 0 => \A x \in ToSet(h.list) : ~ (f[x] >= n)
      /\ k # 0 => k \in 1 .. Len(l) /\ f[l[k]] >= n
  BY ONLY <1>1, <1>2, <1>3, Heap(h), SlobFit
<1>5. k \in 1 .. Len(l) /\ f[l[k]] >= n /\ k # 0
  BY <1>3, <1>4
<1>6. HeapMax \in Nat
  BY HeapConstants
<1>7. PICK a : a = Turned(l, k)
  OBVIOUS
<1>8. IsTurned(l, k, a)
  <2>1. l \in Seq(Nat)
    BY <1>4, <1>6, HeapFacts
  <2> QED  BY ONLY <1>5, <1>7, <2>1, TurnedProperties
<1>9. FreeHeap(HeapMax, a, f) /\ ToSet(a) = ToSet(l) /\ a[1] = l[k]
  BY ONLY <1>4, <1>5, <1>6, <1>8, HeapTurns
<1>10. n \in Nat \ {0} /\ a[1] # 0 /\ f[a[1]] >= n
  <2>1. f[0] = 1
    BY <1>9 DEF FreeHeap
  <2> QED  BY <1>5, <1>9, <2>1
<1>11. PICK t : t = TakenList(a, f, n)
  OBVIOUS
<1>12. PICK g : g = TakenUnits(HeapMax, a, f, n)
  OBVIOUS
<1>13. /\ FreeHeap(HeapMax, t, g)
       /\ Covered(ToSet(t), g) = Covered(ToSet(a), f) \ Span(a[1], n)
       /\ Span(a[1], n) \subseteq Covered(ToSet(a), f)
       /\ a[1] > 1 /\ a[1] \in 0 .. HeapMax /\ g[a[1]] = n
       /\ \A u \in 0 .. HeapMax : u \notin Covered(ToSet(a), f) => g[u] = f[u]
  BY ONLY <1>6, <1>9, <1>10, <1>11, <1>12, TakenHeap
<1>14. c.at = a[1] /\ c.heap = [list |-> t, units |-> g]
  <2>1. Slob!Rotate(h.list, 2) = l /\ Slob!Rotate(l, k) = a
    BY ONLY <1>1, <1>7 DEF Slob!Rotate, Turned
  <2>2. Slob!Unit = 0 .. HeapMax
    BY HeapConstants
  <2> DEFINE left == f[a[1]] - n
             more == IF left = 0 THEN << >> ELSE <<a[1] + n>>
             units == [u \in Slob!Unit |-> IF u = a[1] THEN n ELSE IF u = a[1] + n /\ left > 0 THEN left ELSE f[u]]
  <2>3. Slob!Carve(h, n, l, k) = [at |-> a[1], list |-> more, units |-> units]
    BY ONLY <1>3, <1>9 DEF Slob!Carve
  <2>4. c = [at |-> Slob!Carve(h, n, l, k).at,
             heap |-> [list |-> <<a[Len(a)]>> \o Slob!Carve(h, n, l, k).list \o SubSeq(a, 2, Len(a) - 1),
                       units |-> Slob!Carve(h, n, l, k).units]]
    BY ONLY c = Slob!Cut(h, n), <1>2, <2>1 DEF Slob!Cut, Slob!Last
  <2>5. t = <<a[Len(a)]>> \o more \o SubSeq(a, 2, Len(a) - 1)
    BY ONLY <1>11 DEF TakenList
  <2>6. g = units
    BY ONLY <1>12, <2>2 DEF TakenUnits
  <2> HIDE DEF more, units
  <2> QED  BY ONLY <2>3, <2>4, <2>5, <2>6
<1>15. c.heap.list = t /\ c.heap.units = g
  BY ONLY <1>14
<1>16. FreeOf(h) = Covered(ToSet(a), f)
  BY ONLY <1>3, <1>4, <1>9 DEF FreeOf
<1>17. FreeOf(c.heap) = Covered(ToSet(t), g) /\ Heap(c.heap)
  BY ONLY <1>13, <1>15 DEF FreeOf, Heap
<1>18. Same(h, c.heap, FreeOf(h))
  BY ONLY <1>3, <1>13, <1>15, <1>16 DEF Same
<1> QED  BY ONLY <1>2, <1>5, <1>13, <1>14, <1>15, <1>16, <1>17, <1>18 DEF TakenFrom

(* slob_alloc takes n units at a.at from the list, to which it has added   *)
(* the units of the pages Q: one page if nothing on the list would do.     *)
Obtained(h, P, n, a, Q) ==
  /\ Q \subseteq P /\ a.pages = P \ Q
  /\ Q # {} => \A x \in ToSet(h.list) : ~ (h.units[x] >= n)
  /\ Heap(a.heap) /\ a.heap = [list |-> a.heap.list, units |-> a.heap.units]
  /\ FreeOf(a.heap) = (FreeOf(h) \cup PageUnits(Q)) \ Span(a.at, n)
  /\ Span(a.at, n) \subseteq FreeOf(h) \cup PageUnits(Q)
  /\ a.at > 1 /\ a.at \in 0 .. HeapMax /\ a.heap.units[a.at] = n
  /\ Same(h, a.heap, FreeOf(h) \cup PageUnits(Q))

(* slob_alloc, from the list or from a new page.                           *)
LEMMA SlobAllocated ==
  ASSUME NEW h, Heap(h), NEW P \in SUBSET Slob!Page, FreeOf(h) \cap PageUnits(P) = {},
         NEW n \in Nat, n >= 2, n < Slob!PAGE_UNITS,
         NEW a \in Slob!SlobAlloc(h, P, n)
  PROVE  \E Q : Obtained(h, P, n, a, Q)
<1>1. PICK k : k = Slob!Fit(h, n)
  OBVIOUS
<1>2. /\ k = 0 => \A x \in ToSet(h.list) : ~ (h.units[x] >= n)
      /\ k # 0 => \E x \in ToSet(h.list) : h.units[x] >= n
  <2>1. PICK l : l = Turned(h.list, 2)
    OBVIOUS
  <2>2. /\ FreeHeap(HeapMax, l, h.units) /\ ToSet(l) = ToSet(h.list)
        /\ k = 0 => \A x \in ToSet(h.list) : ~ (h.units[x] >= n)
        /\ k # 0 => k \in 1 .. Len(l) /\ h.units[l[k]] >= n
    BY ONLY <1>1, <2>1, Heap(h), SlobFit
  <2>3. \A j \in 1 .. Len(l) : l[j] \in ToSet(l)
    <3>1. HeapMax \in Nat
      BY HeapConstants
    <3> QED  BY ONLY <2>2, <3>1, HeapFacts
  <2> QED  BY ONLY <2>2, <2>3
<1>3. CASE k # 0
  <2>1. a = Slob!Allocated(Slob!Cut(h, n), P)
    BY ONLY <1>1, <1>3, a \in Slob!SlobAlloc(h, P, n) DEF Slob!SlobAlloc
  <2>2. PICK c : c = Slob!Cut(h, n)
    OBVIOUS
  <2>3. TakenFrom(h, c.heap, n, c.at)
    BY ONLY <1>2, <1>3, <2>2, Heap(h), n \in Nat, n >= 2, SlobTaken
  <2>4. a = [at |-> c.at, heap |-> c.heap, pages |-> P]
    BY ONLY <2>1, <2>2 DEF Slob!Allocated
  <2>5. a.at = c.at /\ a.heap = c.heap /\ a.pages = P
    BY ONLY <2>4
  <2>6. PageUnits({}) = {}
    BY PageUnitsFacts
  <2>7. FreeOf(h) \cup PageUnits({}) = FreeOf(h)
    BY ONLY <2>6
  <2>8. Obtained(h, P, n, a, {})
    BY ONLY <2>3, <2>5, <2>7 DEF Obtained, TakenFrom
  <2> QED  BY <2>8
<1>4. CASE k = 0
  <2>1. PICK p \in P : a = Slob!Allocated(Slob!Cut(Slob!SlobFree(h, p * Slob!PAGE_UNITS, Slob!PAGE_UNITS), n), P \ {p})
    BY ONLY <1>1, <1>4, a \in Slob!SlobAlloc(h, P, n) DEF Slob!SlobAlloc
  <2>2. PICK b : b = p * Slob!PAGE_UNITS
    OBVIOUS
  <2>3. PICK U \in Nat \ {0} : U = Slob!PAGE_UNITS
    BY HeapConstants
  <2>4. b \in Nat /\ b > 1 /\ b + U - 1 <= HeapMax /\ PageUnits({p}) = Span(b, U)
    <3>1. p \in Slob!Page
      OBVIOUS
    <3> QED  BY ONLY <2>2, <2>3, <3>1, UnitsOfPage
  <2>5. Span(b, U) \cap FreeOf(h) = {}
    <3>1. PageUnits({p}) \subseteq PageUnits(P)
      BY PageUnitsFacts
    <3> QED  BY ONLY <2>4, <3>1, FreeOf(h) \cap PageUnits(P) = {}
  <2>6. PICK r : r = Slob!SlobFree(h, b, U)
    OBVIOUS
  <2>7. /\ Heap(r) /\ FreeOf(r) = FreeOf(h) \cup Span(b, U)
        /\ \E x \in ToSet(r.list) : r.units[x] >= U
        /\ Same(h, r, FreeOf(r))
    BY ONLY <2>4, <2>5, <2>6, Heap(h), U \in Nat \ {0}, SlobFreed
  <2>8. \E x \in ToSet(r.list) : r.units[x] >= n
    <3>1. PICK x \in ToSet(r.list) : r.units[x] >= U
      BY <2>7
    <3>2. r.units[x] \in Nat
      <4>1. FreeHeap(HeapMax, r.list, r.units) /\ HeapMax \in Nat
        BY <2>7, HeapConstants DEF Heap
      <4> QED  BY <4>1, HeapFacts DEF FreeHeap
    <3> QED  BY <2>3, <3>1, <3>2
  <2>9. PICK c : c = Slob!Cut(r, n)
    OBVIOUS
  <2>10. TakenFrom(r, c.heap, n, c.at)
    BY ONLY <2>7, <2>8, <2>9, n \in Nat, n >= 2, SlobTaken
  <2>11. a = [at |-> c.at, heap |-> c.heap, pages |-> P \ {p}]
    BY ONLY <2>1, <2>2, <2>3, <2>6, <2>9 DEF Slob!Allocated
  <2>12. a.at = c.at /\ a.heap = c.heap /\ a.pages = P \ {p}
    BY ONLY <2>11
  <2>13. FreeOf(r) = FreeOf(h) \cup PageUnits({p})
    BY ONLY <2>4, <2>7
  <2>14. Same(h, c.heap, FreeOf(r))
    BY ONLY <2>7, <2>10 DEF TakenFrom, Same
  <2>15. {p} \subseteq P
    OBVIOUS
  <2>16. Obtained(h, P, n, a, {p})
    BY ONLY <1>2, <1>4, <2>10, <2>12, <2>13, <2>14, <2>15 DEF Obtained, TakenFrom
  <2> QED  BY <2>16
<1> QED  BY <1>3, <1>4

(* What callers have of the heap: small blocks, which have their length in *)
(* the unit before them, and runs of pages, each with a descriptor.        *)
SmallIn(h, b) ==
  LET at == b.block - 1 IN
  /\ at \in 0 .. HeapMax /\ at > 1 /\ b.block = at + 1
  /\ h.units[at] >= 2 /\ b.units = Span(at, h.units[at])
RunOfPages(bb) == Span(bb.pages, 2 ^ bb.order)
BigIn(b, bb) ==
  /\ b.block = bb.pages * Slob!PAGE_UNITS
  /\ b.units = Span(bb.at, Descriptor) \cup PageUnits(RunOfPages(bb))
DescriptorOK(bb) ==
  /\ bb.at \in 0 .. HeapMax /\ bb.at > 1
  /\ bb.pages \in Slob!Page /\ bb.order \in Nat /\ 2 ^ bb.order >= 1
  /\ RunOfPages(bb) \subseteq Slob!Page
  /\ Span(bb.at, Descriptor) \cap PageUnits(RunOfPages(bb)) = {}

(* A unit is free, or in one block that somebody has, or nobody has taken  *)
(* its page from the manager of pages.                                     *)
Owned(G) == UNION {b.units : b \in G}
Accounted(h, P, G) ==
  /\ \A b, c \in G : b # c => b.units \cap c.units = {}
  /\ FreeOf(h) \cap Owned(G) = {}
  /\ FreeOf(h) \cup Owned(G) = {0} \cup PageUnits(Slob!Page \ P)
Described(h, BB, G) ==
  /\ \A bb \in BB : DescriptorOK(bb) /\ \E b \in G : BigIn(b, bb)
  /\ \A bb, bc \in BB : bb.pages = bc.pages => bb = bc
  /\ \A b \in G : SmallIn(h, b) \/ \E bb \in BB : BigIn(b, bb)
HeapInv(h, P, BB, G) == Heap(h) /\ P \in SUBSET Slob!Page /\ Accounted(h, P, G) /\ Described(h, BB, G)

(* What is on the list or a page is nobody's.                              *)
LEMMA FreeIsFree ==
  ASSUME NEW h, NEW P, NEW BB, NEW G, HeapInv(h, P, BB, G)
  PROVE  /\ FreeOf(h) \cap PageUnits(P) = {} /\ Owned(G) \cap PageUnits(P) = {}
         /\ FreeOf(h) \cap Owned(G) = {}
         /\ \A b \in G : b.units \subseteq Owned(G)
<1>1. FreeOf(h) \cup Owned(G) = {0} \cup PageUnits(Slob!Page \ P) /\ FreeOf(h) \cap Owned(G) = {}
  BY DEF HeapInv, Accounted
<1>2. PageUnits(Slob!Page \ P) = PageUnits(Slob!Page) \ PageUnits(P) /\ 0 \notin PageUnits(P)
  BY PageUnitsFacts DEF HeapInv
<1>3. \A b \in G : b.units \subseteq Owned(G)
  BY DEF Owned
<1> QED  BY ONLY <1>1, <1>2, <1>3

(* A small block is kept while no length changes in it.                    *)
LEMMA SmallKept ==
  ASSUME NEW h, NEW b, SmallIn(h, b), NEW r, NEW F, Same(h, r, F), b.units \cap F = {}, Heap(h)
  PROVE  SmallIn(r, b)
<1>1. PICK at : at = b.block - 1
  OBVIOUS
<1>2. at \in 0 .. HeapMax /\ at > 1 /\ b.block = at + 1 /\ h.units[at] >= 2 /\ b.units = Span(at, h.units[at])
  BY ONLY <1>1, SmallIn(h, b) DEF SmallIn
<1>3. h.units[at] \in Nat
  BY <1>2 DEF Heap, FreeHeap
<1>4. at \in Span(at, h.units[at])
  BY ONLY <1>2, <1>3 DEF Span
<1>5. r.units[at] = h.units[at]
  BY ONLY <1>2, <1>4, Same(h, r, F), b.units \cap F = {} DEF Same
<1> QED  BY ONLY <1>1, <1>2, <1>5 DEF SmallIn

(* What callers are given a block by lies in its units.                    *)
LEMMA BlockInside ==
  ASSUME NEW h, NEW P, NEW BB, NEW G, HeapInv(h, P, BB, G), NEW b \in G
  PROVE  b.block \in b.units
<1>1. CASE SmallIn(h, b)
  <2>1. PICK at : at = b.block - 1
    OBVIOUS
  <2>2. /\ at \in 0 .. HeapMax /\ b.block = at + 1
        /\ h.units[at] >= 2 /\ b.units = Span(at, h.units[at])
    BY ONLY <1>1, <2>1 DEF SmallIn
  <2>3. h.units[at] \in Nat
    BY <2>2 DEF HeapInv, Heap, FreeHeap
  <2>4. at \in Nat
    BY <2>2, HeapConstants
  <2>5. at + 1 \in Span(at, h.units[at])
    BY ONLY <2>2, <2>3, <2>4 DEF Span
  <2> QED  BY ONLY <2>2, <2>5
<1>2. ASSUME NEW bb \in BB, BigIn(b, bb)
      PROVE  b.block \in b.units
  <2>1. /\ bb.pages \in Slob!Page /\ bb.order \in Nat /\ 2 ^ bb.order >= 1
        /\ RunOfPages(bb) \subseteq Slob!Page
    BY ONLY HeapInv(h, P, BB, G), bb \in BB DEF HeapInv, Described, DescriptorOK
  <2>2. PICK m \in Nat : m = 2 ^ bb.order /\ m >= 1
    BY <2>1
  <2>3. PICK p \in Nat : p = bb.pages /\ p >= 1
    BY <2>1, HeapConstants
  <2>4. RunOfPages(bb) = Span(p, m)
    BY ONLY <2>2, <2>3 DEF RunOfPages
  <2>5. /\ p * Slob!PAGE_UNITS \in Nat
        /\ \A u \in Nat : u \in PageUnits(Span(p, m))
                          <=> p * Slob!PAGE_UNITS <= u /\ u < p * Slob!PAGE_UNITS + m * Slob!PAGE_UNITS
    BY ONLY <2>1, <2>2, <2>3, <2>4, p \in Nat, m \in Nat, PageUnitsOfRun
  <2>6. PICK U \in Nat : U = Slob!PAGE_UNITS /\ U > 2
    BY HeapConstants
  <2>7. m * U > 0
    BY ONLY <2>2, <2>6, m \in Nat, U \in Nat
  <2>8. m * U \in Nat
    OBVIOUS
  <2>9. p * U \in PageUnits(Span(p, m))
    <3>1. PICK a \in Nat : a = p * U
      BY <2>5, <2>6
    <3>2. PICK k \in Nat : k = m * U /\ k > 0
      BY <2>7, <2>8
    <3>3. a \in PageUnits(Span(p, m)) <=> a <= a /\ a < a + k
      BY ONLY <2>5, <2>6, <3>1, <3>2, a \in Nat
    <3> QED  BY ONLY <3>1, <3>2, <3>3, a \in Nat, k \in Nat
  <2>10. b.block = p * U /\ PageUnits(Span(p, m)) \subseteq b.units
    BY ONLY <1>2, <2>3, <2>4, <2>6 DEF BigIn
  <2> QED  BY ONLY <2>9, <2>10
<1> QED  BY <1>1, <1>2 DEF HeapInv, Described

(* A block is given: units S of the list or of new pages Q, and the pages  *)
(* R if it has a descriptor, the one in X.                                 *)
Giving(h, P, BB, G, Q, S, R, X, b, r) ==
  /\ HeapInv(h, P, BB, G)
  /\ Q \subseteq P /\ R \subseteq P \ Q
  /\ S \subseteq FreeOf(h) \cup PageUnits(Q)
  /\ Heap(r) /\ FreeOf(r) = (FreeOf(h) \cup PageUnits(Q)) \ S
  /\ Same(h, r, FreeOf(h) \cup PageUnits(Q))
  /\ b.units = S \cup PageUnits(R) /\ b.units # {}
  /\ SmallIn(r, b) \/ \E bb \in X : BigIn(b, bb)
  /\ \A bb \in X : DescriptorOK(bb) /\ BigIn(b, bb) /\ bb.pages \in R
  /\ \A bb, bc \in X : bb = bc

Given(h, P, BB, G, Q, R, X, b, r) ==
  /\ HeapInv(r, (P \ Q) \ R, BB \cup X, G \cup {b})
  /\ b \notin G /\ FreeOf(r) \cup PageUnits((P \ Q) \ R) = (FreeOf(h) \cup PageUnits(P)) \ b.units
  /\ b.units \subseteq FreeOf(h) \cup PageUnits(P)

(* The heap stays exact when a block is given.                             *)
LEMMA BlockGiven ==
  ASSUME NEW h, NEW P, NEW BB, NEW G, NEW Q, NEW S, NEW R, NEW X, NEW b, NEW r,
         Giving(h, P, BB, G, Q, S, R, X, b, r)
  PROVE  Given(h, P, BB, G, Q, R, X, b, r)
<1>0. HeapInv(h, P, BB, G)
  BY DEF Giving
<1>1. /\ Heap(h) /\ P \in SUBSET Slob!Page /\ Accounted(h, P, G) /\ Described(h, BB, G)
  BY <1>0 DEF HeapInv
<1>2. /\ Q \subseteq P /\ R \subseteq P \ Q
      /\ S \subseteq FreeOf(h) \cup PageUnits(Q)
      /\ Heap(r) /\ FreeOf(r) = (FreeOf(h) \cup PageUnits(Q)) \ S
      /\ Same(h, r, FreeOf(h) \cup PageUnits(Q))
      /\ b.units = S \cup PageUnits(R) /\ b.units # {}
  BY DEF Giving
<1>3. /\ SmallIn(r, b) \/ \E bb \in X : BigIn(b, bb)
      /\ \A bb \in X : DescriptorOK(bb) /\ BigIn(b, bb) /\ bb.pages \in R
      /\ \A bb, bc \in X : bb = bc
  BY DEF Giving
<1>4. /\ FreeOf(h) \cap PageUnits(P) = {} /\ Owned(G) \cap PageUnits(P) = {}
      /\ FreeOf(h) \cap Owned(G) = {}
      /\ \A c \in G : c.units \subseteq Owned(G)
  BY <1>0, FreeIsFree
<1>5. /\ PageUnits(Q) \subseteq PageUnits(P) /\ PageUnits(P \ Q) = PageUnits(P) \ PageUnits(Q)
      /\ PageUnits(R) \subseteq PageUnits(P \ Q)
      /\ PageUnits((P \ Q) \ R) = PageUnits(P \ Q) \ PageUnits(R)
  BY ONLY <1>2, PageUnitsFacts
<1>6. PICK U : U = PageUnits(P)
  OBVIOUS
<1>7. PICK V : V = PageUnits(Q)
  OBVIOUS
<1>8. PICK W : W = PageUnits(R)
  OBVIOUS
<1>9. PICK F : F = FreeOf(h)
  OBVIOUS
<1>10. PICK O : O = Owned(G)
  OBVIOUS
<1>11. /\ F \cap U = {} /\ O \cap U = {} /\ F \cap O = {} /\ V \subseteq U /\ W \subseteq U \ V
       /\ S \subseteq F \cup V /\ FreeOf(r) = (F \cup V) \ S /\ b.units = S \cup W
       /\ PageUnits((P \ Q) \ R) = (U \ V) \ W
  BY ONLY <1>2, <1>4, <1>5, <1>6, <1>7, <1>8, <1>9, <1>10
<1>12. b.units \cap O = {} /\ b.units \subseteq F \cup U
  BY ONLY <1>11
<1>13. Owned(G \cup {b}) = O \cup b.units
  BY ONLY <1>10 DEF Owned
<1>14. b \notin G
  BY ONLY <1>2, <1>4, <1>10, <1>12
<1>15. FreeOf(r) \cup PageUnits((P \ Q) \ R) = (FreeOf(h) \cup PageUnits(P)) \ b.units
  BY ONLY <1>6, <1>9, <1>11
<1>16. Accounted(r, (P \ Q) \ R, G \cup {b})
  <2>1. ASSUME NEW c \in G \cup {b}, NEW e \in G \cup {b}, c # e
        PROVE  c.units \cap e.units = {}
    <3>1. \A d \in G : d.units \cap b.units = {}
      BY ONLY <1>4, <1>10, <1>12
    <3> QED  BY <1>1, <2>1, <3>1 DEF Accounted
  <2>2. FreeOf(r) \cap Owned(G \cup {b}) = {}
    BY ONLY <1>11, <1>13
  <2>3. F \cup O = {0} \cup PageUnits(Slob!Page \ P)
    BY ONLY <1>1, <1>9, <1>10 DEF Accounted
  <2>4. PageUnits(Slob!Page \ P) = PageUnits(Slob!Page) \ U /\ U \subseteq PageUnits(Slob!Page)
    BY ONLY <1>1, <1>6, PageUnitsFacts
  <2>5. PageUnits(Slob!Page \ ((P \ Q) \ R)) = PageUnits(Slob!Page) \ ((U \ V) \ W)
    <3>1. PICK Z : Z = (P \ Q) \ R
      OBVIOUS
    <3>2. PageUnits(Slob!Page \ Z) = PageUnits(Slob!Page) \ PageUnits(Z)
      BY ONLY PageUnitsFacts
    <3> QED  BY ONLY <1>11, <3>1, <3>2
  <2>6. FreeOf(r) \cup (O \cup b.units) = (F \cup O) \cup V \cup W
    BY ONLY <1>11
  <2>7. PageUnits(Slob!Page) \ ((U \ V) \ W) = (PageUnits(Slob!Page) \ U) \cup V \cup W
    BY ONLY <1>11, <2>4
  <2>8. FreeOf(r) \cup Owned(G \cup {b}) = {0} \cup PageUnits(Slob!Page \ ((P \ Q) \ R))
    BY ONLY <1>13, <2>3, <2>4, <2>5, <2>6, <2>7
  <2> QED  BY <2>1, <2>2, <2>8 DEF Accounted
<1>17. Described(r, BB \cup X, G \cup {b})
  <2>1. ASSUME NEW bb \in BB \cup X
        PROVE  DescriptorOK(bb) /\ \E c \in G \cup {b} : BigIn(c, bb)
    BY <1>1, <1>3 DEF Described
  <2>2. ASSUME NEW bb \in BB
        PROVE  bb.pages \notin R
    <3>1. DescriptorOK(bb) /\ \E c \in G : BigIn(c, bb)
      BY <1>1 DEF Described
    <3>2. PICK c \in G : BigIn(c, bb)
      BY <3>1
    <3>3. PageUnits(RunOfPages(bb)) \subseteq O
      BY ONLY <1>4, <1>10, <3>2, c \in G DEF BigIn
    <3>4. bb.pages \in RunOfPages(bb)
      <4>1. bb.pages \in Nat /\ 2 ^ bb.order >= 1 /\ bb.order \in Nat
        BY <3>1, HeapConstants DEF DescriptorOK
      <4> QED  BY ONLY <4>1 DEF RunOfPages, Span
    <3>5. bb.pages \in Slob!Page
      BY <3>1 DEF DescriptorOK
    <3>6. PICK u : u \in PageUnits({bb.pages})
      <4>1. /\ bb.pages * Slob!PAGE_UNITS \in Nat
            /\ PageUnits({bb.pages}) = Span(bb.pages * Slob!PAGE_UNITS, Slob!PAGE_UNITS)
        BY ONLY <3>5, UnitsOfPage
      <4>2. Slob!PAGE_UNITS \in Nat /\ Slob!PAGE_UNITS > 2
        BY HeapConstants
      <4> QED  BY ONLY <4>1, <4>2 DEF Span
    <3>7. PageUnits({bb.pages}) \subseteq PageUnits(RunOfPages(bb))
      BY ONLY <3>4, PageUnitsFacts
    <3>8. bb.pages \in R => PageUnits({bb.pages}) \subseteq W
      BY ONLY <1>8, PageUnitsFacts
    <3> QED  BY ONLY <1>11, <3>3, <3>6, <3>7, <3>8
  <2>3. ASSUME NEW bb \in BB \cup X, NEW bc \in BB \cup X, bb.pages = bc.pages
        PROVE  bb = bc
    <3>1. CASE bb \in BB /\ bc \in BB
      BY <1>1, <2>3, <3>1 DEF Described
    <3>2. CASE bb \in X /\ bc \in X
      BY <1>3, <3>2
    <3>3. ~ (bb \in BB /\ bc \in X) /\ ~ (bb \in X /\ bc \in BB)
      BY <1>3, <2>2, <2>3
    <3> QED  BY <3>1, <3>2, <3>3
  <2>4. ASSUME NEW c \in G \cup {b}
        PROVE  SmallIn(r, c) \/ \E bb \in BB \cup X : BigIn(c, bb)
    <3>1. CASE c = b
      BY <1>3, <3>1
    <3>2. CASE c \in G /\ SmallIn(h, c)
      <4>1. c.units \cap (FreeOf(h) \cup PageUnits(Q)) = {}
        BY ONLY <1>4, <1>7, <1>9, <1>10, <1>11, <3>2
      <4> QED  BY ONLY <1>1, <1>2, <3>2, <4>1, SmallKept
    <3>3. CASE c \in G /\ \E bb \in BB : BigIn(c, bb)
      BY <3>3
    <3> QED  BY <1>1, <3>1, <3>2, <3>3 DEF Described
  <2> QED  BY <2>1, <2>3, <2>4 DEF Described
<1>18. (P \ Q) \ R \in SUBSET Slob!Page
  BY <1>1
<1>19. b.units \subseteq FreeOf(h) \cup PageUnits(P)
  BY ONLY <1>6, <1>9, <1>12
<1> QED  BY ONLY <1>2, <1>14, <1>15, <1>16, <1>17, <1>18, <1>19 DEF HeapInv, Given

(* Nothing is given, but the units of pages Q have come to the list.       *)
Growing(h, P, BB, G, Q, r) ==
  /\ HeapInv(h, P, BB, G) /\ Q \subseteq P
  /\ Heap(r) /\ FreeOf(r) = FreeOf(h) \cup PageUnits(Q) /\ Same(h, r, FreeOf(r))
Grown(h, P, BB, G, Q, r) ==
  /\ HeapInv(r, P \ Q, BB, G)
  /\ FreeOf(r) \cup PageUnits(P \ Q) = FreeOf(h) \cup PageUnits(P)

(* It stays exact when its list has only grown.                            *)
LEMMA NothingGiven ==
  ASSUME NEW h, NEW P, NEW BB, NEW G, NEW Q, NEW r, Growing(h, P, BB, G, Q, r)
  PROVE  Grown(h, P, BB, G, Q, r)
<1>0. /\ HeapInv(h, P, BB, G) /\ Q \subseteq P
      /\ Heap(r) /\ FreeOf(r) = FreeOf(h) \cup PageUnits(Q) /\ Same(h, r, FreeOf(r))
  BY DEF Growing
<1>1. /\ Heap(h) /\ P \in SUBSET Slob!Page /\ Accounted(h, P, G) /\ Described(h, BB, G)
  BY <1>0 DEF HeapInv
<1>2. /\ FreeOf(h) \cap PageUnits(P) = {} /\ Owned(G) \cap PageUnits(P) = {}
      /\ FreeOf(h) \cap Owned(G) = {}
      /\ \A c \in G : c.units \subseteq Owned(G)
  BY <1>0, FreeIsFree
<1>3. /\ PageUnits(Q) \subseteq PageUnits(P) /\ PageUnits(P \ Q) = PageUnits(P) \ PageUnits(Q)
  BY ONLY <1>0, PageUnitsFacts
<1>4. PICK U : U = PageUnits(P)
  OBVIOUS
<1>5. PICK V : V = PageUnits(Q)
  OBVIOUS
<1>6. PICK F : F = FreeOf(h)
  OBVIOUS
<1>7. PICK O : O = Owned(G)
  OBVIOUS
<1>8. /\ F \cap U = {} /\ O \cap U = {} /\ F \cap O = {} /\ V \subseteq U
      /\ FreeOf(r) = F \cup V /\ PageUnits(P \ Q) = U \ V
  BY ONLY <1>2, <1>3, <1>4, <1>5, <1>6, <1>7, <1>0
<1>9. FreeOf(r) \cup PageUnits(P \ Q) = FreeOf(h) \cup PageUnits(P)
  BY ONLY <1>4, <1>6, <1>8
<1>10. Accounted(r, P \ Q, G)
  <2>1. FreeOf(r) \cap Owned(G) = {}
    BY ONLY <1>7, <1>8
  <2>2. F \cup O = {0} \cup PageUnits(Slob!Page \ P)
    BY ONLY <1>1, <1>6, <1>7 DEF Accounted
  <2>3. PageUnits(Slob!Page \ P) = PageUnits(Slob!Page) \ U /\ U \subseteq PageUnits(Slob!Page)
    BY ONLY <1>1, <1>4, PageUnitsFacts
  <2>4. PageUnits(Slob!Page \ (P \ Q)) = PageUnits(Slob!Page) \ (U \ V)
    <3>1. PICK Z : Z = P \ Q
      OBVIOUS
    <3>2. PageUnits(Slob!Page \ Z) = PageUnits(Slob!Page) \ PageUnits(Z)
      BY ONLY PageUnitsFacts
    <3> QED  BY ONLY <1>8, <3>1, <3>2
  <2>5. PageUnits(Slob!Page) \ (U \ V) = (PageUnits(Slob!Page) \ U) \cup V
    BY ONLY <1>8, <2>3
  <2>6. FreeOf(r) \cup Owned(G) = {0} \cup PageUnits(Slob!Page \ (P \ Q))
    BY ONLY <1>7, <1>8, <2>2, <2>3, <2>4, <2>5
  <2> QED  BY <1>1, <2>1, <2>6 DEF Accounted
<1>11. Described(r, BB, G)
  <2>1. ASSUME NEW c \in G
        PROVE  SmallIn(r, c) \/ \E bb \in BB : BigIn(c, bb)
    <3>1. c.units \cap FreeOf(r) = {}
      BY ONLY <1>2, <1>7, <1>8, c \in G
    <3>2. SmallIn(h, c) => SmallIn(r, c)
      BY ONLY <1>0, <1>1, <3>1, SmallKept
    <3> QED  BY <1>1, <3>2 DEF Described
  <2> QED  BY <1>1, <2>1 DEF Described
<1>12. P \ Q \in SUBSET Slob!Page
  BY <1>1
<1> QED  BY ONLY <1>9, <1>10, <1>11, <1>12, <1>0 DEF HeapInv, Grown

(* A block is taken back: its units S go to the list, its pages R to the   *)
(* manager, and the descriptors in X are no more.                          *)
TakenBack(h, P, BB, G, S, R, X, b, r) ==
  /\ HeapInv(h, P, BB, G)
  /\ b \in G /\ R \subseteq Slob!Page
  /\ b.units = S \cup PageUnits(R) /\ S \cap PageUnits(R) = {}
  /\ Heap(r) /\ FreeOf(r) = FreeOf(h) \cup S /\ Same(h, r, FreeOf(r))
  /\ \A bb \in BB : IF bb \in X THEN BigIn(b, bb) ELSE ~ BigIn(b, bb)

Back(h, P, BB, G, R, X, b, r) ==
  /\ HeapInv(r, P \cup R, BB \ X, G \ {b})
  /\ FreeOf(r) \cup PageUnits(P \cup R) = (FreeOf(h) \cup PageUnits(P)) \cup b.units

(* The heap stays exact when a block is taken back.                        *)
LEMMA BlockTakenBack ==
  ASSUME NEW h, NEW P, NEW BB, NEW G, NEW S, NEW R, NEW X, NEW b, NEW r,
         TakenBack(h, P, BB, G, S, R, X, b, r)
  PROVE  Back(h, P, BB, G, R, X, b, r)
<1>0. HeapInv(h, P, BB, G)
  BY DEF TakenBack
<1>1. /\ Heap(h) /\ P \in SUBSET Slob!Page /\ Accounted(h, P, G) /\ Described(h, BB, G)
  BY <1>0 DEF HeapInv
<1>2. /\ b \in G /\ R \subseteq Slob!Page
      /\ b.units = S \cup PageUnits(R) /\ S \cap PageUnits(R) = {}
      /\ Heap(r) /\ FreeOf(r) = FreeOf(h) \cup S /\ Same(h, r, FreeOf(r))
  BY DEF TakenBack
<1>3. \A bb \in BB : IF bb \in X THEN BigIn(b, bb) ELSE ~ BigIn(b, bb)
  BY DEF TakenBack
<1>4. /\ FreeOf(h) \cap PageUnits(P) = {} /\ Owned(G) \cap PageUnits(P) = {}
      /\ FreeOf(h) \cap Owned(G) = {}
      /\ \A c \in G : c.units \subseteq Owned(G)
  BY <1>0, FreeIsFree
<1>5. PICK U : U = PageUnits(P)
  OBVIOUS
<1>6. PICK W : W = PageUnits(R)
  OBVIOUS
<1>7. PICK F : F = FreeOf(h)
  OBVIOUS
<1>8. PICK O : O = Owned(G)
  OBVIOUS
<1>9. \A c \in G : c # b => c.units \cap b.units = {}
  BY ONLY <1>1, <1>2 DEF Accounted
<1>10. PageUnits(P \cup R) = U \cup W
  BY ONLY <1>5, <1>6, PageUnitsFacts
<1>11. /\ F \cap O = {} /\ b.units \subseteq O /\ b.units = S \cup W /\ S \cap W = {} /\ FreeOf(r) = F \cup S
  BY ONLY <1>2, <1>4, <1>6, <1>7, <1>8
<1>12. Owned(G \ {b}) = O \ b.units
  BY ONLY <1>8, <1>9, <1>2 DEF Owned
<1>13. FreeOf(r) \cup PageUnits(P \cup R) = (FreeOf(h) \cup PageUnits(P)) \cup b.units
  BY ONLY <1>5, <1>7, <1>10, <1>11
<1>14. Accounted(r, P \cup R, G \ {b})
  <2>1. FreeOf(r) \cap Owned(G \ {b}) = {}
    BY ONLY <1>11, <1>12
  <2>2. F \cup O = {0} \cup PageUnits(Slob!Page \ P)
    BY ONLY <1>1, <1>7, <1>8 DEF Accounted
  <2>3. PageUnits(Slob!Page \ P) = PageUnits(Slob!Page) \ U /\ 0 \notin W
    BY ONLY <1>2, <1>5, <1>6, PageUnitsFacts
  <2>4. PageUnits(Slob!Page \ (P \cup R)) = PageUnits(Slob!Page) \ (U \cup W)
    <3>1. PICK Z : Z = P \cup R
      OBVIOUS
    <3>2. PageUnits(Slob!Page \ Z) = PageUnits(Slob!Page) \ PageUnits(Z)
      BY ONLY PageUnitsFacts
    <3> QED  BY ONLY <1>10, <3>1, <3>2
  <2>5. FreeOf(r) \cup Owned(G \ {b}) = (F \cup O) \ W
    BY ONLY <1>11, <1>12
  <2>6. FreeOf(r) \cup Owned(G \ {b}) = {0} \cup PageUnits(Slob!Page \ (P \cup R))
    BY ONLY <2>2, <2>3, <2>4, <2>5
  <2>7. \A c, d \in G \ {b} : c # d => c.units \cap d.units = {}
    BY ONLY <1>1 DEF Accounted
  <2> QED  BY ONLY <2>1, <2>6, <2>7 DEF Accounted
<1>15. Described(r, BB \ X, G \ {b})
  <2>1. ASSUME NEW bb \in BB \ X
        PROVE  DescriptorOK(bb) /\ \E c \in G \ {b} : BigIn(c, bb)
    <3>1. DescriptorOK(bb) /\ \E c \in G : BigIn(c, bb)
      BY ONLY <1>1, bb \in BB \ X DEF Described
    <3>2. ~ BigIn(b, bb)
      BY ONLY <1>3, bb \in BB \ X
    <3> QED  BY ONLY <3>1, <3>2
  <2>2. \A bb, bc \in BB \ X : bb.pages = bc.pages => bb = bc
    BY ONLY <1>1 DEF Described
  <2>3. ASSUME NEW c \in G \ {b}
        PROVE  SmallIn(r, c) \/ \E bb \in BB \ X : BigIn(c, bb)
    <3>1. c \in G /\ c # b /\ c.units \cap b.units = {}
      BY ONLY <1>9, c \in G \ {b}
    <3>2. CASE SmallIn(h, c)
      <4>1. c.units \cap FreeOf(r) = {}
        <5>1. c.units \subseteq O
          BY ONLY <1>4, <1>8, <3>1
        <5> QED  BY ONLY <1>11, <3>1, <5>1
      <4> QED  BY ONLY <1>1, <1>2, <3>2, <4>1, SmallKept
    <3>3. ASSUME NEW bb \in BB, BigIn(c, bb)
          PROVE  bb \notin X
      <4>1. bb \in X => b.units = c.units
        BY ONLY <1>3, <3>3, bb \in BB DEF BigIn
      <4>2. b.block \in b.units
        BY ONLY <1>0, <1>2, BlockInside
      <4> QED  BY ONLY <3>1, <4>1, <4>2
    <3>4. SmallIn(h, c) \/ \E bb \in BB : BigIn(c, bb)
      BY ONLY <1>1, <3>1 DEF Described
    <3> QED  BY ONLY <3>2, <3>3, <3>4
  <2> QED  BY ONLY <2>1, <2>2, <2>3 DEF Described
<1>16. P \cup R \in SUBSET Slob!Page
  BY <1>1, <1>2
<1> QED  BY ONLY <1>2, <1>13, <1>14, <1>15, <1>16 DEF HeapInv, Back

(* Lengths off the list are of no concern to it.                           *)
Lengthened(h, at, v, r) ==
  /\ Heap(h) /\ h = [list |-> h.list, units |-> h.units]
  /\ at \in 0 .. HeapMax /\ at \notin FreeOf(h) /\ v \in Nat
  /\ r = [h EXCEPT !.units[at] = v]

(* The list does not read a length that no block on it has.                *)
LEMMA LengthOffList ==
  ASSUME NEW h, NEW at, NEW v, NEW r, Lengthened(h, at, v, r)
  PROVE  Heap(r) /\ FreeOf(r) = FreeOf(h) /\ Same(h, r, {at}) /\ r.list = h.list
<1>0. /\ Heap(h) /\ h = [list |-> h.list, units |-> h.units]
      /\ at \in 0 .. HeapMax /\ at \notin FreeOf(h) /\ v \in Nat
      /\ r = [h EXCEPT !.units[at] = v]
  BY DEF Lengthened
<1>1. PICK l : l = h.list
  OBVIOUS
<1>2. PICK f : f = h.units
  OBVIOUS
<1>3. PICK g : g = [f EXCEPT ![at] = v]
  OBVIOUS
<1>4. r = [list |-> l, units |-> g]
  BY ONLY <1>0, <1>1, <1>2, <1>3
<1>5. r.list = l /\ r.units = g
  BY <1>4
<1>6. FreeHeap(HeapMax, l, f) /\ at \notin Covered(ToSet(l), f)
  BY ONLY <1>1, <1>2, <1>0 DEF Heap, FreeOf
<1>7. /\ l \in Seq(0 .. HeapMax) /\ Circular(l) /\ 0 \in ToSet(l)
      /\ f \in [0 .. HeapMax -> Nat] /\ f[0] = 1
      /\ Apart(ToSet(l), f) /\ Covered(ToSet(l), f) \subseteq 0 .. HeapMax
  BY ONLY <1>6 DEF FreeHeap
<1>8. ToSet(l) \subseteq 0 .. HeapMax /\ ToSet(l) \subseteq Covered(ToSet(l), f)
  BY ONLY <1>6, HeapConstants, HeapFacts
<1>9. g \in [0 .. HeapMax -> Nat] /\ \A u \in 0 .. HeapMax : u # at => g[u] = f[u]
  BY ONLY <1>3, <1>7, <1>0
<1>10. \A x \in ToSet(l) : g[x] = f[x]
  BY ONLY <1>6, <1>8, <1>9
<1>11. g[0] = 1 /\ Apart(ToSet(l), g)
  BY ONLY <1>7, <1>10 DEF Apart
<1>12. Covered(ToSet(l), g) = Covered(ToSet(l), f)
  BY ONLY <1>10 DEF Covered
<1>13. FreeHeap(HeapMax, l, g)
  BY ONLY <1>7, <1>9, <1>11, <1>12 DEF FreeHeap
<1>14. Heap(r) /\ FreeOf(r) = FreeOf(h)
  BY ONLY <1>1, <1>2, <1>5, <1>12, <1>13 DEF Heap, FreeOf
<1>15. Same(h, r, {at})
  BY ONLY <1>2, <1>5, <1>9 DEF Same
<1> QED  BY ONLY <1>1, <1>5, <1>14, <1>15

(* What is always true of the heap of the kernel.                          *)
SlobInv ==
  /\ HeapInv(heap, pages, bigblocks, given)
  /\ heap = [list |-> heap.list, units |-> heap.units]
  /\ bigblocks \subseteq [at : Slob!Unit, order : Nat, pages : Slob!Page]
  /\ panicked \in BOOLEAN

(* The words of the heap and of these proofs are the same.                 *)
LEMMA SlobWords ==
  /\ Slob!FreeUnits = FreeOf(heap) \cup PageUnits(pages)
  /\ Slob!FreeUnits' = FreeOf(heap') \cup PageUnits(pages')
  /\ \A a, n : Slob!RunOf(a, n) = Span(a, n)
  /\ \A P : Slob!UnitsOf(P) = PageUnits(P)
<1>1. \A l : Slob!ToSet(l) = ToSet(l)
  BY DEF Slob!ToSet, ToSet
<1>2. Slob!ListUnits = FreeOf(heap) /\ Slob!ListUnits' = FreeOf(heap')
  BY ONLY <1>1 DEF Slob!ListUnits, FreeOf, Covered, Slob!RunOf
<1> QED  BY <1>2 DEF Slob!FreeUnits, PageUnits, Slob!RunOf, Span

(* Only arena is on the list when the kernel starts.                       *)
LEMMA SlobInitInv == Slob!Init => SlobInv
<1> SUFFICES ASSUME Slob!Init PROVE SlobInv
  OBVIOUS
<1> DEFINE l == <<0>>
           f == [u \in 0 .. HeapMax |-> IF u = 0 THEN 1 ELSE 0]
<1>1. heap = [list |-> l, units |-> f] /\ heap.list = l /\ heap.units = f
  BY HeapConstants DEF Slob!Init, Slob!arena
<1>2. pages = Slob!Page /\ bigblocks = {} /\ given = {} /\ panicked = FALSE
  BY DEF Slob!Init
<1>3. HeapMax \in Nat
  BY HeapConstants
<1>4. l \in Seq(0 .. HeapMax) /\ ToSet(l) = {0} /\ Len(l) = 1 /\ l[1] = 0
  BY ONLY <1>3 DEF ToSet
<1>5. f \in [0 .. HeapMax -> Nat] /\ f[0] = 1
  BY ONLY <1>3
<1> HIDE DEF l, f
<1>6. Covered(ToSet(l), f) = {0}
  <2>1. Covered(ToSet(l), f) = 0 .. 0 + f[0] - 1
    BY ONLY <1>4 DEF Covered
  <2>2. 0 .. 0 + f[0] - 1 = {0}
    BY ONLY <1>5
  <2> QED  BY ONLY <2>1, <2>2
<1>7. Apart(ToSet(l), f)
  BY ONLY <1>4, <1>5 DEF Apart
<1>8. Circular(l)
  <2>1. \A i, j \in 1 .. Len(l) : i = 1 /\ j = 1
    BY ONLY <1>4
  <2>2. Distinct(l)
    BY ONLY <1>4, <2>1 DEF Distinct
  <2> QED  BY ONLY <1>4, <2>1, <2>2 DEF Circular
<1>9. FreeHeap(HeapMax, l, f)
  BY ONLY <1>3, <1>4, <1>5, <1>6, <1>7, <1>8 DEF FreeHeap
<1>10. Heap(heap) /\ FreeOf(heap) = {0}
  BY ONLY <1>1, <1>6, <1>9 DEF Heap, FreeOf
<1>11. Accounted(heap, pages, given)
  <2>1. Slob!Page \ pages = {} /\ PageUnits({}) = {}
    BY <1>2, PageUnitsFacts
  <2> QED  BY ONLY <1>2, <1>10, <2>1 DEF Accounted, Owned
<1>12. Described(heap, bigblocks, given)
  BY ONLY <1>2 DEF Described
<1> QED  BY ONLY <1>1, <1>2, <1>10, <1>11, <1>12 DEF SlobInv, HeapInv

(* What a step keeps and promises.                                         *)
SlobStepGood == SlobInv' /\ Slob!Thrifty /\ Slob!KeepsPromise

(* A step that changes nothing, or only panics.                            *)
LEMMA SlobStutter ==
  ASSUME SlobInv, UNCHANGED <<heap, pages, bigblocks, given>>, panicked' \in BOOLEAN
  PROVE  SlobStepGood
<1>1. SlobInv'
  BY DEF SlobInv
<1>2. Slob!KeepsPromise
  BY SlobWords DEF Slob!KeepsPromise
<1>3. Slob!Thrifty
  BY DEF Slob!Thrifty
<1> QED  BY <1>1, <1>2, <1>3 DEF SlobStepGood

(* A block that the heap promises.                                         *)
Handed(b, size) ==
  /\ b.size = size
  /\ Slob!Abs!Span(b.block, size) \subseteq b.units
  /\ b \notin given /\ given' = given \cup {b}
  /\ FreeOf(heap') \cup PageUnits(pages') = (FreeOf(heap) \cup PageUnits(pages)) \ b.units
  /\ b.units \subseteq FreeOf(heap) \cup PageUnits(pages)

(* Such a block keeps the promise of the heap.                             *)
LEMMA SlobGives ==
  ASSUME NEW size \in BlockSize, NEW b, Handed(b, size)
  PROVE  Slob!KeepsPromise
<1>1. /\ b \in given' /\ b.size = size /\ given' = given \cup {b}
      /\ Slob!Abs!Span(b.block, size) \subseteq b.units
      /\ Slob!FreeUnits' \subseteq Slob!FreeUnits /\ b.units = Slob!FreeUnits \ Slob!FreeUnits'
  BY SlobWords DEF Handed
<1>2. Slob!Abs!Kmalloc(size)
  BY ONLY <1>1 DEF Slob!Abs!Kmalloc
<1> QED  BY <1>2 DEF Slob!KeepsPromise, Slob!Abs!Next

(* kmalloc of a small block.                                               *)
LEMMA KmallocSmallGood ==
  ASSUME SlobInv, NEW size \in BlockSize, Slob!KmallocSmall(size)
  PROVE  SlobStepGood
<1>1. PICK n : n = Slob!Need(size)
  OBVIOUS
<1>2. /\ n \in Nat /\ n >= 2 /\ n < Slob!PAGE_UNITS
      /\ (size - 1) \div SLOB_UNIT \in Nat /\ (size - 1) \div SLOB_UNIT + 2 <= n
  BY <1>1, SmallUnits DEF Slob!KmallocSmall
<1>3. /\ HeapInv(heap, pages, bigblocks, given) /\ Heap(heap) /\ pages \in SUBSET Slob!Page
      /\ FreeOf(heap) \cap PageUnits(pages) = {}
      /\ bigblocks \subseteq [at : Slob!Unit, order : Nat, pages : Slob!Page] /\ panicked \in BOOLEAN
  BY FreeIsFree DEF SlobInv, HeapInv
<1>4. PICK a \in Slob!SlobAlloc(heap, pages, n) :
        /\ heap' = a.heap /\ pages' = a.pages
        /\ given' = given \cup {[block |-> a.at + 1, size |-> size, units |-> Slob!RunOf(a.at, n)]}
  BY <1>1 DEF Slob!KmallocSmall, Slob!Hold
<1>5. bigblocks' = bigblocks /\ panicked' = panicked
  BY DEF Slob!KmallocSmall
<1>6. PICK Q : Obtained(heap, pages, n, a, Q)
  BY ONLY <1>2, <1>3, a \in Slob!SlobAlloc(heap, pages, n), SlobAllocated
<1>7. PICK at : at = a.at
  OBVIOUS
<1>8. /\ Q \subseteq pages /\ pages' = pages \ Q
      /\ Q # {} => \A x \in ToSet(heap.list) : ~ (heap.units[x] >= n)
      /\ Heap(heap') /\ heap' = [list |-> heap'.list, units |-> heap'.units]
      /\ FreeOf(heap') = (FreeOf(heap) \cup PageUnits(Q)) \ Span(at, n)
      /\ Span(at, n) \subseteq FreeOf(heap) \cup PageUnits(Q)
      /\ at > 1 /\ at \in 0 .. HeapMax /\ heap'.units[at] = n
      /\ Same(heap, heap', FreeOf(heap) \cup PageUnits(Q))
  BY ONLY <1>4, <1>6, <1>7 DEF Obtained
<1>9. PICK b : b = [block |-> at + 1, size |-> size, units |-> Span(at, n)]
  OBVIOUS
<1>10. b.block = at + 1 /\ b.size = size /\ b.units = Span(at, n) /\ given' = given \cup {b}
  BY ONLY <1>4, <1>7, <1>9, SlobWords
<1>11. at \in Nat
  BY <1>8, HeapConstants
<1>12. SmallIn(heap', b)
  <2>1. b.block - 1 = at
    BY ONLY <1>10, <1>11
  <2> QED  BY ONLY <1>2, <1>8, <1>10, <2>1 DEF SmallIn
<1>13. b.units # {}
  <2>1. at \in Span(at, n)
    BY ONLY <1>2, <1>11 DEF Span
  <2> QED  BY ONLY <1>10, <2>1
<1>14. PICK E : E = {} /\ PageUnits(E) = {}
  BY PageUnitsFacts
<1>15. Giving(heap, pages, bigblocks, given, Q, b.units, E, E, b, heap')
  BY ONLY <1>8, <1>10, <1>12, <1>13, <1>14, <1>3 DEF Giving
<1>16. /\ HeapInv(heap', (pages \ Q) \ E, bigblocks \cup E, given \cup {b})
       /\ b \notin given
       /\ FreeOf(heap') \cup PageUnits((pages \ Q) \ E) = (FreeOf(heap) \cup PageUnits(pages)) \ b.units
       /\ b.units \subseteq FreeOf(heap) \cup PageUnits(pages)
  <2>1. Given(heap, pages, bigblocks, given, Q, E, E, b, heap')
    BY ONLY <1>15, BlockGiven
  <2> QED  BY ONLY <2>1 DEF Given
<1>17. (pages \ Q) \ E = pages' /\ bigblocks \cup E = bigblocks' /\ given \cup {b} = given'
  BY ONLY <1>5, <1>8, <1>10, <1>14
<1>18. SlobInv'
  BY ONLY <1>3, <1>5, <1>8, <1>16, <1>17 DEF SlobInv, HeapInv, Slob!Unit, Slob!Page, Slob!PAGE_UNITS
<1>19. Slob!Abs!Span(b.block, size) \subseteq b.units
  <2>1. PICK k \in Nat : k = (size - 1) \div SLOB_UNIT /\ k + 2 <= n
    BY <1>2
  <2>2. at + 1 .. at + 1 + k \subseteq at .. at + n - 1
    BY ONLY <1>2, <1>11, <2>1, k \in Nat
  <2> QED  BY ONLY <1>10, <2>1, <2>2 DEF Slob!Abs!Span, Span
<1>20. Handed(b, size)
  BY ONLY <1>10, <1>16, <1>17, <1>19 DEF Handed
<1>21. Slob!Thrifty
  <2>1. ASSUME NEW c \in given' \ given, pages' # pages
        PROVE  \A u \in Slob!ToSet(heap.list) : heap.units[u] < Slob!Need(c.size)
    <3>1. c = b /\ Q # {}
      BY ONLY <1>8, <1>10, <2>1, c \in given' \ given
    <3>2. \A u \in ToSet(heap.list) : ~ (heap.units[u] >= n) /\ heap.units[u] \in Nat
      BY <1>3, <1>8, <3>1, HeapFacts, HeapConstants DEF Heap, FreeHeap
    <3>3. Slob!Need(c.size) = n
      BY ONLY <1>1, <1>10, <3>1
    <3>4. Slob!ToSet(heap.list) = ToSet(heap.list)
      BY DEF Slob!ToSet, ToSet
    <3> QED  BY ONLY <1>2, <3>2, <3>3, <3>4
  <2> QED  BY ONLY <2>1 DEF Slob!Thrifty
<1> QED  BY ONLY <1>18, <1>20, <1>21, size \in BlockSize, SlobGives DEF SlobStepGood

(* What slob_alloc gives for a descriptor.                                 *)
LEMMA DescriptorObtained ==
  ASSUME SlobInv, NEW a, a \in Slob!SlobAlloc(heap, pages, Slob!SLOB_UNITS(BIGBLOCK))
  PROVE  /\ \E Q : Obtained(heap, pages, Descriptor, a, Q)
         /\ HeapInv(heap, pages, bigblocks, given) /\ Heap(heap) /\ pages \in SUBSET Slob!Page
         /\ FreeOf(heap) \cap PageUnits(pages) = {}
         /\ bigblocks \subseteq [at : Slob!Unit, order : Nat, pages : Slob!Page] /\ panicked \in BOOLEAN
<1>1. /\ HeapInv(heap, pages, bigblocks, given) /\ Heap(heap) /\ pages \in SUBSET Slob!Page
      /\ FreeOf(heap) \cap PageUnits(pages) = {}
      /\ bigblocks \subseteq [at : Slob!Unit, order : Nat, pages : Slob!Page] /\ panicked \in BOOLEAN
  BY FreeIsFree DEF SlobInv, HeapInv
<1>2. a \in Slob!SlobAlloc(heap, pages, Descriptor)
  BY DEF Descriptor
<1>3. PICK n \in Nat : n = Descriptor /\ n >= 2 /\ n < Slob!PAGE_UNITS
  BY DescriptorUnits
<1>4. \E Q : Obtained(heap, pages, n, a, Q)
  BY ONLY <1>1, <1>2, <1>3, n \in Nat, SlobAllocated
<1> QED  BY ONLY <1>1, <1>3, <1>4

(* kmalloc of whole pages.                                                 *)
LEMMA KmallocPagesGood ==
  ASSUME SlobInv, NEW size \in BlockSize, Slob!KmallocPages(size)
  PROVE  SlobStepGood
<1>1. PICK order : order = Slob!find_order[size]
  OBVIOUS
<1>2. PICK m : m = 2 ^ order
  OBVIOUS
<1>3. /\ order \in Nat /\ m \in Nat /\ m >= 1
      /\ (size - 1) \div SLOB_UNIT \in Nat
      /\ (size - 1) \div SLOB_UNIT < m * Slob!PAGE_UNITS
  BY ONLY <1>1, <1>2, size \in BlockSize, EnoughPages
<1>4. PICK D \in Nat : D = Descriptor /\ D >= 2
  BY DescriptorUnits
<1>5. PICK a \in Slob!SlobAlloc(heap, pages, Slob!SLOB_UNITS(BIGBLOCK)) : \E p \in Slob!PageRuns(a.pages, order) :
        /\ heap' = [a.heap EXCEPT !.units[a.at] = order]
        /\ pages' = a.pages \ Slob!RunOf(p, 2 ^ order)
        /\ bigblocks' = bigblocks \cup {[at |-> a.at, order |-> order, pages |-> p]}
        /\ given' = given \cup {[block |-> p * Slob!PAGE_UNITS, size |-> size,
                 units |-> Slob!RunOf(a.at, Slob!SLOB_UNITS(BIGBLOCK)) \cup Slob!UnitsOf(Slob!RunOf(p, 2 ^ order))]}
  BY ONLY <1>1, Slob!KmallocPages(size) DEF Slob!KmallocPages, Slob!Hold
<1>6. PICK p \in Slob!PageRuns(a.pages, order) :
        /\ heap' = [a.heap EXCEPT !.units[a.at] = order]
        /\ pages' = a.pages \ Slob!RunOf(p, 2 ^ order)
        /\ bigblocks' = bigblocks \cup {[at |-> a.at, order |-> order, pages |-> p]}
        /\ given' = given \cup {[block |-> p * Slob!PAGE_UNITS, size |-> size,
                 units |-> Slob!RunOf(a.at, Slob!SLOB_UNITS(BIGBLOCK)) \cup Slob!UnitsOf(Slob!RunOf(p, 2 ^ order))]}
  BY ONLY <1>5
<1>7. panicked' = panicked /\ ~ Slob!Small(size)
  BY DEF Slob!KmallocPages
<1>8. /\ \E Q : Obtained(heap, pages, Descriptor, a, Q)
      /\ HeapInv(heap, pages, bigblocks, given) /\ Heap(heap) /\ pages \in SUBSET Slob!Page
      /\ FreeOf(heap) \cap PageUnits(pages) = {}
      /\ bigblocks \subseteq [at : Slob!Unit, order : Nat, pages : Slob!Page] /\ panicked \in BOOLEAN
  BY ONLY SlobInv, <1>5, DescriptorObtained
<1>9. PICK Q : Obtained(heap, pages, Descriptor, a, Q)
  BY <1>8
<1>10. PICK at : at = a.at
  OBVIOUS
<1>11. PICK g : g = a.heap
  OBVIOUS
<1>12. /\ Q \subseteq pages /\ a.pages = pages \ Q
       /\ Heap(g) /\ g = [list |-> g.list, units |-> g.units]
       /\ FreeOf(g) = (FreeOf(heap) \cup PageUnits(Q)) \ Span(at, D)
       /\ Span(at, D) \subseteq FreeOf(heap) \cup PageUnits(Q)
       /\ at > 1 /\ at \in 0 .. HeapMax
       /\ Same(heap, g, FreeOf(heap) \cup PageUnits(Q))
  BY ONLY <1>4, <1>9, <1>10, <1>11 DEF Obtained
<1>13. at \in Nat /\ at \in Slob!Unit
  BY <1>12, HeapConstants
<1>14. PICK S : S = Span(at, D)
  OBVIOUS
<1>15. at \in S
  BY ONLY <1>4, <1>13, <1>14 DEF Span
<1>16. Heap(heap') /\ FreeOf(heap') = FreeOf(g) /\ Same(g, heap', {at})
       /\ heap' = [list |-> heap'.list, units |-> heap'.units]
  <2>1. at \notin FreeOf(g)
    BY ONLY <1>12, <1>14, <1>15
  <2>2. heap' = [g EXCEPT !.units[at] = order]
    BY ONLY <1>6, <1>10, <1>11
  <2>3. PICK r : r = heap'
    OBVIOUS
  <2>4. Heap(r) /\ FreeOf(r) = FreeOf(g) /\ Same(g, r, {at})
    <3>1. Lengthened(g, at, order, r)
      BY ONLY <1>3, <1>12, <2>1, <2>2, <2>3 DEF Lengthened
    <3> QED  BY ONLY <3>1, LengthOffList
  <2>5. PICK f : f = [g.units EXCEPT ![at] = order]
    OBVIOUS
  <2>6. r = [list |-> g.list, units |-> f]
    BY ONLY <1>12, <2>2, <2>3, <2>5
  <2>7. r = [list |-> r.list, units |-> r.units]
    BY ONLY <2>6
  <2> QED  BY ONLY <2>3, <2>4, <2>7
<1>17. PICK R : R = Span(p, m)
  OBVIOUS
<1>18. R \subseteq pages \ Q /\ p \in pages /\ pages' = (pages \ Q) \ R
  BY ONLY <1>2, <1>6, <1>12, <1>17, SlobWords DEF Slob!PageRuns
<1>19. p \in Nat /\ p >= 1 /\ p \in Slob!Page
  <2>1. p \in Slob!Page
    BY ONLY <1>8, <1>18
  <2> QED  BY <2>1, HeapConstants
<1>20. p \in R /\ R \subseteq Slob!Page
  <2>1. p \in Span(p, m)
    BY ONLY <1>3, <1>19 DEF Span
  <2> QED  BY ONLY <1>8, <1>17, <1>18, <2>1
<1>21. PICK b : b = [block |-> p * Slob!PAGE_UNITS, size |-> size, units |-> S \cup PageUnits(R)]
  OBVIOUS
<1>22. b.block = p * Slob!PAGE_UNITS /\ b.size = size /\ b.units = S \cup PageUnits(R) /\ given' = given \cup {b}
  <2>1. /\ Slob!RunOf(a.at, Slob!SLOB_UNITS(BIGBLOCK)) = S
        /\ Slob!UnitsOf(Slob!RunOf(p, 2 ^ order)) = PageUnits(R)
    BY ONLY <1>2, <1>4, <1>10, <1>14, <1>17, SlobWords DEF Descriptor
  <2> QED  BY ONLY <1>6, <1>21, <2>1
<1>23. PICK bb : bb = [at |-> at, order |-> order, pages |-> p]
  OBVIOUS
<1>24. bb.at = at /\ bb.order = order /\ bb.pages = p /\ bigblocks' = bigblocks \cup {bb}
  BY ONLY <1>6, <1>10, <1>23
<1>25. RunOfPages(bb) = R
  BY ONLY <1>2, <1>17, <1>24 DEF RunOfPages
<1>26. BigIn(b, bb)
  BY ONLY <1>4, <1>14, <1>22, <1>24, <1>25 DEF BigIn
<1>27. S \cap PageUnits(R) = {} /\ PageUnits(R) \subseteq PageUnits(pages)
  <2>1. R \subseteq pages \ Q /\ Q \subseteq pages /\ R \subseteq pages
    BY ONLY <1>12, <1>18
  <2>2. PageUnits(R) \subseteq PageUnits(pages \ Q)
    BY ONLY <2>1, PageUnitsFacts
  <2>3. PageUnits(pages \ Q) = PageUnits(pages) \ PageUnits(Q)
    BY ONLY PageUnitsFacts
  <2> QED  BY ONLY <1>8, <1>12, <1>14, <2>2, <2>3
<1>28. DescriptorOK(bb)
  BY ONLY <1>2, <1>3, <1>4, <1>12, <1>14, <1>19, <1>20, <1>24, <1>25, <1>27 DEF DescriptorOK
<1>29. Same(heap, heap', FreeOf(heap) \cup PageUnits(Q))
  BY ONLY <1>12, <1>14, <1>15, <1>16 DEF Same
<1>30. PICK X : X = {bb}
  OBVIOUS
<1>31. Giving(heap, pages, bigblocks, given, Q, S, R, X, b, heap')
  <2>1. b.units # {}
    BY ONLY <1>15, <1>22
  <2>2. \A bc \in X : DescriptorOK(bc) /\ BigIn(b, bc) /\ bc.pages \in R
    BY ONLY <1>20, <1>24, <1>26, <1>28, <1>30
  <2>3. \E bc \in X : BigIn(b, bc)
    BY ONLY <1>26, <1>30
  <2>4. \A bc, bd \in X : bc = bd
    BY ONLY <1>30
  <2> QED  BY ONLY <1>8, <1>12, <1>14, <1>16, <1>18, <1>22, <1>29, <2>1, <2>2, <2>3, <2>4 DEF Giving
<1>32. /\ HeapInv(heap', (pages \ Q) \ R, bigblocks \cup X, given \cup {b})
       /\ b \notin given
       /\ FreeOf(heap') \cup PageUnits((pages \ Q) \ R) = (FreeOf(heap) \cup PageUnits(pages)) \ b.units
       /\ b.units \subseteq FreeOf(heap) \cup PageUnits(pages)
  <2>1. Given(heap, pages, bigblocks, given, Q, R, X, b, heap')
    BY ONLY <1>31, BlockGiven
  <2> QED  BY ONLY <2>1 DEF Given
<1>33. HeapInv(heap', pages', bigblocks', given')
  BY ONLY <1>18, <1>22, <1>24, <1>30, <1>32
<1>34. bigblocks' \subseteq [at : Slob!Unit, order : Nat, pages : Slob!Page]
  BY ONLY <1>3, <1>8, <1>13, <1>19, <1>23, <1>24
<1>35. SlobInv'
  BY ONLY <1>7, <1>8, <1>16, <1>33, <1>34 DEF SlobInv, Slob!Unit, Slob!Page, Slob!PAGE_UNITS
<1>36. Slob!Abs!Span(b.block, size) \subseteq b.units
  <2>1. PICK k \in Nat : k = (size - 1) \div SLOB_UNIT /\ k < m * Slob!PAGE_UNITS
    BY <1>3
  <2>2. PICK U \in Nat : U = Slob!PAGE_UNITS
    BY HeapConstants
  <2>3. /\ p * U \in Nat
        /\ \A u \in Nat : u \in PageUnits(R) <=> p * U <= u /\ u < p * U + m * U
    BY ONLY <1>3, <1>17, <1>19, <1>20, <2>2, PageUnitsOfRun
  <2>4. m * U \in Nat
    BY ONLY <1>3, U \in Nat
  <2>5. PICK c \in Nat : c = p * U
    BY <2>3
  <2>6. PICK e \in Nat : e = m * U
    BY <2>4
  <2>7. c .. c + k \subseteq PageUnits(R)
    <3>1. \A u \in c .. c + k : u \in Nat /\ c <= u /\ u < c + e
      BY ONLY <2>1, <2>2, <2>6, k \in Nat, c \in Nat, e \in Nat
    <3> QED  BY ONLY <2>3, <2>5, <2>6, <3>1
  <2>8. Slob!Abs!Span(b.block, size) = c .. c + k
    BY ONLY <1>22, <2>1, <2>2, <2>5 DEF Slob!Abs!Span
  <2> QED  BY ONLY <1>22, <2>7, <2>8
<1>37. Handed(b, size)
  BY ONLY <1>18, <1>22, <1>32, <1>36 DEF Handed
<1>38. Slob!Thrifty
  <2>1. \A c \in given' \ given : c.size = size
    BY ONLY <1>22
  <2> QED  BY ONLY <1>7, <2>1 DEF Slob!Thrifty
<1> QED  BY ONLY <1>35, <1>37, <1>38, size \in BlockSize, SlobGives DEF SlobStepGood

(* kmalloc of pages that there are not: the descriptor goes back.          *)
LEMMA KmallocGivesUpGood ==
  ASSUME SlobInv, NEW size \in BlockSize, Slob!KmallocGivesUp(size)
  PROVE  SlobStepGood
<1>1. PICK D \in Nat \ {0} : D = Descriptor /\ D >= 2
  BY DescriptorUnits
<1>2. PICK a \in Slob!SlobAlloc(heap, pages, Slob!SLOB_UNITS(BIGBLOCK)) :
        /\ pages' = a.pages
        /\ heap' = Slob!SlobFree(a.heap, a.at, Slob!SLOB_UNITS(BIGBLOCK))
  BY DEF Slob!KmallocGivesUp
<1>3. bigblocks' = bigblocks /\ given' = given /\ panicked' = panicked
  BY DEF Slob!KmallocGivesUp
<1>4. /\ \E Q : Obtained(heap, pages, Descriptor, a, Q)
      /\ HeapInv(heap, pages, bigblocks, given) /\ Heap(heap) /\ pages \in SUBSET Slob!Page
      /\ FreeOf(heap) \cap PageUnits(pages) = {}
      /\ bigblocks \subseteq [at : Slob!Unit, order : Nat, pages : Slob!Page] /\ panicked \in BOOLEAN
  BY ONLY SlobInv, <1>2, DescriptorObtained
<1>5. PICK Q : Obtained(heap, pages, Descriptor, a, Q)
  BY <1>4
<1>6. PICK at : at = a.at
  OBVIOUS
<1>7. PICK g : g = a.heap
  OBVIOUS
<1>8. PICK r : r = heap'
  OBVIOUS
<1>9. /\ Q \subseteq pages /\ a.pages = pages \ Q
      /\ Heap(g)
      /\ FreeOf(g) = (FreeOf(heap) \cup PageUnits(Q)) \ Span(at, D)
      /\ Span(at, D) \subseteq FreeOf(heap) \cup PageUnits(Q)
      /\ at > 1 /\ at \in 0 .. HeapMax
      /\ Same(heap, g, FreeOf(heap) \cup PageUnits(Q))
  BY ONLY <1>1, <1>5, <1>6, <1>7 DEF Obtained
<1>10. at \in Nat
  BY <1>9, HeapConstants
<1>11. at + D - 1 <= HeapMax
  <2>1. Heap(heap) /\ PageUnits(Q) \subseteq 0 .. HeapMax
    BY <1>4, PageUnitsFacts
  <2>2. FreeOf(heap) \subseteq 0 .. HeapMax
    BY ONLY <2>1 DEF Heap, FreeHeap, FreeOf
  <2>3. at + D - 1 \in Span(at, D)
    BY ONLY <1>1, <1>10 DEF Span
  <2>4. at + D - 1 \in 0 .. HeapMax
    BY ONLY <1>9, <2>1, <2>2, <2>3
  <2> QED  BY ONLY <2>4, HeapConstants
<1>12. Span(at, D) \cap FreeOf(g) = {}
  BY ONLY <1>9
<1>13. r = Slob!SlobFree(g, at, D)
  BY ONLY <1>1, <1>2, <1>6, <1>7, <1>8 DEF Descriptor
<1>14. /\ Heap(r) /\ FreeOf(r) = FreeOf(g) \cup Span(at, D) /\ Same(g, r, FreeOf(r))
       /\ r = [list |-> r.list, units |-> r.units]
  BY ONLY <1>9, <1>10, <1>11, <1>12, <1>13, D \in Nat \ {0}, SlobFreed
<1>15. FreeOf(r) = FreeOf(heap) \cup PageUnits(Q)
  BY ONLY <1>9, <1>14
<1>16. Same(heap, r, FreeOf(r))
  BY ONLY <1>9, <1>14, <1>15 DEF Same
<1>17. /\ HeapInv(r, pages \ Q, bigblocks, given)
       /\ FreeOf(r) \cup PageUnits(pages \ Q) = FreeOf(heap) \cup PageUnits(pages)
  <2>1. Growing(heap, pages, bigblocks, given, Q, r)
    BY ONLY <1>4, <1>9, <1>14, <1>15, <1>16 DEF Growing
  <2>2. Grown(heap, pages, bigblocks, given, Q, r)
    BY ONLY <2>1, NothingGiven
  <2> QED  BY ONLY <2>2 DEF Grown
<1>18. HeapInv(heap', pages', bigblocks', given')
  BY ONLY <1>2, <1>3, <1>8, <1>9, <1>17
<1>19. SlobInv'
  BY ONLY <1>3, <1>4, <1>8, <1>14, <1>18 DEF SlobInv, Slob!Unit, Slob!Page, Slob!PAGE_UNITS
<1>20. Slob!KeepsPromise
  <2>1. Slob!FreeUnits' = Slob!FreeUnits
    BY ONLY <1>2, <1>8, <1>9, <1>17, SlobWords
  <2> QED  BY ONLY <1>3, <2>1 DEF Slob!KeepsPromise
<1>21. Slob!Thrifty
  BY ONLY <1>3 DEF Slob!Thrifty
<1> QED  BY ONLY <1>19, <1>20, <1>21 DEF SlobStepGood

(* Where a page begins, and its number.                                    *)
LEMMA PageNumber ==
  ASSUME NEW x \in Nat, NEW U \in Nat \ {0}
  PROVE  (x * U) % U = 0 /\ (x * U) \div U = x
<1>1. PICK a \in Nat : a = x * U
  OBVIOUS
<1>2. PICK q \in Nat : q = a \div U
  BY DivOrder
<1>3. x <= q <=> x * U <= a
  BY ONLY <1>2, a \in Nat, x \in Nat, U \in Nat \ {0}, DivOrder
<1>4. x + 1 <= q <=> (x + 1) * U <= a
  <2>1. PICK y \in Nat : y = x + 1
    OBVIOUS
  <2>2. y <= q <=> y * U <= a
    BY ONLY <1>2, a \in Nat, y \in Nat, U \in Nat \ {0}, DivOrder
  <2> QED  BY ONLY <2>1, <2>2
<1>5. (x + 1) * U = x * U + U
  OBVIOUS
<1>6. q = x
  BY ONLY <1>1, <1>3, <1>4, <1>5, a \in Nat, q \in Nat, x \in Nat, U \in Nat \ {0}
<1>7. a = U * q + (a % U)
  BY ONLY <1>2, a \in Nat, U \in Nat \ {0}
<1>8. U * q = a /\ a % U \in Int
  BY ONLY <1>1, <1>6, a \in Nat, U \in Nat \ {0}
<1> QED  BY ONLY <1>1, <1>2, <1>6, <1>7, <1>8, a \in Nat

(* kfree of a block of pages that bb describes.                            *)
FreesPages(b, bb) ==
  /\ b \in given /\ bb \in bigblocks /\ bb.pages * Slob!PAGE_UNITS = b.block
  /\ bigblocks' = bigblocks \ {bb}
  /\ pages' = pages \cup Slob!RunOf(bb.pages, 2 ^ bb.order)
  /\ heap' = Slob!SlobFree(heap, bb.at, Slob!DescriptorUnits(bb))
  /\ given' = given \ {b} /\ panicked' = panicked
FreesUnits(b) ==
  /\ b \in given
  /\ ~ (b.block % Slob!PAGE_UNITS = 0 /\ \E bb \in bigblocks : bb.pages * Slob!PAGE_UNITS = b.block)
  /\ heap' = Slob!SlobFree(heap, b.block - 1, heap.units[b.block - 1])
  /\ pages' = pages /\ bigblocks' = bigblocks /\ given' = given \ {b} /\ panicked' = panicked

(* Whatever went back, the heap has kept its word.                         *)
LEMMA SlobTakes ==
  ASSUME SlobInv, NEW b \in given, NEW R, NEW X, Back(heap, pages, bigblocks, given, R, X, b, heap'),
         pages' = pages \cup R, bigblocks' = bigblocks \ X, given' = given \ {b}, panicked' = panicked,
         heap' = [list |-> heap'.list, units |-> heap'.units]
  PROVE  SlobStepGood
<1>1. /\ HeapInv(heap', pages', bigblocks', given')
      /\ FreeOf(heap') \cup PageUnits(pages') = (FreeOf(heap) \cup PageUnits(pages)) \cup b.units
  <2>1. PICK P : P = pages \cup R
    OBVIOUS
  <2>2. PICK BB : BB = bigblocks \ X
    OBVIOUS
  <2>3. PICK G : G = given \ {b}
    OBVIOUS
  <2>4. PICK r : r = heap'
    OBVIOUS
  <2>5. /\ HeapInv(r, P, BB, G)
        /\ FreeOf(r) \cup PageUnits(P) = (FreeOf(heap) \cup PageUnits(pages)) \cup b.units
    BY ONLY <2>1, <2>2, <2>3, <2>4, Back(heap, pages, bigblocks, given, R, X, b, heap') DEF Back
  <2>6. pages' = P /\ bigblocks' = BB /\ given' = G
    BY ONLY <2>1, <2>2, <2>3, pages' = pages \cup R, bigblocks' = bigblocks \ X, given' = given \ {b}
  <2> QED  BY ONLY <2>4, <2>5, <2>6
<1>2. SlobInv'
  BY <1>1 DEF SlobInv, Slob!Unit, Slob!Page, Slob!PAGE_UNITS
<1>3. Slob!KeepsPromise
  <2>1. Slob!FreeUnits' = Slob!FreeUnits \cup b.units
    BY ONLY <1>1, SlobWords
  <2>2. Slob!Abs!Kfree(b)
    BY <2>1 DEF Slob!Abs!Kfree
  <2> QED  BY <2>2 DEF Slob!KeepsPromise, Slob!Abs!Next
<1>4. Slob!Thrifty
  <2>1. given' \ given = {}
    BY ONLY given' = given \ {b}
  <2> QED  BY ONLY <2>1 DEF Slob!Thrifty
<1> QED  BY ONLY <1>2, <1>3, <1>4 DEF SlobStepGood

(* kfree of a block of pages: its descriptor goes back to the list.        *)
LEMMA FreesPagesGood ==
  ASSUME SlobInv, NEW b, NEW bb, FreesPages(b, bb)
  PROVE  SlobStepGood
<1>1. /\ HeapInv(heap, pages, bigblocks, given) /\ Heap(heap)
      /\ Accounted(heap, pages, given) /\ Described(heap, bigblocks, given)
  BY DEF SlobInv, HeapInv
<1>2. /\ b \in given /\ bb \in bigblocks /\ bb.pages * Slob!PAGE_UNITS = b.block
      /\ bigblocks' = bigblocks \ {bb} /\ given' = given \ {b} /\ panicked' = panicked
      /\ pages' = pages \cup Slob!RunOf(bb.pages, 2 ^ bb.order)
      /\ heap' = Slob!SlobFree(heap, bb.at, Slob!DescriptorUnits(bb))
  BY DEF FreesPages
<1>3. PICK U \in Nat \ {0} : U = Slob!PAGE_UNITS
  BY HeapConstants
<1>4. DescriptorOK(bb) /\ \E c \in given : BigIn(c, bb)
  BY ONLY <1>1, <1>2 DEF Described
<1>5. /\ FreeOf(heap) \cap Owned(given) = {}
      /\ \A c \in given : c.units \subseteq Owned(given)
  BY ONLY <1>1, FreeIsFree
<1>6. BigIn(b, bb)
  <2>1. PICK c \in given : BigIn(c, bb)
    BY <1>4
  <2>2. c.block = b.block
    BY ONLY <1>2, <2>1 DEF BigIn
  <2>3. c.block \in c.units /\ b.block \in b.units
    BY ONLY <1>1, <1>2, c \in given, BlockInside
  <2>4. c # b => c.units \cap b.units = {}
    BY ONLY <1>1, <1>2, c \in given DEF Accounted
  <2> QED  BY ONLY <2>1, <2>2, <2>3, <2>4
<1>7. PICK D \in Nat \ {0} : D = Descriptor
  BY DescriptorUnits
<1>8. PICK at : at = bb.at
  OBVIOUS
<1>9. PICK S : S = Span(at, D)
  OBVIOUS
<1>10. PICK R : R = RunOfPages(bb)
  OBVIOUS
<1>11. /\ at \in 0 .. HeapMax /\ at > 1 /\ R \subseteq Slob!Page /\ S \cap PageUnits(R) = {}
       /\ bb.pages \in Slob!Page
  BY ONLY <1>4, <1>7, <1>8, <1>9, <1>10 DEF DescriptorOK
<1>12. b.units = S \cup PageUnits(R)
  BY ONLY <1>6, <1>7, <1>8, <1>9, <1>10 DEF BigIn
<1>13. at \in Nat
  BY <1>11, HeapConstants
<1>14. S \cap FreeOf(heap) = {}
  BY ONLY <1>2, <1>5, <1>12
<1>15. at + D - 1 <= HeapMax
  <2>1. at + D - 1 \in S
    BY ONLY <1>9, <1>13, D \in Nat \ {0} DEF Span
  <2>2. S \subseteq {0} \cup PageUnits(Slob!Page \ pages)
    BY ONLY <1>1, <1>2, <1>5, <1>12 DEF Accounted
  <2>3. PageUnits(Slob!Page \ pages) \subseteq 0 .. HeapMax
    BY ONLY PageUnitsFacts
  <2>4. 0 \in 0 .. HeapMax /\ HeapMax \in Nat
    BY HeapConstants
  <2>5. at + D - 1 \in 0 .. HeapMax
    BY ONLY <2>1, <2>2, <2>3, <2>4
  <2> QED  BY ONLY <2>4, <2>5
<1>16. PICK r : r = heap'
  OBVIOUS
<1>17. r = Slob!SlobFree(heap, at, D)
  BY ONLY <1>2, <1>7, <1>8, <1>16 DEF Slob!DescriptorUnits, Descriptor
<1>18. /\ Heap(r) /\ FreeOf(r) = FreeOf(heap) \cup S /\ Same(heap, r, FreeOf(r))
       /\ r = [list |-> r.list, units |-> r.units]
  BY ONLY <1>1, <1>9, <1>11, <1>13, <1>14, <1>15, <1>17, D \in Nat \ {0}, SlobFreed
<1>19. PICK X : X = {bb}
  OBVIOUS
<1>20. ASSUME NEW bc \in bigblocks, bc # bb
       PROVE  ~ BigIn(b, bc)
  <2>1. bb.pages \in Nat
    BY <1>11, HeapConstants
  <2>2. bc.pages \in Slob!Page
    BY ONLY <1>1, bc \in bigblocks DEF Described, DescriptorOK
  <2>3. bc.pages \in Nat
    BY <2>2, HeapConstants
  <2>4. BigIn(b, bc) => bc.pages * U = bb.pages * U
    BY ONLY <1>2, <1>3 DEF BigIn
  <2>5. (bc.pages * U) \div U = bc.pages /\ (bb.pages * U) \div U = bb.pages
    BY ONLY <2>1, <2>3, U \in Nat \ {0}, PageNumber
  <2>6. bc.pages # bb.pages
    BY ONLY <1>1, <1>2, <1>20, bc \in bigblocks DEF Described
  <2> QED  BY ONLY <2>4, <2>5, <2>6
<1>21. TakenBack(heap, pages, bigblocks, given, S, R, X, b, r)
  BY ONLY <1>1, <1>2, <1>6, <1>11, <1>12, <1>18, <1>19, <1>20 DEF TakenBack
<1>22. Back(heap, pages, bigblocks, given, R, X, b, r)
  BY ONLY <1>21, BlockTakenBack
<1>23. Slob!RunOf(bb.pages, 2 ^ bb.order) = R
  BY ONLY <1>10, SlobWords DEF RunOfPages
<1>24. /\ pages' = pages \cup R /\ bigblocks' = bigblocks \ X /\ given' = given \ {b} /\ panicked' = panicked
       /\ heap' = [list |-> heap'.list, units |-> heap'.units]
       /\ Back(heap, pages, bigblocks, given, R, X, b, heap')
  BY ONLY <1>2, <1>16, <1>18, <1>19, <1>22, <1>23
<1> QED  BY ONLY <1>2, <1>24, SlobInv, SlobTakes

(* kfree of a small block, wherever it begins.                             *)
LEMMA FreesUnitsGood ==
  ASSUME SlobInv, NEW b, FreesUnits(b)
  PROVE  SlobStepGood
<1>1. /\ HeapInv(heap, pages, bigblocks, given) /\ Heap(heap)
      /\ Accounted(heap, pages, given) /\ Described(heap, bigblocks, given)
  BY DEF SlobInv, HeapInv
<1>2. /\ b \in given
      /\ ~ (b.block % Slob!PAGE_UNITS = 0 /\ \E bb \in bigblocks : bb.pages * Slob!PAGE_UNITS = b.block)
      /\ heap' = Slob!SlobFree(heap, b.block - 1, heap.units[b.block - 1])
      /\ pages' = pages /\ bigblocks' = bigblocks /\ given' = given \ {b} /\ panicked' = panicked
  BY DEF FreesUnits
<1>3. /\ FreeOf(heap) \cap Owned(given) = {}
      /\ \A c \in given : c.units \subseteq Owned(given)
  BY ONLY <1>1, FreeIsFree
<1>4. ASSUME NEW bb \in bigblocks
      PROVE  ~ BigIn(b, bb)
  <2>1. PICK U \in Nat \ {0} : U = Slob!PAGE_UNITS
    BY HeapConstants
  <2>2. bb.pages \in Slob!Page
    BY ONLY <1>1, bb \in bigblocks DEF Described, DescriptorOK
  <2>3. bb.pages \in Nat
    BY <2>2, HeapConstants
  <2>4. (bb.pages * U) % U = 0
    BY ONLY <2>3, U \in Nat \ {0}, PageNumber
  <2>5. BigIn(b, bb) => b.block = bb.pages * U
    BY ONLY <2>1 DEF BigIn
  <2> QED  BY ONLY <1>2, <2>1, <2>4, <2>5, bb \in bigblocks
<1>5. SmallIn(heap, b)
  BY ONLY <1>1, <1>2, <1>4 DEF Described
<1>6. PICK at : at = b.block - 1
  OBVIOUS
<1>7. PICK n : n = heap.units[at]
  OBVIOUS
<1>8. at \in 0 .. HeapMax /\ at > 1 /\ n >= 2 /\ b.units = Span(at, n)
  BY ONLY <1>5, <1>6, <1>7 DEF SmallIn
<1>9. at \in Nat /\ n \in Nat \ {0}
  <2>1. heap.units \in [0 .. HeapMax -> Nat]
    BY ONLY <1>1 DEF Heap, FreeHeap
  <2>2. n \in Nat
    BY ONLY <1>7, <1>8, <2>1
  <2> QED  BY <1>8, <2>2, HeapConstants
<1>10. b.units \cap FreeOf(heap) = {}
  BY ONLY <1>2, <1>3
<1>11. at + n - 1 <= HeapMax
  <2>1. at + n - 1 \in b.units
    BY ONLY <1>8, <1>9 DEF Span
  <2>2. b.units \subseteq {0} \cup PageUnits(Slob!Page \ pages)
    BY ONLY <1>1, <1>2, <1>3 DEF Accounted
  <2>3. PageUnits(Slob!Page \ pages) \subseteq 0 .. HeapMax
    BY ONLY PageUnitsFacts
  <2>4. 0 \in 0 .. HeapMax /\ HeapMax \in Nat
    BY HeapConstants
  <2>5. at + n - 1 \in 0 .. HeapMax
    BY ONLY <2>1, <2>2, <2>3, <2>4
  <2> QED  BY ONLY <2>4, <2>5
<1>12. PICK r : r = heap'
  OBVIOUS
<1>13. r = Slob!SlobFree(heap, at, n)
  BY ONLY <1>2, <1>6, <1>7, <1>12
<1>14. Span(at, n) \cap FreeOf(heap) = {}
  BY ONLY <1>8, <1>10
<1>15. /\ Heap(r) /\ FreeOf(r) = FreeOf(heap) \cup Span(at, n) /\ Same(heap, r, FreeOf(r))
       /\ r = [list |-> r.list, units |-> r.units]
  BY ONLY <1>1, <1>8, <1>9, <1>11, <1>13, <1>14, SlobFreed
<1>16. PICK E : E = {} /\ PageUnits(E) = {}
  BY PageUnitsFacts
<1>17. TakenBack(heap, pages, bigblocks, given, b.units, E, E, b, r)
  BY ONLY <1>1, <1>2, <1>4, <1>8, <1>15, <1>16 DEF TakenBack
<1>18. Back(heap, pages, bigblocks, given, E, E, b, r)
  BY ONLY <1>17, BlockTakenBack
<1>19. /\ pages' = pages \cup E /\ bigblocks' = bigblocks \ E /\ given' = given \ {b} /\ panicked' = panicked
       /\ heap' = [list |-> heap'.list, units |-> heap'.units]
       /\ Back(heap, pages, bigblocks, given, E, E, b, heap')
  BY ONLY <1>2, <1>12, <1>15, <1>16, <1>18
<1> QED  BY ONLY <1>2, <1>19, SlobInv, SlobTakes

(* Every operation of the heap.                                            *)
LEMMA SlobNextGood ==
  ASSUME SlobInv, Slob!Next
  PROVE  SlobStepGood
<1>1. ASSUME NEW size \in BlockSize, Slob!KmallocPanics(size)
      PROVE  SlobStepGood
  <2>1. UNCHANGED <<heap, pages, bigblocks, given>> /\ panicked' \in BOOLEAN
    BY ONLY <1>1 DEF Slob!KmallocPanics
  <2> QED  BY ONLY SlobInv, <2>1, SlobStutter
<1>2. ASSUME NEW b \in given, Slob!Kfree(b)
      PROVE  SlobStepGood
  <2>1. CASE b.block % Slob!PAGE_UNITS = 0 /\ \E bb \in bigblocks : bb.pages * Slob!PAGE_UNITS = b.block
    <3>1. PICK bb \in bigblocks :
            /\ bb.pages * Slob!PAGE_UNITS = b.block
            /\ bigblocks' = bigblocks \ {bb}
            /\ pages' = pages \cup Slob!RunOf(bb.pages, 2 ^ bb.order)
            /\ heap' = Slob!SlobFree(heap, bb.at, Slob!DescriptorUnits(bb))
      BY ONLY <1>2, <2>1 DEF Slob!Kfree
    <3>2. given' = given \ {b} /\ panicked' = panicked
      BY ONLY <1>2 DEF Slob!Kfree
    <3>3. FreesPages(b, bb)
      BY ONLY <3>1, <3>2, b \in given, bb \in bigblocks DEF FreesPages
    <3> QED  BY ONLY <3>3, SlobInv, FreesPagesGood
  <2>2. CASE ~ (b.block % Slob!PAGE_UNITS = 0 /\ \E bb \in bigblocks : bb.pages * Slob!PAGE_UNITS = b.block)
    <3>1. FreesUnits(b)
      BY ONLY <1>2, <2>2, b \in given DEF Slob!Kfree, FreesUnits
    <3> QED  BY ONLY <3>1, SlobInv, FreesUnitsGood
  <2> QED  BY ONLY <2>1, <2>2
<1> QED  BY ONLY <1>1, <1>2, SlobInv, Slob!Next, KmallocSmallGood, KmallocPagesGood, KmallocGivesUpGood DEF Slob!Next

(* From arena on, the blocks of the list go up and leave room between.     *)
LEMMA ListGoesUp ==
  ASSUME NEW l, NEW f, FreeHeap(HeapMax, l, f), NEW low, low = Slob!SelectInSeq(l, LAMBDA u : u = Slob!arena),
         NEW t, t = Slob!Rotate(l, low)
  PROVE  low # 0 /\ \A i \in 1 .. Len(l) - 1 : t[i] + f[t[i]] < t[i + 1]
<1>1. /\ HeapMax \in Nat /\ l \in Seq(Nat) /\ ToSet(l) \subseteq 0 .. HeapMax /\ Len(l) \in Nat \ {0}
  BY HeapFacts, HeapConstants
<1>2. DOMAIN l = 1 .. Len(l) /\ 0 \in ToSet(l)
  BY ONLY <1>1, LenProperties, FreeHeap(HeapMax, l, f) DEF FreeHeap
<1> DEFINE I == {i \in 1 .. Len(l) : l[i] = 0}
<1>3. low = IF I # {} THEN Slob!Min(I) ELSE 0
  BY ONLY low = Slob!SelectInSeq(l, LAMBDA u : u = Slob!arena) DEF Slob!SelectInSeq, Slob!arena
<1>4. I # {} /\ I \in SUBSET Nat
  BY ONLY <1>1, <1>2 DEF ToSet
<1>5. low \in 1 .. Len(l) /\ l[low] = 0
  <2>1. low \in I
    <3> HIDE DEF I
    <3> QED  BY ONLY <1>3, <1>4, SlobMin
  <2> QED  BY ONLY <2>1
<1> HIDE DEF I
<1>6. IsTurned(l, low, t)
  <2>1. t = Turned(l, low)
    BY ONLY t = Slob!Rotate(l, low) DEF Slob!Rotate, Turned
  <2> QED  BY ONLY <1>1, <1>5, <2>1, TurnedProperties
<1>7. FreeHeap(HeapMax, t, f) /\ ToSet(t) = ToSet(l) /\ Len(t) = Len(l) /\ t[1] = 0
  BY ONLY <1>1, <1>5, <1>6, FreeHeap(HeapMax, l, f), HeapTurns
<1>8. Circular(t) /\ Apart(ToSet(t), f)
  BY ONLY <1>7 DEF FreeHeap
<1>9. \A i \in 1 .. Len(l) : t[i] \in ToSet(t) /\ t[i] \in Nat
  <2>1. /\ t \in Seq(Nat) /\ ToSet(t) \subseteq 0 .. HeapMax /\ \A j \in 1 .. Len(t) : t[j] \in ToSet(t)
    BY ONLY <1>1, <1>7, HeapFacts
  <2> QED  BY ONLY <1>1, <1>7, <2>1
<1>10. DOMAIN t = 1 .. Len(l)
  BY ONLY <1>7, LenProperties DEF FreeHeap
<1>11. ASSUME NEW i \in 1 .. Len(l) - 1
       PROVE  t[i] + f[t[i]] < t[i + 1]
  <2>1. i \in 1 .. Len(l) /\ i + 1 \in 1 .. Len(l) /\ 1 \in 1 .. Len(l) /\ i # i + 1 /\ i < i + 1 /\ (i # 1 => 1 < i)
    BY ONLY <1>1, i \in 1 .. Len(l) - 1
  <2>2. t[i] # t[i + 1]
    BY ONLY <1>8, <1>10, <2>1 DEF Circular, Distinct
  <2>3. t[i] < t[i + 1]
    <3>1. CASE i = 1
      BY ONLY <1>7, <1>9, <2>1, <2>2, <3>1
    <3>2. CASE i # 1
      <4>1. Cyc(t[1], t[i], t[i + 1])
        BY ONLY <1>7, <1>8, <2>1, <3>2 DEF Circular
      <4> QED  BY ONLY <1>7, <1>9, <2>1, <4>1 DEF Cyc
    <3> QED  BY ONLY <3>1, <3>2
  <2> QED  BY ONLY <1>8, <1>9, <2>1, <2>3 DEF Apart
<1> QED  BY ONLY <1>1, <1>5, <1>11

(* What the invariant says in the words of the runs.                       *)
LEMMA SlobExact ==
  ASSUME SlobInv
  PROVE  Slob!HeapExact
<1>1. /\ HeapInv(heap, pages, bigblocks, given) /\ Heap(heap) /\ Accounted(heap, pages, given)
      /\ pages \in SUBSET Slob!Page
  BY DEF SlobInv, HeapInv
<1>2. FreeHeap(HeapMax, heap.list, heap.units)
  BY ONLY <1>1 DEF Heap
<1>3. Slob!TypeOK
  <2>1. heap.list \in Seq(Slob!Unit) /\ heap.units \in [Slob!Unit -> Nat]
    BY ONLY <1>2, HeapConstants DEF FreeHeap
  <2> QED  BY <1>1, <2>1 DEF Slob!TypeOK, SlobInv
<1>4. Slob!ListUnits \cap Slob!HeldUnits = {} /\ Slob!ListUnits \cup Slob!HeldUnits = {Slob!arena} \cup Slob!UnitsOf(Slob!Page \ pages)
  <2>1. \A l : Slob!ToSet(l) = ToSet(l)
    BY DEF Slob!ToSet, ToSet
  <2>2. Slob!ListUnits = FreeOf(heap)
    BY ONLY <2>1 DEF Slob!ListUnits, FreeOf, Covered, Slob!RunOf
  <2> QED  BY ONLY <1>1, <2>2 DEF Accounted, Owned, PageUnits, Slob!HeldUnits, Slob!arena
<1>5. PICK low : low = Slob!SelectInSeq(heap.list, LAMBDA u : u = Slob!arena)
  OBVIOUS
<1>6. PICK t : t = Slob!Rotate(heap.list, low)
  OBVIOUS
<1>7. low # 0 /\ \A i \in 1 .. Len(heap.list) - 1 : t[i] + heap.units[t[i]] < t[i + 1]
  BY ONLY <1>2, <1>5, <1>6, ListGoesUp
<1> QED  BY ONLY <1>3, <1>4, <1>5, <1>6, <1>7 DEF Slob!HeapExact

(* While the heap runs, and for the other programs it is idle.             *)
HeapRuns == program = "slob" => SlobInv

(* The invariant of the heap, whatever part of the kernel runs.            *)
THEOREM HeapInvariant == PartsSpec => []HeapRuns
<1>1. PartsInit => HeapRuns
  BY SlobInitInv DEF PartsInit, HeapRuns
<1>2. HeapRuns /\ [PartsNext]_allvars => HeapRuns'
  <2> SUFFICES ASSUME HeapRuns, [PartsNext]_allvars, program' = "slob"
               PROVE  SlobInv'
    BY DEF HeapRuns
  <2>1. program' = program /\ SlobInv
    BY DEF PartsNext, allvars, HeapRuns
  <2>2. CASE Slob!Next
    BY <2>1, <2>2, SlobNextGood DEF SlobStepGood
  <2>3. CASE UNCHANGED slobvars
    <3>1. UNCHANGED <<heap, pages, bigblocks, given>> /\ panicked' \in BOOLEAN
      BY <2>1, <2>3 DEF slobvars, SlobInv
    <3> QED  BY <2>1, <3>1, SlobStutter DEF SlobStepGood
  <2> QED  BY <2>1, <2>2, <2>3 DEF PartsNext, allvars
<1> QED  BY <1>1, <1>2, PTL DEF PartsSpec

(* kmalloc and kfree: the free list is exact, nothing is lost or handed    *)
(* out twice, and pages are taken only when nothing on the list would do.  *)
THEOREM HeapKeepsPromise == PartsSpec => HeapPromise
<1>1. HeapRuns => (program = "slob" => Slob!HeapExact)
  BY SlobExact DEF HeapRuns
<1>2. HeapRuns /\ [PartsNext]_allvars => [program = "slob" => Slob!Thrifty /\ Slob!KeepsPromise]_allvars
  <2> SUFFICES ASSUME HeapRuns, PartsNext, program = "slob"
               PROVE  Slob!Thrifty /\ Slob!KeepsPromise
    OBVIOUS
  <2>1. SlobInv
    BY DEF HeapRuns
  <2>2. CASE Slob!Next
    BY <2>1, <2>2, SlobNextGood DEF SlobStepGood
  <2>3. CASE UNCHANGED slobvars
    <3>1. UNCHANGED <<heap, pages, bigblocks, given>> /\ panicked' \in BOOLEAN
      BY <2>1, <2>3 DEF slobvars, SlobInv
    <3> QED  BY <2>1, <3>1, SlobStutter DEF SlobStepGood
  <2> QED  BY <2>2, <2>3 DEF PartsNext
<1> QED  BY <1>1, <1>2, HeapInvariant, PTL DEF PartsSpec, HeapPromise
=============================================================================
