------------------------------ MODULE JobSched ------------------------------
(***************************************************************************)
(* The scheduling policies of hw14/scheduler-homework.py: first come first *)
(* served, shortest job first, and round robin.  All jobs are there from   *)
(* the start; a step is one turn of a job.                                 *)
(***************************************************************************)
EXTENDS Integers, SequencesExt

CONSTANTS
  NumJobs, MaxLen,       \* options -j and -m
  Quantum                \* what may be given with -q

JobSchedAssumption ==
  /\ NumJobs \in Nat \ {0} /\ MaxLen \in Nat \ {0} /\ Quantum \subseteq Nat

Job == 0 .. NumJobs - 1

VARIABLES
  policy, quantum,
  length,        \* the run time of each job
  runlist,       \* the jobs that are not done: [job, runtime] in order
  thetime,
  lastran, wait, turnaround, response

vars == <<policy, quantum, length, runlist, thetime, lastran, wait, turnaround, response>>

(* A slip: the longest job first.                                          *)
Order_Longest(len) ==
  IF policy = "SJF" THEN SetToSortSeq(Job, LAMBDA i, j : len[i] > len[j] \/ (len[i] = len[j] /\ i < j))
  ELSE [k \in 1 .. NumJobs |-> k - 1]
(* sorted keeps the order of jobs of equal length.                         *)
Order(len) ==
  IF policy = "SJF" THEN SetToSortSeq(Job, LAMBDA i, j : len[i] < len[j] \/ (len[i] = len[j] /\ i < j))
  ELSE [k \in 1 .. NumJobs |-> k - 1]

Init ==
  /\ policy \in {"FIFO", "SJF", "RR"}
  /\ quantum \in {IF q = 0 THEN 1 ELSE q : q \in Quantum}
  /\ length \in [Job -> 1 .. MaxLen]
  /\ runlist = [k \in 1 .. NumJobs |-> [job |-> Order(length)[k], runtime |-> length[Order(length)[k]]]]
  /\ thetime = 0
  /\ lastran = [j \in Job |-> 0] /\ wait = [j \in Job |-> 0] /\ turnaround = [j \in Job |-> 0]
  /\ response = [j \in Job |-> -1]

-----------------------------------------------------------------------------
(* How long the job runs now: to its end, but for round robin.             *)
Slice(r) == IF policy = "RR" /\ r.runtime > quantum THEN quantum ELSE r.runtime

(* The job is put back at the end.                                         *)
Requeue(r) == Append(Tail(runlist), r)

Ran(j, t) == [lastran EXCEPT ![j] = t]

RunJob ==
  /\ runlist # << >>
  /\ LET r == Head(runlist)
         j == r.job
         runfor == Slice(r)
     IN  /\ response' = [response EXCEPT ![j] = IF @ = -1 THEN thetime ELSE @]
         /\ wait' = [wait EXCEPT ![j] = @ + thetime - lastran[j]]
         /\ thetime' = thetime + runfor
         /\ lastran' = Ran(j, thetime')
         /\ IF runfor < r.runtime
            THEN runlist' = Requeue([r EXCEPT !.runtime = @ - runfor]) /\ UNCHANGED turnaround
            ELSE runlist' = Tail(runlist) /\ turnaround' = [turnaround EXCEPT ![j] = thetime']
  /\ UNCHANGED <<policy, quantum, length>>

Spec == Init /\ [][RunJob]_vars /\ WF_vars(RunJob)

-----------------------------------------------------------------------------
Done == runlist = << >>

(* The time that jobs run one by one in this order wait together.          *)
Waits(order) ==
  FoldSeq(LAMBDA j, s : [time |-> s.time + length[j], wait |-> s.wait + s.time],
          [time |-> 0, wait |-> 0], order).wait
(* The statistics agree with one another: a job waits for as long as it is *)
(* there and does not run, and the time is what has been run.  Shortest    *)
(* job first makes the jobs wait least: no other order of whole jobs does  *)
(* better.                                                                 *)
StatsExact ==
  /\ Done => \A j \in Job : turnaround[j] = wait[j] + length[j] /\ response[j] <= wait[j]
  /\ thetime = MapThenSumSet(LAMBDA j : length[j], Job)
                 - FoldSeq(LAMBDA r, n : r.runtime + n, 0, runlist)
  /\ policy = "SJF" /\ Done
       => \A order \in SetToSeqs(Job) : MapThenSumSet(LAMBDA j : wait[j], Job) <= Waits(order)

(* Round robin answers soon: a job is first run after at most one quantum  *)
(* of each job before it, and between two of its turns it waits at most    *)
(* one quantum of each other job.                                          *)
AnswersSoon ==
  policy = "RR" =>
    \A j \in Job : wait'[j] - wait[j] <= quantum * (IF response[j] = -1 THEN j ELSE NumJobs - 1)
=============================================================================
