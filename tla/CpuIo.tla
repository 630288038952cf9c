------------------------------- MODULE CpuIo -------------------------------
(***************************************************************************)
(* The simulators of processes that compute, yield and wait for input and  *)
(* output: hw11/process-cpuio-homework.py, and hw10/process-concept-       *)
(* homework.py, from which it was made and which knows no I/O.  A step is  *)
(* one clock tick of run().                                                *)
(***************************************************************************)
EXTENDS Integers, SequencesExt

CONSTANTS
  NumProcs,
  MaxCode        \* bound of the runs: the instructions of a process

CpuIoAssumption == NumProcs \in Nat \ {0} /\ MaxCode \in Nat

Pid == 0 .. NumProcs - 1
IO_TICKS == 5    \* whatever option -L says

VARIABLES
  homework,      \* 10 or 11
  code,          \* the instructions that are left of each process
  proc_state,
  curr_proc,
  clock_tick,
  io_finish_times,
  hung,          \* next_proc is in its loop for ever
  ran            \* history: who got the processor since the process has
                 \* been ready

vars == <<homework, code, proc_state, curr_proc, clock_tick, io_finish_times, hung, ran>>

Programs(h) == SeqOf({"cpu", "yld"} \cup IF h = 11 THEN {"io"} ELSE {}, MaxCode)

(* load, and the start of run().                                           *)
Init ==
  /\ homework \in {10, 11}
  /\ code \in [Pid -> Programs(homework)]
  /\ proc_state = [p \in Pid |-> IF p = 0 THEN "RUNNING" ELSE "READY"]
  /\ curr_proc = 0
  /\ clock_tick = 0
  /\ io_finish_times = [p \in Pid |-> {}]
  /\ hung = FALSE
  /\ ran = [p \in Pid |-> << >>]

-----------------------------------------------------------------------------
(* Between the parts of a tick: the states and the current process s.curr, *)
(* who was chosen, and whether next_proc came back.                        *)
Turn(states, curr, chosen, hangs) ==
  [states |-> states, curr |-> curr, chosen |-> chosen, hangs |-> hangs]
Become(s, p, state) == [s EXCEPT !.states[p] = state]

(* A slip: the search begins with the process that gives way.              *)
After_Greedy(p) == [k \in 1 .. NumProcs |-> (p + k - 1) % NumProcs]
(* The processes from the one after p on, around to p.                     *)
After(p) == [k \in 1 .. NumProcs |-> (p + k) % NumProcs]

(* Where next_proc finds one that neither waits nor is done, if anywhere.  *)
Ready(s) == SelectInSeq(After(s.curr), LAMBDA p : s.states[p] \notin {"DONE", "WAITING"})

(* next_proc and move_to_running: hw11 comes back to the current process,  *)
(* hw10 goes on looking.                                                   *)
next_proc(s) ==
  IF Ready(s) = 0 THEN [s EXCEPT !.hangs = homework = 10]
  ELSE LET p == After(s.curr)[Ready(s)]
       IN  Turn([s.states EXCEPT ![p] = IF @ = "READY" THEN "RUNNING" ELSE @], p, Append(s.chosen, p), s.hangs)

(* I/O is finished: the processes are ready, and one of them runs when     *)
(* nobody does.                                                            *)
Finished(t) == {p \in Pid : t \in io_finish_times[p]}
CheckIO(s, t) ==
  LET ready == [s EXCEPT !.states = [p \in Pid |-> IF p \in Finished(t) /\ @[p] = "WAITING" THEN "READY" ELSE @[p]]]
  IN  IF Finished(t) # {} /\ ready.states[s.curr] # "RUNNING" THEN next_proc(ready) ELSE ready

Executes(s) == s.states[s.curr] = "RUNNING" /\ code[s.curr] # << >>
Instruction(s) == IF Executes(s) THEN Head(code[s.curr]) ELSE ""
Rest(s) == IF Executes(s) THEN [code EXCEPT ![s.curr] = Tail(@)] ELSE code

Execute(s) ==
  CASE Instruction(s) = "yld" -> next_proc(Become(s, s.curr, "READY"))
    [] Instruction(s) = "io"  -> next_proc(Become(s, s.curr, "WAITING"))
    [] OTHER -> s

check_if_done(s, left) ==
  IF left[s.curr] = << >> /\ s.states[s.curr] = "RUNNING"
  THEN next_proc(Become(s, s.curr, "DONE")) ELSE s

(* A slip: get_num_runnable instead of get_num_active.                     *)
Active_Runnable == \E p \in Pid : proc_state[p] \in {"READY", "RUNNING"}
Active == \E p \in Pid : proc_state[p] # "DONE"

Tick ==
  /\ Active /\ ~hung
  /\ clock_tick' = clock_tick + 1
  /\ \E s1 \in {CheckIO(Turn(proc_state, curr_proc, << >>, FALSE), clock_tick')} :
     \E s2 \in {Execute(s1)} : \E s3 \in {check_if_done(s2, Rest(s1))} :
         /\ code' = Rest(s1)
         /\ io_finish_times' = IF Instruction(s1) = "io"
                               THEN [io_finish_times EXCEPT ![s1.curr] = @ \cup {clock_tick' + IO_TICKS}]
                               ELSE io_finish_times
         /\ proc_state' = s3.states
         /\ curr_proc' = s3.curr
         /\ hung' = s3.hangs
         /\ ran' = [p \in Pid |-> IF s3.states[p] # "READY" \/ p \in ToSet(s3.chosen) THEN << >>
                                  ELSE ran[p] \o s3.chosen]
  /\ UNCHANGED homework

Spec == Init /\ [][Tick]_vars /\ WF_vars(Tick)

-----------------------------------------------------------------------------
Pending(p) == {t \in io_finish_times[p] : t > clock_tick}

(* The processor is idle only when nobody is ready, just one process runs, *)
(* and whoever waits has just one I/O to wait for.                         *)
NobodyLost ==
  /\ \A p \in Pid : proc_state[p] = "RUNNING" => p = curr_proc
  /\ (\E p \in Pid : proc_state[p] = "READY") => proc_state[curr_proc] = "RUNNING"
  /\ \A p \in Pid : Cardinality(Pending(p)) = IF proc_state[p] = "WAITING" THEN 1 ELSE 0

(* While a process is ready nobody gets the processor twice.               *)
TakesTurns == \A p \in Pid : IsInjective(ran[p])

(* All processes come to their end, and so does run(), but in hw10, where  *)
(* next_proc looks for a successor of the last process for ever.           *)
Over == (\A p \in Pid : proc_state[p] = "DONE") /\ (hung <=> homework = 10)
=============================================================================
