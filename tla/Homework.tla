------------------------------ MODULE Homework ------------------------------
(***************************************************************************)
(* The programs of the homework directories that stand alone: one of them, *)
(* chosen at the start, runs, and the variables of the others keep a fixed *)
(* value.  The call queue (hw17) is the module that this one extends.      *)
(***************************************************************************)
EXTENDS CallQueue, SequencesExt

CONSTANTS
  Process, Resource, RESOURCE,                            \* hw19
  numInodes, numData, maxUsed, Name, Letter, NoData,      \* hw20
  NumProcs, MaxCode,                                      \* hw10, hw11
  NumJobs, MaxLen, Quantum,                               \* hw14
  MemorySize, NALLOC, Limit, Lengths,                       \* hw4
  Page, window, MaxHistory,                               \* hw8
  Worker, idleproc, Turns, MAX_PROCESS                    \* hw12

VARIABLES
  program,
  max, given, need, allocated, avaliable, finished, scan, left, running, result,
  ibitmap, inodes, dbitmap, data, files, dirs, nameToInum,
  homework, code, proc_state, curr_proc, clock_tick, io_finish_times, hung, ran,
  policy, quantum, length, runlist, thetime, lastran, wait, turnaround, response,
  longest, buddies,
  strategy, freelist, size, break, blocks,
  caller, mem, visit_history, since,
  state, pid, parent, wait_state, turns, kstack, proc_list, nr_process, last_pid,
  current, need_resched, idles

Bank  == INSTANCE Bankers
Fs    == INSTANCE Sfs
Sim   == INSTANCE CpuIo
Jobs  == INSTANCE JobSched
Tree  == INSTANCE Buddy WITH size <- MemorySize, lent <- buddies
Fit   == INSTANCE FitHeap WITH list <- freelist, lent <- blocks
Pages == INSTANCE WorkingSet
Lab4  == INSTANCE KernelThreads WITH Thread <- Worker

ASSUME HomeworkAssumption ==
  /\ Bank!BankersAssumption /\ Fs!SfsAssumption /\ Sim!CpuIoAssumption /\ Jobs!JobSchedAssumption
  /\ Tree!BuddyAssumption /\ Fit!FitHeapAssumption /\ Pages!WorkingSetAssumption
  /\ Lab4!KernelThreadsAssumption

Idle(v) == v = "idle"

HomeworkInit ==
  /\ program \in {"queue", "bankers", "sfs", "cpuio", "jobs", "buddy", "fit", "pages", "threads"}
  /\ Init
  /\ IF program = "bankers" THEN Bank!Init
     ELSE /\ Idle(max) /\ Idle(given) /\ Idle(need) /\ Idle(allocated) /\ Idle(avaliable)
          /\ Idle(finished) /\ Idle(scan) /\ Idle(left) /\ Idle(running) /\ Idle(result)
  /\ IF program = "sfs" THEN Fs!Init
     ELSE /\ Idle(ibitmap) /\ Idle(inodes) /\ Idle(dbitmap) /\ Idle(data)
          /\ Idle(files) /\ Idle(dirs) /\ Idle(nameToInum)
  /\ IF program = "cpuio" THEN Sim!Init
     ELSE /\ Idle(homework) /\ Idle(code) /\ Idle(proc_state) /\ Idle(curr_proc)
          /\ Idle(clock_tick) /\ Idle(io_finish_times) /\ Idle(hung) /\ Idle(ran)
  /\ IF program = "jobs" THEN Jobs!Init
     ELSE /\ Idle(policy) /\ Idle(quantum) /\ Idle(length) /\ Idle(runlist) /\ Idle(thetime)
          /\ Idle(lastran) /\ Idle(wait) /\ Idle(turnaround) /\ Idle(response)
  /\ IF program = "buddy" THEN Tree!Init ELSE Idle(longest) /\ Idle(buddies)
  /\ IF program = "fit" THEN Fit!Init
     ELSE Idle(strategy) /\ Idle(freelist) /\ Idle(size) /\ Idle(break) /\ Idle(blocks)
  /\ IF program = "pages" THEN Pages!Init
     ELSE Idle(caller) /\ Idle(mem) /\ Idle(visit_history) /\ Idle(since)
  /\ IF program = "threads" THEN Lab4!Init
     ELSE /\ Idle(state) /\ Idle(pid) /\ Idle(parent) /\ Idle(wait_state) /\ Idle(turns) /\ Idle(kstack)
          /\ Idle(proc_list) /\ Idle(nr_process) /\ Idle(last_pid)
          /\ Idle(current) /\ Idle(need_resched) /\ Idle(idles)

bankvars  == <<max, given, need, allocated, avaliable, finished, scan, left, running, result>>
fsvars    == <<ibitmap, inodes, dbitmap, data, files, dirs, nameToInum>>
simvars   == <<homework, code, proc_state, curr_proc, clock_tick, io_finish_times, hung, ran>>
jobvars   == <<policy, quantum, length, runlist, thetime, lastran, wait, turnaround, response>>
treevars  == <<longest, buddies>>
fitvars   == <<strategy, freelist, size, break, blocks>>
pagevars  == <<caller, mem, visit_history, since>>
procvars  == <<state, pid, parent, wait_state, turns, kstack, proc_list, nr_process, last_pid,
               current, need_resched, idles>>
allvars   == <<program, vars, bankvars, fsvars, simvars, jobvars, treevars, fitvars, pagevars, procvars>>

HomeworkNext ==
  \/ /\ program = "queue" /\ Next
     /\ UNCHANGED <<program, bankvars, fsvars, simvars, jobvars, treevars, fitvars, pagevars, procvars>>
  \/ /\ program = "bankers" /\ Bank!Next
     /\ UNCHANGED <<program, vars, fsvars, simvars, jobvars, treevars, fitvars, pagevars, procvars>>
  \/ /\ program = "sfs" /\ Fs!Next
     /\ UNCHANGED <<program, vars, bankvars, simvars, jobvars, treevars, fitvars, pagevars, procvars>>
  \/ /\ program = "cpuio" /\ Sim!Tick
     /\ UNCHANGED <<program, vars, bankvars, fsvars, jobvars, treevars, fitvars, pagevars, procvars>>
  \/ /\ program = "jobs" /\ Jobs!RunJob
     /\ UNCHANGED <<program, vars, bankvars, fsvars, simvars, treevars, fitvars, pagevars, procvars>>
  \/ /\ program = "buddy" /\ Tree!Next
     /\ UNCHANGED <<program, vars, bankvars, fsvars, simvars, jobvars, fitvars, pagevars, procvars>>
  \/ /\ program = "fit" /\ Fit!Next
     /\ UNCHANGED <<program, vars, bankvars, fsvars, simvars, jobvars, treevars, pagevars, procvars>>
  \/ /\ program = "pages" /\ Pages!Next
     /\ UNCHANGED <<program, vars, bankvars, fsvars, simvars, jobvars, treevars, fitvars, procvars>>
  \/ /\ program = "threads" /\ Lab4!Next
     /\ UNCHANGED <<program, vars, bankvars, fsvars, simvars, jobvars, treevars, fitvars, pagevars>>

(* The program goes on as long as it can.                                  *)
HomeworkSpec == HomeworkInit /\ [][HomeworkNext]_allvars /\ WF_allvars(HomeworkNext)

-----------------------------------------------------------------------------
(* hw19: the verdict on a state is right, in whatever order processes run. *)
Verdict == program = "bankers" => Bank!TypeOK /\ Bank!Verdict

(* hw20: names, directories, inodes, blocks and counts agree.              *)
TreeExact == program = "sfs" => Fs!TreeExact

(* hw10, hw11: every process gets its turn; and the run comes to its end,  *)
(* or to the endless search of hw10, as do the threads of hw12.            *)
TakesTurns == program = "cpuio" => Sim!NobodyLost /\ Sim!TakesTurns
Ends == <>((program = "cpuio" => Sim!Over) /\ (program = "threads" => Lab4!Over))

(* hw12: the count, the list, the stacks and the states agree, and who     *)
(* cleans up sleeps only while there is nothing to clean up.               *)
ThreadsExact == program = "threads" => Lab4!ThreadsExact

(* hw14: the statistics of the three policies.                             *)
StatsExact == program = "jobs" => Jobs!StatsExact

(* hw4, hw8: the two allocators keep their memory exact, and what is in    *)
(* memory is what the last references explain.                             *)
MemoryExact ==
  /\ program = "buddy" => Tree!BuddyExact
  /\ program = "fit" => Fit!FitExact
  /\ program = "pages" => Pages!WorkingSetExact

(* hw20, hw14: inodes are lost only by the mkdir that fails half way, and  *)
(* round robin answers within a quantum of each other job.                 *)
StepsExact == [][(program = "sfs" => Fs!LosesWhenFull) /\ (program = "jobs" => Jobs!AnswersSoon)]_allvars
=============================================================================
