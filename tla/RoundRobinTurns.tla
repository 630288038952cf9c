-------------------------- MODULE RoundRobinTurns --------------------------
(***************************************************************************)
(* RoundRobin with a history of the turns, to state that the walk through  *)
(* proc_list is fair.                                                      *)
(***************************************************************************)
EXTENDS RoundRobin

VARIABLE ran   \* for each process who has had the processor while it waited for it

allvars == <<vars, ran>>

TInit == Init /\ ran = [p \in Proc |-> {}]

(* The history forgets a process that is freed: the next one in its        *)
(* structure is another process.                                           *)
Record ==
  ran' = [p \in Proc |-> IF p = current' \/ state'[p] # "RUNNABLE" THEN {}
                         ELSE {q \in ran[p] \cup {current'} : q # idleproc /\ state'[q] # "FREE"}]

TNext == Next /\ Record

TSpec == TInit /\ [][TNext]_allvars /\ WF_vars(Kernel) /\ WF_vars(Timer)

(* While a process waits for the processor nobody gets it twice (schedule()), *)
(* although processes join the list in front and leave it anywhere.        *)
NobodyTwice ==
  [][current' # current =>
       \A p \in Proc \ {current'} :
         state[p] = "RUNNABLE" /\ state'[p] = "RUNNABLE" => current' \notin ran[p]]_allvars
=============================================================================
