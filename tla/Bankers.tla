------------------------------ MODULE Bankers ------------------------------
(***************************************************************************)
(* The class Bankers of hw19/bankers-homework.py: processes that hold some *)
(* of what they may need are run to the end one by one, as far as what is  *)
(* available allows, and the verdict says whether all could be run.        *)
(* Execute scans all the processes once for each of their permutations;    *)
(* here each scan takes them in any order.                                 *)
(***************************************************************************)
EXTENDS Integers, SequencesExt

CONSTANTS Process, Resource,
  RESOURCE           \* how much there is of each resource

BankersAssumption ==
  IsFiniteSet(Process) /\ Process # {} /\ IsFiniteSet(Resource) /\ RESOURCE \in [Resource -> Nat]

Scans == Cardinality(SetToSeqs(Process))
Amount == [Resource -> Nat]
Below(v, w) == \A r \in Resource : v[r] <= w[r]
Input == {v \in [Resource -> 0 .. Max({RESOURCE[r] : r \in Resource})] : Below(v, RESOURCE)}
(* The units of r that the processes of S hold together.                   *)
Held(alloc, S, r) == Cardinality(UNION {{p} \X (1 .. alloc[p][r]) : p \in S})

VARIABLES
  max, given,        \* what each process may hold, and what it held at the start
  need, allocated,   \* of each process
  avaliable,         \* what nobody holds
  finished,          \* the processes that ran to the end
  scan, left,        \* the number of the scan and the processes it has not reached
  running,           \* the process between its dispatch and its release
  result             \* of Execute

vars == <<max, given, need, allocated, avaliable, finished, scan, left, running, result>>

TypeOK ==
  /\ avaliable \in Amount
  /\ max \in [Process -> Amount] /\ given \in [Process -> Amount]
  /\ need \in [Process -> Amount]
  /\ allocated \in [Process -> Amount]
  /\ finished \subseteq Process /\ left \subseteq Process
  /\ scan \in 1 .. Scans /\ running \subseteq Process
  /\ result \in {"none", "True", "False"}

CalcNeed == [p \in Process |-> [r \in Resource |-> max[p][r] - given[p][r]]]
(* CalcAvaliable.                                                          *)
CalcAvaliable(alloc) == [r \in Resource |-> RESOURCE[r] - Held(alloc, Process, r)]

(* SignProcesses, for every input that getmax, getallocated and the two    *)
(* examples allow: nobody may need more than there is, nobody holds more   *)
(* than it may need, and together they hold no more than there is.         *)
Init ==
  /\ given \in [Process -> Input]
  /\ \A r \in Resource : Held(given, Process, r) <= RESOURCE[r]
  /\ max \in [Process -> Input]
  /\ \A p \in Process : Below(given[p], max[p])
  /\ need = CalcNeed
  /\ allocated = given
  /\ avaliable = CalcAvaliable(given)
  /\ finished = {}
  /\ scan = 1 /\ left = Process
  /\ running = {}
  /\ result = "none"

-----------------------------------------------------------------------------

Fits(p) == Below(need[p], avaliable)

(* ExecuteProcess returns True.                                            *)
ExecuteProcess(p) ==
  /\ p \in left \ finished /\ Fits(p)
  /\ avaliable' = [r \in Resource |-> avaliable[r] - need[p][r]]
  /\ allocated' = [allocated EXCEPT ![p] = [r \in Resource |-> @[r] + need[p][r]]]
  /\ need' = [need EXCEPT ![p] = [r \in Resource |-> 0]]
  /\ running' = {p}
  /\ UNCHANGED <<max, given, finished, scan, left, result>>

(* The next process of the scan, or the next scan; after the last, False.  *)
GoOn(p) ==
  IF left # {p} THEN left' = left \ {p} /\ UNCHANGED <<scan, result>>
  ELSE IF scan < Scans THEN left' = Process /\ scan' = scan + 1 /\ UNCHANGED result
  ELSE result' = "False" /\ UNCHANGED <<left, scan>>

(* A slip: all that have not finished must be able to go on.               *)
TempSafeCheckAfterRelease_All(done, av) == \A p \in Process \ done : Below(need[p], av)
(* TempSafeCheckAfterRelease: some process that has not finished could go  *)
(* on with what is available now, or none is left.                         *)
TempSafeCheckAfterRelease(done, av) ==
  \/ done = Process
  \/ \E p \in Process \ done : Below(need[p], av)
Released(p) == [allocated EXCEPT ![p] = [r \in Resource |-> 0]]

(* ReleasingProcess, the safety check, and the test whether all are done.  *)
ReleasingProcess(p) ==
  LET done == finished \cup {p}
  IN  /\ p \in running
      /\ running' = {}
      /\ finished' = done
      /\ allocated' = Released(p)
      /\ avaliable' = CalcAvaliable(Released(p))
      /\ IF ~TempSafeCheckAfterRelease(done, avaliable') THEN result' = "False" /\ UNCHANGED <<scan, left>>
         ELSE IF done = Process THEN result' = "True" /\ UNCHANGED <<scan, left>>
         ELSE GoOn(p)
      /\ UNCHANGED <<max, given, need>>

(* A process that has finished, or that must be held.                      *)
PassOver(p) ==
  /\ p \in left
  /\ p \in finished \/ ~Fits(p)
  /\ GoOn(p)
  /\ UNCHANGED <<max, given, need, allocated, avaliable, finished, running>>

Next ==
  /\ result = "none"
  /\ IF running = {} THEN \E p \in Process : ExecuteProcess(p) \/ PassOver(p)
     ELSE \E p \in running : ReleasingProcess(p)

Spec == Init /\ [][Next]_vars /\ WF_vars(Next)

-----------------------------------------------------------------------------
(* There is an order in which all the processes of S can run to the end.   *)
SafeFrom(req, alloc, av, S) ==
  \E order \in SetToSeqs(S) :
    \A k \in DOMAIN order : \A r \in Resource :
      req[order[k]][r] <= av[r] + Held(alloc, {order[i] : i \in 1 .. k - 1}, r)

(* Running the processes as they come never spoils a safe state, nor       *)
(* mends an unsafe one: taking any process that fits is as good as taking  *)
(* the right one.  So Execute says True exactly when the state given was   *)
(* safe, in whatever order the processes are scanned.                      *)
Verdict ==
  LET given_safe == SafeFrom(CalcNeed, given, CalcAvaliable(given), Process)
  IN  /\ SafeFrom(need, allocated, avaliable, Process \ finished) <=> given_safe
      /\ result # "none" => (result = "True" <=> given_safe)
=============================================================================
