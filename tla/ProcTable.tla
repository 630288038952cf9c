----------------------------- MODULE ProcTable -----------------------------
(***************************************************************************)
(* The table of processes of hw15/lab6_result, kern/process/proc.c.  First *)
(* get_pid(), by which do_fork names a process.  Between two calls it      *)
(* remembers in next_safe that the pids between last_pid and next_safe are *)
(* not in use; when last_pid gets there it scans the list of all processes,*)
(* one element per step here, for a free pid and the next bound.  Then,    *)
(* beside proc_list and the pids, the pointers cptr, yptr and optr by      *)
(* which a parent finds its children, and the hash lists by which          *)
(* find_proc finds a pid.  A process is named by its pid.  do_fork,        *)
(* do_exit and do_wait change the table and call get_pid with interrupts   *)
(* off: no two of them overlap.                                            *)
(***************************************************************************)
EXTENDS Integers, SequencesExt

CONSTANTS
  MAX_PID,       \* the pids are smaller
  MAX_PROCESS    \* the limit on the number of processes, idleproc included

ASSUME PidAssumption ==
  /\ MAX_PID \in Nat /\ MAX_PROCESS \in Nat
  /\ MAX_PROCESS > 2 /\ MAX_PID > MAX_PROCESS

VARIABLES
  proc_list,     \* the pids of the processes in proc_list, the newest first
  last_pid,
  next_safe,
  le,            \* the position of the scan
  pc             \* "out" of get_pid, in its "scan", or about to "link"

vars == <<proc_list, last_pid, next_safe, le, pc>>

(* idleproc is counted, and is not in the list.                            *)
nr_process == Len(proc_list) + 1

Used == {proc_list[i] : i \in DOMAIN proc_list}

TypeOK ==
  /\ proc_list \in Seq(1 .. MAX_PID - 1)
  /\ last_pid \in 1 .. MAX_PID
  /\ next_safe \in 1 .. MAX_PID
  /\ le \in Nat \ {0}
  /\ pc \in {"out", "scan", "link"}
  /\ pc # "out" => last_pid < MAX_PID

Init ==
  /\ proc_list = << >>
  /\ last_pid = MAX_PID
  /\ next_safe = MAX_PID
  /\ le = 1
  /\ pc = "out"

-----------------------------------------------------------------------------
(* Begin a scan for the pid l; past the largest pid, start again with 1.   *)
Rescan(l) ==
  /\ last_pid' = IF l >= MAX_PID THEN 1 ELSE l
  /\ next_safe' = MAX_PID
  /\ le' = 1
  /\ pc' = "scan"

(* A slip: the pid next_safe itself is given out unseen.                   *)
Call_Beyond ==
  /\ pc = "out"
  /\ nr_process < MAX_PROCESS
  /\ LET l == last_pid + 1
     IN  IF l >= MAX_PID \/ l > next_safe
         THEN Rescan(l)
         ELSE /\ last_pid' = l
              /\ pc' = "link"
              /\ UNCHANGED <<next_safe, le>>
  /\ UNCHANGED proc_list

(* do_fork has found room for a process and calls get_pid.                 *)
Call ==
  /\ pc = "out"
  /\ nr_process < MAX_PROCESS
  /\ LET l == last_pid + 1
     IN  IF l >= MAX_PID \/ l >= next_safe
         THEN Rescan(l)
         ELSE /\ last_pid' = l
              /\ pc' = "link"
              /\ UNCHANGED <<next_safe, le>>
  /\ UNCHANGED proc_list

(* A slip: the search starts again with 1 every time.                      *)
Collision_FromOne ==
  /\ proc_list[le] = last_pid
  /\ IF last_pid + 1 >= next_safe
     THEN Rescan(1)
     ELSE last_pid' = last_pid + 1 /\ le' = le + 1 /\ UNCHANGED <<next_safe, pc>>

(* The scan meets the pid it would give out, ...                           *)
Collision ==
  /\ proc_list[le] = last_pid
  /\ IF last_pid + 1 >= next_safe
     THEN Rescan(last_pid + 1)
     ELSE last_pid' = last_pid + 1 /\ le' = le + 1 /\ UNCHANGED <<next_safe, pc>>

(* ... a pid that bounds the free ones above it, or another one.           *)
Bound ==
  /\ proc_list[le] # last_pid
  /\ next_safe' = IF proc_list[le] > last_pid /\ next_safe > proc_list[le]
                  THEN proc_list[le] ELSE next_safe
  /\ le' = le + 1
  /\ UNCHANGED <<last_pid, pc>>

Scan ==
  /\ pc = "scan"
  /\ le <= Len(proc_list)
  /\ Collision \/ Bound
  /\ UNCHANGED proc_list

Return ==
  /\ pc = "scan"
  /\ le > Len(proc_list)
  /\ pc' = "link"
  /\ UNCHANGED <<proc_list, last_pid, next_safe, le>>

(* do_fork: hash_proc and set_links.                                       *)
Link ==
  /\ pc = "link"
  /\ proc_list' = <<last_pid>> \o proc_list
  /\ pc' = "out"
  /\ UNCHANGED <<last_pid, next_safe, le>>

(* do_wait: unhash_proc and remove_links.  initproc, the first process, is *)
(* never waited for.                                                       *)
Unlink(i) ==
  /\ pc = "out"
  /\ i < Len(proc_list)
  /\ proc_list' = RemoveAt(proc_list, i)
  /\ UNCHANGED <<last_pid, next_safe, le, pc>>

Next == Call \/ Scan \/ Return \/ Link \/ \E i \in DOMAIN proc_list : Unlink(i)

Spec == Init /\ [][Next]_vars
FairSpec == Spec /\ WF_vars(Scan) /\ WF_vars(Return)

-----------------------------------------------------------------------------
(* No two processes have the same pid, nor has one the pid that get_pid is *)
(* about to return: find_proc, and so kill and wait, mean one process.     *)
PidsUnique ==
  /\ \A i, j \in DOMAIN proc_list : proc_list[i] = proc_list[j] => i = j
  /\ pc = "link" => last_pid \notin Used

(* What get_pid remembers stays true while processes come and go: no pid   *)
(* between last_pid and next_safe is in use; during a scan, none in the    *)
(* part of the list it has passed.                                         *)
Passed == IF pc = "scan" THEN {i \in DOMAIN proc_list : i < le} ELSE DOMAIN proc_list
Window ==
  \A i \in Passed :
    /\ ~ (last_pid < proc_list[i] /\ proc_list[i] < next_safe)
    /\ pc = "scan" => proc_list[i] # last_pid

(* get_pid returns, however often the scan starts again.                   *)
PidFound == pc = "scan" ~> pc = "link"

-----------------------------------------------------------------------------
CONSTANT Buckets   \* the hash function: the sets of pids with the same value

ASSUME HashAssumption == \A p \in 1 .. MAX_PID - 1 : \E b \in Buckets : p \in b

pid_hashfn(p) == CHOOSE b \in Buckets : p \in b

VARIABLES
  links,         \* the fields cptr, yptr and optr of each process
  parent,        \* of each process
  hash_list,     \* of each bucket: the pids, the newest first
  zombie,        \* the processes that have exited
  exiting,       \* the one that is in the loop of do_exit, or NULL
  children       \* history: those whom each process got and has, the last one first

table == <<links, parent, hash_list, zombie, exiting, children>>

NULL     == -1
idleproc == 0
initproc == 1
Pid      == 0 .. MAX_PID - 1

TableInit ==
  /\ Init
  /\ links = [f \in {"cptr", "yptr", "optr"} |-> [p \in Pid |-> NULL]]
  /\ parent = [p \in Pid |-> NULL]
  /\ hash_list = [b \in Buckets |-> << >>]
  /\ zombie = {} /\ exiting = NULL
  /\ children = [p \in Pid |-> << >>]

-----------------------------------------------------------------------------
(* Assign x to a field of process p, if there is one.                      *)
Set(L, f, p, x) == IF p = NULL THEN L ELSE [L EXCEPT ![f][p] = x]

(* set_links puts c in front of the children of q.                         *)
SetLinks(L, c, q) ==
  LET o == L["cptr"][q]
  IN  Set(Set(Set(Set(L, "yptr", c, NULL), "optr", c, o), "yptr", o, c), "cptr", q, c)

(* remove_links takes c out of the children of its parent.                 *)
RemoveLinks(L, c) ==
  LET o == L["optr"][c]
      y == L["yptr"][c]
      M == Set(L, "yptr", o, y)
  IN  IF y # NULL THEN Set(M, "optr", y, o) ELSE Set(M, "cptr", parent[c], o)

(* A slip: the child that initproc has had does not learn of the new one.  *)
Adopt_OneWay(L, p) ==
  LET c == L["cptr"][p]
  IN  Set(Set(Set(Set(L, "cptr", p, L["optr"][c]), "yptr", c, NULL),
              "optr", c, L["cptr"][initproc]), "cptr", initproc, c)
(* One round of the loop in do_exit: initproc adopts the first child of p. *)
Adopt(L, p) ==
  LET c == L["cptr"][p]
      o == L["cptr"][initproc]
  IN  Set(Set(Set(Set(Set(L, "cptr", p, L["optr"][c]), "yptr", c, NULL),
                  "optr", c, o), "yptr", o, c), "cptr", initproc, c)

(* find_proc.                                                              *)
FindProc(p) == IF p \in ToSet(hash_list[pid_hashfn(p)]) THEN p ELSE NULL

-----------------------------------------------------------------------------
(* do_fork by q, which has called get_pid: hash_proc and set_links.        *)
DoFork(q) ==
  /\ Link
  /\ IF proc_list = << >> THEN q = idleproc ELSE q \in Used \ zombie
  /\ parent' = [parent EXCEPT ![last_pid] = q]
  /\ links' = SetLinks(links, last_pid, q)
  /\ hash_list' = [hash_list EXCEPT ![pid_hashfn(last_pid)] = <<last_pid>> \o @]
  /\ children' = [children EXCEPT ![q] = <<last_pid>> \o @]
  /\ UNCHANGED <<zombie, exiting>>

(* do_exit: p becomes a zombie, ...                                        *)
DoExit(p) ==
  /\ pc = "out" /\ exiting = NULL
  /\ p \in Used \ (zombie \cup {initproc})
  /\ zombie' = zombie \cup {p} /\ exiting' = p
  /\ UNCHANGED <<links, parent, hash_list, children, vars>>

(* ... as long as it has a child, initproc adopts its first one, ...       *)
GiveUpChild ==
  /\ exiting # NULL /\ links["cptr"][exiting] # NULL
  /\ LET c == links["cptr"][exiting]
     IN  /\ links' = Adopt(links, exiting)
         /\ parent' = [parent EXCEPT ![c] = initproc]
         /\ children' = [children EXCEPT ![exiting] = Tail(@), ![initproc] = <<c>> \o @]
  /\ UNCHANGED <<hash_list, zombie, exiting, vars>>

(* ... and then it leaves the processor for good.                          *)
Exited ==
  /\ exiting # NULL /\ links["cptr"][exiting] = NULL
  /\ exiting' = NULL
  /\ UNCHANGED <<links, parent, hash_list, zombie, children, vars>>

(* do_wait has found a zombie child: unhash_proc, remove_links and kfree.  *)
DoWait(i) ==
  LET c == proc_list[i]
  IN  /\ c \in zombie /\ exiting = NULL
      /\ Unlink(i)
      /\ links' = [f \in DOMAIN links |-> [RemoveLinks(links, c)[f] EXCEPT ![c] = NULL]]
      /\ hash_list' = [hash_list EXCEPT ![pid_hashfn(c)] = RemoveFirst(@, c)]
      /\ zombie' = zombie \ {c}
      /\ parent' = [parent EXCEPT ![c] = NULL]
      /\ children' = [children EXCEPT ![parent[c]] = RemoveFirst(@, c)]
      /\ UNCHANGED exiting

TableNext ==
  \/ ((Call /\ exiting = NULL) \/ Scan \/ Return) /\ UNCHANGED table
  \/ \E q \in Pid : DoFork(q) \/ DoExit(q)
  \/ GiveUpChild \/ Exited
  \/ \E i \in DOMAIN proc_list : DoWait(i)

TableSpec ==
  /\ TableInit /\ [][TableNext]_<<vars, table>>
  /\ WF_vars(Scan /\ UNCHANGED table) /\ WF_vars(Return /\ UNCHANGED table)

-----------------------------------------------------------------------------
(* The pointers say who whose child is: from cptr along optr, as do_wait   *)
(* goes, a process meets each of its children once and nobody else, the    *)
(* last one it got first; yptr leads back, but for the first child in the  *)
(* loop of do_exit; and every process has a parent that lives, or is about *)
(* to give it up.                                                          *)
LinksExact ==
  \A p \in Pid :
    LET s == children[p]
    IN  /\ ToSet(s) = {c \in Used : parent[c] = p}
        /\ \A i, j \in DOMAIN s : s[i] = s[j] => i = j
        /\ links["cptr"][p] = IF s = << >> THEN NULL ELSE s[1]
        /\ \A i \in DOMAIN s : links["optr"][s[i]] = IF i = Len(s) THEN NULL ELSE s[i + 1]
        /\ \A i \in DOMAIN s :
             \/ links["yptr"][s[i]] = IF i = 1 THEN NULL ELSE s[i - 1]
             \/ i = 1 /\ p = exiting
        /\ s # << >> => p \in {idleproc, exiting} \cup (Used \ zombie)

(* find_proc, and so do_kill and do_wait, finds each process by its pid    *)
(* and nothing under a pid that is not in use.                             *)
FindsExactly == \A p \in Pid \ {0} : FindProc(p) = IF p \in Used THEN p ELSE NULL

(* Both ways of finding a process agree with who is there.                 *)
TableExact == LinksExact /\ FindsExactly
=============================================================================
