---------------------------- MODULE UserPrograms ----------------------------
(***************************************************************************)
(* The user programs of hw13 (user/, user/libs) on its kernel: init_main   *)
(* makes two kernel threads and both execute the program the kernel was    *)
(* built for.  A program is a sequence of instructions, the places where   *)
(* it enters the kernel or tests what a system call returned; what it      *)
(* prints is left out.  The clock may interrupt it at any of them.  A pid  *)
(* is the number of the process structure.                                 *)
(***************************************************************************)
EXTENDS RoundRobin

CONSTANTS
  Yields,      \* stands for the 5, 6, 7 and 10 times a program yields
  max_child,   \* of forktest
  DEPTH        \* of the tree of forktree

ASSUME {Yields, max_child, DEPTH} \subseteq Nat

VARIABLES
  program,     \* the one the kernel was built for
  at,          \* the instruction each process is at, in the program
  known,       \* the pids a process remembers: first of all that of main
  ret,         \* what the last system call returned: 0, or an error
  code         \* the exit code of the process, and the one its wait stored

uvars == <<vars, program, at, known, ret, code>>

Op(name, arg) == << [op |-> name, arg |-> arg] >>
Fork(label) == Op("fork", label)    \* the child goes on at label
Yield     == Op("yield", 0)
Wait(i)   == Op("wait", i)          \* for known[i]; 0 is any child
Kill(i)   == Op("kill", i)
Ok        == Op("assert", "ok")     \* an assert or a test that leads to panic
Fails     == Op("assert", "error")
Code(c)   == Op("code", c)
Exit(c)   == Op("exit", c)
Panic     == Op("panic", 0)
Loop      == Op("loop", 0)          \* while (1);
WaitNobody     == Op("refused", 0)   \* waitpid(-1)
WaitBadAddress == Op("refused", 0)   \* waitpid with a place in the kernel's memory
Trap      == Op("trap", 0)          \* an exception no handler knows
PageFault == Op("pagefault", 0)     \* at an address no area holds

Times(n, ops) == FlattenSeq([i \in 1 .. n |-> ops])

-----------------------------------------------------------------------------
(* The programs.  In a fork the child remembers what its parent knew.      *)
ExitProgram ==
  Fork(10) \o Wait(2) \o Ok \o Code("magic") \o Wait(2) \o Fails \o Wait(0) \o Fails \o Exit("0")
  \o Times(Yields, Yield) \o Exit("magic")

ForkTest ==
  Times(max_child, Fork(3 * max_child + 3)) \o Times(max_child, Wait(0) \o Ok)
  \o Wait(0) \o Fails \o Exit("0")

(* forktree forks for each of two branches; a child runs forktree for its  *)
(* own node, yields and exits.  The children at depth k begin at 4 * k.    *)
ForkTree ==
  LET Child(k) == Times(2, Fork(4 * k + 4)) \o Yield \o Exit("0")
  IN  Times(2, Fork(4)) \o Exit("0") \o FlattenSeq([k \in 1 .. DEPTH - 1 |-> Child(k)]) \o Yield \o Exit("0")

WaitKill ==
  Fork(5) \o Fork(6) \o Wait(2) \o Panic \o Loop
  \o Times(Yields, Yield) \o Kill(1) \o Ok \o Times(Yields, Yield) \o Kill(2) \o Ok \o Exit("0")

Spin ==
  Fork(Yields + 7) \o Times(Yields, Yield) \o Kill(2) \o Ok \o Wait(2) \o Ok \o Exit("0") \o Loop

BadArg ==
  Fork(10) \o WaitNobody \o Fails \o WaitBadAddress \o Fails \o Wait(2) \o Ok \o Code("magic") \o Exit("0")
  \o Times(Yields, Yield) \o Exit("magic")

YieldProgram == Times(Yields, Yield) \o Exit("0")
Hello      == Exit("0")                     \* and pgdir: they only print
DivZero    == Trap \o Panic
SoftInt    == Trap \o Panic                 \* user mode may not raise this interrupt
BadSegment == Trap \o Panic                 \* nor load this segment
FaultRead  == PageFault \o Panic            \* and faultreadkernel
TestBss    == PageFault \o Trap \o Panic    \* the array is read and written before

Programs ==
  {ExitProgram, ForkTest, ForkTree, WaitKill, Spin, BadArg, YieldProgram, Hello,
   DivZero, SoftInt, BadSegment, FaultRead, TestBss}

(* What main exits with: waitkill and the faulty programs are killed.      *)
Result == IF program \in {WaitKill, DivZero, SoftInt, BadSegment} THEN "killed" ELSE "0"

-----------------------------------------------------------------------------
(* The memory of a process when it begins, and when it is gone.            *)
Fresh(p) == [at |-> 1, known |-> <<p>>, ret |-> "ok"]

UserInit ==
  /\ Init
  /\ program \in Programs
  /\ at = [p \in Proc |-> Fresh(p).at]
  /\ known = [p \in Proc |-> Fresh(p).known]
  /\ ret = [p \in Proc |-> Fresh(p).ret]
  /\ code = [p \in Proc |-> "0"]

(* p is at this instruction.                                               *)
Instruction(p) == program[at[p]]
Executes(p, name) == In(p, "user") /\ Instruction(p).op = name
Continue(p) == at' = [at EXCEPT ![p] = @ + 1]
Returns(p, r) == ret' = [ret EXCEPT ![p] = r]

ForkStep(p) ==
  /\ Executes(p, "fork")
  /\ \E c \in Free(1) :
       /\ MakeChild(p, c)
       /\ at' = [at EXCEPT ![p] = @ + 1, ![c] = Instruction(p).arg]
       /\ known' = [known EXCEPT ![p] = Append(@, c), ![c] = known[p]]
       /\ Returns(p, "ok")
       /\ UNCHANGED code

YieldStep(p) ==
  Executes(p, "yield") /\ SysYield(p) /\ Continue(p) /\ Returns(p, "ok") /\ UNCHANGED <<known, code>>

Awaits(p) == IF Instruction(p).arg = 0 THEN ANY ELSE known[p][Instruction(p).arg]
WaitStep(p) ==
  Executes(p, "wait") /\ SysWait(p, Awaits(p)) /\ Continue(p) /\ UNCHANGED <<known, ret, code>>

(* do_wait finds no process -1, and refuses an address it may not write.   *)
RefusedWait(p) ==
  Executes(p, "refused") /\ Tick /\ Continue(p) /\ Returns(p, "error") /\ UNCHANGED <<known, code>>

(* do_kill fails of a process that is gone or has been killed already.     *)
KillStep(p) ==
  /\ Executes(p, "kill")
  /\ LET q == known[p][Instruction(p).arg]
         found == q \in ToSet(proc_list) /\ ~exiting[q]
     IN  /\ IF found THEN SysKill(p, q) ELSE Tick
         /\ Returns(p, IF found THEN "ok" ELSE "error")
  /\ Continue(p)
  /\ UNCHANGED <<known, code>>

Exits(p, c) ==
  /\ code' = [code EXCEPT ![p] = c]
  /\ at' = [at EXCEPT ![p] = Fresh(p).at]
  /\ known' = [known EXCEPT ![p] = Fresh(p).known]
  /\ ret' = [ret EXCEPT ![p] = Fresh(p).ret]

(* A test continues or ends the process with a panic.                      *)
Holds(p) ==
  \/ Instruction(p).op = "assert" /\ Instruction(p).arg = ret[p]
  \/ Instruction(p).op = "code" /\ Instruction(p).arg = code[p]
TestPasses(p) ==
  In(p, "user") /\ Holds(p) /\ Continue(p) /\ UNCHANGED <<vars, known, ret, code>>
ExitStep(p) ==
  /\ \E name \in {"exit", "panic", "assert", "code"} : Executes(p, name)
  /\ ~Holds(p)
  /\ SysExit(p)
  /\ Exits(p, IF Instruction(p).op = "exit" THEN Instruction(p).arg ELSE "panic")

(* trap_dispatch: do_exit(-E_KILLED); but a page fault that cannot be       *)
(* served stops the whole kernel.                                          *)
TrapStep(p) == Executes(p, "trap") /\ DoExit(p) /\ Exits(p, "killed")
PageFaultStep(p) ==
  /\ Executes(p, "pagefault")
  /\ halted' = TRUE
  /\ UNCHANGED <<proc_list, state, parent, wait_state, exiting, pc, pid, current, need_resched, at, known, ret, code>>

Step(p) ==
  \/ ForkStep(p) \/ YieldStep(p) \/ WaitStep(p) \/ RefusedWait(p) \/ KillStep(p) \/ ExitStep(p)
  \/ TestPasses(p) \/ TrapStep(p) \/ PageFaultStep(p)

(* A slip: the waiter finds its own exit code.                             *)
Stored_Own(p) == code[p]
(* What the kernel leaves to the program: the result of a wait and the exit *)
(* code of the child it freed, and the exit code of who has been killed.   *)
Stored(p) ==
  LET reaped == {c \in User : state[c] = "ZOMBIE" /\ state'[c] = "FREE"}
  IN  IF p = current /\ reaped # {} THEN code[CHOOSE c \in reaped : TRUE]
      ELSE IF state[p] # "ZOMBIE" /\ state'[p] = "ZOMBIE" THEN "killed"
      ELSE IF state'[p] = "FREE" THEN "0" ELSE code[p]

KernelStep ==
  LET Gone(p) == state'[p] \in {"ZOMBIE", "FREE"}
      Waited(p) == IF Awaited(p) = {} THEN "error" ELSE "ok"
  IN  /\ Kernel /\ UNCHANGED program
      /\ at' = [p \in Proc |-> IF Gone(p) THEN Fresh(p).at ELSE at[p]]
      /\ known' = [p \in Proc |-> IF Gone(p) THEN Fresh(p).known ELSE known[p]]
      /\ ret' = [p \in Proc |-> IF Gone(p) THEN Fresh(p).ret ELSE IF In(p, "wait") THEN Waited(p) ELSE ret[p]]
      /\ code' = [p \in Proc |-> Stored(p)]

(* A tick that asks for no decision is left out: it is felt by a process   *)
(* that has been killed alone, which the next timer or system call ends.   *)
Clock == Timer /\ UNCHANGED <<program, at, known, ret, code>>

Users == UNCHANGED program /\ \E p \in User : Step(p)
UserNext == KernelStep \/ Clock \/ Users

(* The clock leaves the program time for an instruction now and then.      *)
UserSpec ==
  /\ UserInit /\ [][UserNext]_uvars
  /\ WF_uvars(KernelStep) /\ WF_vars(Timer) /\ SF_uvars(Users)

-----------------------------------------------------------------------------
(* No assert of a program fails and main exits as the program is meant to, *)
(* however the clock interleaves two copies of it.                         *)
ProgramsPass ==
  [][\A p \in User : state[p] # "ZOMBIE" /\ state'[p] = "ZOMBIE" =>
       code'[p] # "panic" /\ (Head(known[p]) = p => code'[p] = Result)]_uvars

(* The kernel stops: by a page fault it cannot serve, or when initproc has *)
(* waited for everybody and is alone in the list (init_main's assertions). *)
ProgramsEnd ==
  <>(halted /\ (program \notin {FaultRead, TestBss} => proc_list = <<initproc>>))
=============================================================================
