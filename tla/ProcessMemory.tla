--------------------------- MODULE ProcessMemory ---------------------------
(***************************************************************************)
(* What an operating system promises about user memory: every process runs *)
(* in a space, alone or with those that share it, and only its own         *)
(* accesses, fork and execve change what the space holds.                  *)
(***************************************************************************)
EXTENDS Integers

CONSTANTS Proc, Space, Page, Value, NULL,
          Program,               \* the images, see Holds
          NPage, StackReady      \* the pages, and those of the stack that are there at once

VARIABLES space,     \* of each process; NULL if it has none
          memory     \* of each space: what its pages hold, "none" if they were never touched

Empty == [v \in Page |-> "none"]

Init == space = [p \in Proc |-> NULL] /\ memory = [s \in Space |-> Empty]

Users(s) == {p \in Proc : space[p] = s}
(* The memories when p has left its space for t.                           *)
Left(p, t) == [s \in Space |-> IF s # t /\ Users(s) = {p} THEN Empty ELSE memory[s]]

(* What may be found in page v of an image just loaded: the data, zeros,   *)
(* anything in the pages of the stack, and nothing elsewhere.              *)
Holds(g, v) ==
  LET over == {s \in g : s.filesz > 0 /\ v \in s.start .. s.start + s.memsz - 1}
  IN  IF v >= NPage - StackReady THEN Value
      ELSE IF over = {} THEN {"none"}
      ELSE {IF v < s.start + s.filesz THEN s.data ELSE "bss" : s \in over}

Write(p, v, x) ==
  /\ space[p] # NULL
  /\ memory' = [memory EXCEPT ![space[p]][v] = x]
  /\ UNCHANGED space

Fork(p, c, s) ==
  /\ space[p] # NULL /\ space[c] = NULL
  /\ s = space[p] \/ Users(s) = {}
  /\ space' = [space EXCEPT ![c] = s]
  /\ memory' = [memory EXCEPT ![s] = memory[space[p]]]

Exec(p, s, g) ==
  /\ Users(s) \subseteq {p}
  /\ space' = [space EXCEPT ![p] = s]
  /\ \A v \in Page : memory'[s][v] \in Holds(g, v)
  /\ \A t \in Space \ {s} : memory'[t] = Left(p, s)[t]

Exit(p) ==
  /\ space[p] # NULL
  /\ space' = [space EXCEPT ![p] = NULL]
  /\ memory' = Left(p, NULL)

Next ==
  \E p \in Proc :
    \/ Exit(p)
    \/ \E v \in Page, x \in Value : Write(p, v, x)
    \/ \E s \in Space : (\E c \in Proc : Fork(p, c, s)) \/ (\E g \in Program : Exec(p, s, {g.segs[i] : i \in DOMAIN g.segs}))

Spec == Init /\ [][Next]_<<space, memory>>
=============================================================================
