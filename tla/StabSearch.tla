----------------------------- MODULE StabSearch -----------------------------
(***************************************************************************)
(* How a backtrace finds the function and the line of an address in the    *)
(* table of stabs (kern/debug/kdebug.c).  The table is written stab by     *)
(* stab, as compiler and linker do, and then an address is looked up.      *)
(***************************************************************************)
EXTENDS Integers, SequencesExt

CONSTANTS
  MaxStabs,
  MaxAddr        \* addresses of code are 1 .. MaxAddr

StabSearchAssumption == MaxStabs \in Nat \ {0} /\ MaxAddr \in Nat

VARIABLES
  table,         \* type, value and line (n_desc) of each stab
  at,            \* the address of the last one
  sought,        \* the address, -1 before the search, and whether the table can be read
  info           \* what debuginfo_eip answers: fn and file are the stabs with the names

None == -1
N == Len(table)
stabs(i) == table[i + 1]        \* counted from 0

Unknown == [answer |-> -1, fn |-> None, file |-> None, line |-> 0, narg |-> 0]

Init ==
  /\ table = <<[type |-> "UNDF", value |-> 0, line |-> 0]>> /\ at = 0
  /\ sought = [addr |-> None, readable |-> TRUE] /\ info = Unknown

-----------------------------------------------------------------------------
(* Each file has a stab, then its functions, each with its parameters, its *)
(* lines and its blocks, or, in assembly, its lines alone.  Lines may come *)
(* from an included file.  Only the stab of a line has a line number, its  *)
(* own.  Files and functions are longer than one byte, lines need not be.  *)
Indices(types) == {i \in 0 .. N - 1 : stabs(i).type \in types}
Highest(s) == CHOOSE i \in s : \A j \in s : j <= i
Kind == stabs(N - 1).type
Unit == Highest(Indices({"SO", "FUN", "UNDF"}))
Apart(a) == a > at /\ a > stabs(Unit).value + 1

Put(type, value, address) ==
  /\ sought.addr = None /\ N < MaxStabs /\ address \in 1 .. MaxAddr
  /\ table' = Append(table, [type |-> type, value |-> value, line |-> IF type = "SLINE" THEN N ELSE 0])
  /\ at' = address
  /\ UNCHANGED <<sought, info>>

File(a)  == (IF Unit = 0 THEN a > 0 ELSE Apart(a)) /\ Put("SO", a, a)
Fun(a)   == /\ Kind \in {"SO", "SLINE", "BRAC"}
            /\ IF Kind = "SO" THEN a = at ELSE Apart(a) /\ stabs(Unit).type = "FUN"
            /\ Put("FUN", a, a)
Param    == Kind \in {"FUN", "PSYM"} /\ Put("PSYM", 0, at)
Sol      == Kind = "SLINE" /\ Put("SOL", at, at)
SLine(a) == /\ Kind \in {"SO", "FUN", "PSYM", "SLINE", "SOL"}
            /\ IF Kind \in {"SLINE", "SOL"} THEN a > at ELSE a = at
            /\ Put("SLINE", IF stabs(Unit).type = "FUN" THEN a - stabs(Unit).value ELSE a, a)
Brac     == Kind = "SLINE" /\ stabs(Unit).type = "FUN" /\ Put("BRAC", 0, at)

-----------------------------------------------------------------------------
(* The last stab of the type in l .. m, or l - 1.                          *)
RECURSIVE Back(_, _, _)
Back(m, l, type) == IF m >= l /\ stabs(m).type # type THEN Back(m - 1, l, type) ELSE m

RECURSIVE Search(_, _, _, _, _)
(* The loop of stab_binsearch, for the region found so far.                *)
Search(l, r, region, type, addr) ==
  LET true_m == (l + r) \div 2
      m == Back(true_m, l, type)
  IN  IF l > r THEN region
      ELSE IF m < l THEN Search(true_m + 1, r, region, type, addr)
      ELSE IF stabs(m).value < addr THEN Search(true_m + 1, r, [region EXCEPT !.left = m, !.any = TRUE], type, addr)
      ELSE IF stabs(m).value > addr THEN Search(l, m - 1, [region EXCEPT !.right = m - 1, !.any = TRUE], type, addr)
      ELSE Search(m, r, [region EXCEPT !.left = m, !.any = TRUE], type, addr + 1)

stab_binsearch(left, right, type, addr) ==
  LET s == Search(left, right, [left |-> left, right |-> right, any |-> FALSE], type, addr)
  IN  IF ~s.any THEN [s EXCEPT !.right = left - 1]
      ELSE [s EXCEPT !.left = IF s.right <= s.left THEN s.right ELSE Back(s.right, s.left + 1, type)]

(* The parameters in left + 1 .. right - 1.                                *)
Narg(left, right) ==
  LET ends == {i \in left + 1 .. right : i = right \/ stabs(i).type # "PSYM"}
  IN  IF left < right THEN (CHOOSE i \in ends : \A j \in ends : i <= j) - left - 1 ELSE 0

(* A slip: lines are sought as if they lay at addresses.                   *)
Offset_Absolute(fun, addr) == addr
(* The values of a function's lines count from its beginning.              *)
Offset(fun, addr) == addr - stabs(fun.left).value

(* The name of the file: the last stab of one in lfile .. m, SO stabs      *)
(* without an address left out.                                            *)
FileName(lfile, m) ==
  LET names == {i \in lfile .. m : stabs(i).type \in {"SO", "SOL"} /\ (stabs(i).type = "SO" => stabs(i).value # 0)}
  IN  IF names = {} THEN None ELSE Highest(names)

debuginfo_eip(addr, readable) ==
  LET file  == stab_binsearch(0, N - 1, "SO", addr)
      fun   == stab_binsearch(file.left, file.right, "FUN", addr)
      found == fun.left <= fun.right
      line  == IF found THEN stab_binsearch(fun.left, fun.right, "SLINE", Offset(fun, addr))
                        ELSE stab_binsearch(file.left, file.right, "SLINE", addr)
      fn    == IF found THEN fun.left ELSE None
  IN  IF ~readable \/ file.left = 0 THEN Unknown
      ELSE IF line.left > line.right THEN [Unknown EXCEPT !.fn = fn]
      ELSE [answer |-> 0, fn |-> fn, file |-> FileName(file.left, line.left),
            line |-> stabs(line.right).line, narg |-> Narg(fun.left, fun.right)]

(* A table is readable if it is the kernel's, or the process may read its  *)
(* own, and its strings end with a 0.  Behind a change of the file there   *)
(* is a line.                                                              *)
LookUp(addr, readable) ==
  /\ sought.addr = None /\ Kind # "SOL"
  /\ sought' = [addr |-> addr, readable |-> readable]
  /\ info' = debuginfo_eip(addr, readable)
  /\ UNCHANGED <<table, at>>

Next ==
  \/ Param \/ Sol \/ Brac
  \/ \E a \in 1 .. MaxAddr : File(a) \/ Fun(a) \/ SLine(a)
  \/ \E a \in 0 .. MaxAddr, r \in BOOLEAN : LookUp(a, r)

Spec == Init /\ [][Next]_<<table, at, sought, info>>

-----------------------------------------------------------------------------
(* Of the given stabs, the last one that is not above the address; their   *)
(* values count from base.                                                 *)
At(i, base)     == base + stabs(i).value
Covers(s, base) == LET low == {i \in s : At(i, base) <= sought.addr} IN IF low = {} THEN None ELSE Highest(low)
Next1(s, i)     == LET more == {j \in s : j > i} IN IF more = {} THEN N ELSE CHOOSE j \in more : \A k \in more : j <= k

(* Those after it that the search may end at: it takes a stab one address  *)
(* above a match for a match.                                              *)
Run(s, base) ==
  {i \in s : At(i, base) > sought.addr
               /\ \A a \in sought.addr .. At(i, base) : \E j \in s : At(j, base) = a}

(* The file, the function and the stabs of lines that the address is in.   *)
TheFile  == Covers(Indices({"SO"}), 0)
FileEnd  == Next1(Indices({"SO"}), TheFile)
TheFun   == Covers(Indices({"FUN"}) \cap TheFile .. FileEnd - 1, 0)
FunEnd   == IF TheFun = None THEN FileEnd ELSE Next1(Indices({"FUN", "SO"}), TheFun)
Base     == IF TheFun = None THEN 0 ELSE stabs(TheFun).value
Lines    == Indices({"SLINE"}) \cap (IF TheFun = None THEN TheFile ELSE TheFun) .. FunEnd - 1
LineEnd(i) == IF \E j \in Lines : j > i THEN Next1(Lines, i) ELSE FunEnd

(* A search finds the file and the function of the address, counts the     *)
(* function's parameters and names the file its line is from; it fails     *)
(* when no line is at or below the address.  The line it stops at is the   *)
(* last of those, or, where a line begins at the address itself, perhaps   *)
(* one of those that follow it byte by byte; what it reports is what the   *)
(* last stab before the next line has for a line.                          *)
BacktraceExact ==
  sought.addr # None =>
    IF ~sought.readable \/ TheFile = None THEN info = Unknown
    ELSE IF Covers(Lines, Base) = None THEN info = [Unknown EXCEPT !.fn = TheFun]
    ELSE /\ info.answer = 0 /\ info.fn = TheFun
         /\ info.narg = Cardinality({i \in Indices({"PSYM"}) : TheFun # None /\ i > TheFun /\ i < FunEnd})
         /\ \E i \in {Covers(Lines, Base)} \cup Run(Lines, Base) :
              /\ info.line = stabs(LineEnd(i) - 1).line
              /\ info.file = Highest({k \in Indices({"SO", "SOL"}) : k < i})

(* If a line is found, eip_line is the right line number: that of the line *)
(* the search stopped at.                                                  *)
LineIsRight ==
  sought.addr # None /\ info.answer = 0 =>
    \E i \in {Covers(Lines, Base)} \cup Run(Lines, Base) : info.line = stabs(i).line
=============================================================================
