-------------------------------- MODULE Text --------------------------------
(***************************************************************************)
(* The libraries of text.  First numbers and text: the formatted output of *)
(* libs/printfmt.c and strtol of libs/string.c.  A character is a string   *)
(* of length one; nul ends a text.  A call of snprintf is chosen at the    *)
(* start and made in one step.  Then the other routines of string.c, and   *)
(* those of x86.h that take their place where both have one: the memory is *)
(* a few cells with a string's end in the last one; a call is chosen and   *)
(* made in one step.  Each of the two parts has variables of its own.      *)
(***************************************************************************)
EXTENDS Integers, SequencesExt

CONSTANTS
  Width,         \* bits of an int and a long
  Alphabet,      \* the characters of the formats, which start with %
  MaxFormat,     \* and how many may follow
  Num, Str,      \* the arguments: numbers, and texts or NoText, the null pointer
  Size,          \* sizes of the buffer
  Cells,         \* of the memory
  Char,          \* what a cell may hold, 0 among it
  WORD           \* cells that movsl moves at once

TextAssumption ==
  /\ Width \in Nat \ {0} /\ Num \subseteq -(2 ^ (Width - 1)) .. 2 ^ (Width - 1) - 1
  /\ Cells \in Nat \ {0} /\ WORD \in Nat \ {0} /\ 0 \in Char

VARIABLES
  format, num, str, size,
  printed, count, buf,  \* everything that is printed, and what snprintf returns and leaves
  before, after,        \* the memory
  call, answer

nul == "nul"
NoText == <<"NULL">>
Digit == <<"0", "1", "2", "3", "4", "5", "6", "7", "8", "9", "a", "b", "c", "d", "e", "f">>
Value == [d \in ToSet(Digit) |-> CHOOSE i \in 0 .. 15 : Digit[i + 1] = d]
Unsigned(n) == n % (2 ^ Width)
Signed(n) == LET u == Unsigned(n) IN IF u < 2 ^ (Width - 1) THEN u ELSE u - 2 ^ Width
Repeat(c, n) == [i \in 1 .. n |-> c]

Init ==
  /\ \E n \in 0 .. MaxFormat : \E f \in [1 .. n -> Alphabet] : format = <<"%">> \o f \o <<nul>>
  /\ num \in Num /\ str \in Str /\ size \in Size
  /\ "e" \in ToSet(format) => num # -(2 ^ (Width - 1))     \* which has no absolute value
  /\ printed = NoText /\ count = 0 /\ buf = << >>

-----------------------------------------------------------------------------
RECURSIVE printnum(_, _, _, _), printnum_Early(_, _, _, _)
(* A slip: the highest digit may be as large as the base.                  *)
printnum_Early(n, base, width, padc) ==
  (IF n > base THEN printnum_Early(n \div base, base, width - 1, padc) ELSE Repeat(padc, width - 1))
  \o <<Digit[1 + (n % base)]>>
printnum(n, base, width, padc) ==
  (IF n >= base THEN printnum(n \div base, base, width - 1, padc) ELSE Repeat(padc, width - 1))
  \o <<Digit[1 + (n % base)]>>

(* The case 's', with at most precision characters of the text.            *)
PrintString(st) ==
  LET p    == IF str = NoText THEN <<"(", "n", "u", "l", "l", ")">> ELSE str
      body == IF st.precision >= 0 /\ st.precision < Len(p) THEN SubSeq(p, 1, st.precision) ELSE p
      pads == st.width - Len(body)
  IN  IF st.padc # "-" THEN Repeat(st.padc, pads) \o body ELSE body \o Repeat(" ", pads)

(* The errors that error_string names.                                     *)
Named == (1 .. 6) \cup (8 .. 10)
PrintError(n) ==
  LET err == IF n < 0 THEN -n ELSE n
  IN  IF err \in Named THEN <<"message">> ELSE <<"error ">> \o printnum(err, 10, -1, " ")

PrintSigned(st) ==
  IF num < 0 THEN <<"-">> \o printnum(-num, 10, st.width, st.padc) ELSE printnum(num, 10, st.width, st.padc)

Base == [u |-> 10, o |-> 8, x |-> 16, p |-> 16]
PrintUnsigned(st, ch) ==
  (IF ch = "p" THEN <<"0", "x">> ELSE << >>) \o printnum(Unsigned(num), Base[ch], st.width, st.padc)

(* process_precision.                                                      *)
Precise(st, n) == IF st.width < 0 THEN [st EXCEPT !.width = n, !.precision = -1] ELSE [st EXCEPT !.precision = n]
DigitsAt(f) == SelectInSeq(f, LAMBDA c : c \notin ToSet(SubSeq(Digit, 1, 10))) - 1
Decimal(ds) == FoldLeft(LAMBDA n, d : n * 10 + Value[d], 0, ds)

(* The output of the escape at f, and what follows it; its text begins at  *)
(* from.                                                                   *)
RECURSIVE Escape(_, _, _), vprintfmt(_)
Escape(f, from, st) ==
  LET ch == f[1]  rest == Tail(f)
      Is(text) == [out |-> text, rest |-> rest]
  IN  CASE ch \in {"-", "0"} -> Escape(rest, from, [st EXCEPT !.padc = ch])
        [] ch = "." -> Escape(rest, from, IF st.width < 0 THEN [st EXCEPT !.width = 0] ELSE st)
        [] ch \in {"#", "l"} -> Escape(rest, from, st)
        [] ch = "*" -> Escape(rest, from, Precise(st, num))
        [] ch \in ToSet(SubSeq(Digit, 2, 10)) ->
             LET n == DigitsAt(f)
             IN  Escape(SubSeq(f, n + 1, Len(f)), from, Precise(st, Decimal(SubSeq(f, 1, n))))
        [] ch = "c" -> Is(<<"chr">>)
        [] ch = "e" -> Is(PrintError(num))
        [] ch = "s" -> Is(PrintString(st))
        [] ch = "d" -> Is(PrintSigned(st))
        [] ch \in DOMAIN Base -> Is(PrintUnsigned(st, ch))
        [] ch = "%" -> Is(<<"%">>)
        [] OTHER -> [out |-> <<"%">>, rest |-> from]

vprintfmt(f) ==
  IF f[1] = nul THEN << >>
  ELSE IF f[1] # "%" THEN <<f[1]>> \o vprintfmt(Tail(f))
  ELSE LET e == Escape(Tail(f), Tail(f), [padc |-> " ", width |-> -1, precision |-> -1])
       IN  e.out \o vprintfmt(e.rest)

-----------------------------------------------------------------------------
(* sprintputch counts every character and stores it while there is room    *)
(* before ebuf, which is the last cell.                                    *)
sprintputch(b, ch) ==
  [buf |-> IF Len(b.buf) < size - 1 THEN Append(b.buf, ch) ELSE b.buf, cnt |-> b.cnt + 1]

E_INVAL == 3
vsnprintf ==
  /\ printed = NoText
  /\ \E out \in {vprintfmt(format)} : \E b \in {FoldLeft(sprintputch, [buf |-> << >>, cnt |-> 0], out)} :
       /\ printed' = out
       /\ IF size = 0 THEN count' = -E_INVAL /\ UNCHANGED buf
          ELSE count' = b.cnt /\ buf' = Append(b.buf, nul)
  /\ UNCHANGED <<format, num, str, size>>

Next == vsnprintf

-----------------------------------------------------------------------------
(* strtol: after blanks, a sign and a prefix, digits below the base.       *)
RECURSIVE Digits(_, _, _)
Digits(s, base, val) ==
  IF s # << >> /\ s[1] \in DOMAIN Value /\ Value[s[1]] < base
  THEN Digits(Tail(s), base, Signed(val * base + Value[s[1]])) ELSE val

SkipBlanks(s) ==
  LET n == SelectInSeq(s, LAMBDA c : c \notin {" ", "\t"}) IN IF n = 0 THEN << >> ELSE SubSeq(s, n, Len(s))
strtol(text, b) ==
  LET s0 == SkipBlanks(text)
      neg == s0 # << >> /\ s0[1] = "-"
      s   == IF s0 # << >> /\ s0[1] \in {"+", "-"} THEN Tail(s0) ELSE s0
      hex == b \in {0, 16} /\ Len(s) > 1 /\ s[1] = "0" /\ s[2] = "x"
      oct == ~hex /\ b = 0 /\ s # << >> /\ s[1] = "0"
      base == IF hex THEN 16 ELSE IF oct THEN 8 ELSE IF b = 0 THEN 10 ELSE b
      val == Digits(IF hex THEN SubSeq(s, 3, Len(s)) ELSE s, base, 0)
  IN  IF neg THEN Signed(-val) ELSE val

-----------------------------------------------------------------------------
Letters == {"c", "e", "s", "d", "u", "o", "x", "p"}
Escapes == Cardinality({i \in DOMAIN format : format[i] = "%"})
Conversion == format[Len(format) - 1]
NumberOnly == Escapes = 1 /\ Conversion \in {"d", "u", "o", "x"} /\ \A i \in 1 .. Len(format) - 2 : format[i] \notin Letters \cup {"q"}

(* A number that is printed alone is read back by strtol, once the blanks  *)
(* between a sign and its digits are gone, and fills its field; a format   *)
(* without a conversion prints as it stands; and a buffer holds the        *)
(* beginning of the output and its end, however small it is.  (A minus     *)
(* flag fills the field of a number with minus signs.)                     *)
PrintExact ==
  printed # NoText =>
    /\ NumberOnly /\ "-" \notin ToSet(format) =>
         /\ strtol(SelectSeq(printed, LAMBDA c : c # " "), IF Conversion = "d" THEN 10 ELSE Base[Conversion]) = num
         /\ format[2] = "3" /\ Len(format) = 4 => Len(printed) >= 3
    /\ Escapes = 1 /\ ToSet(format) \cap Letters = {} => printed \o <<nul>> = format
    /\ size > 0 => count = Len(printed) /\ buf = SubSeq(printed, 1, IF count < size THEN count ELSE size - 1) \o <<nul>>
    /\ Len(buf) <= size

-----------------------------------------------------------------------------
Routine == {"strlen", "strnlen", "strcpy", "strncpy", "strcmp", "strncmp", "strchr", "memset", "memmove", "memcpy", "memcmp"}

MemoryInit ==
  /\ before \in [0 .. Cells - 1 -> Char] /\ before[Cells - 1] = 0
  /\ after = before /\ call = <<"none">> /\ answer = 0

-----------------------------------------------------------------------------
Copy(m, dst, src, n) == [i \in DOMAIN m |-> IF i \in dst .. dst + n - 1 THEN m[src + i - dst] ELSE m[i]]

(* __memcpy: whole words upwards, each read before it is written, then the *)
(* rest one by one; the same loop one by one is that of string.c.          *)
RECURSIVE Upwards(_, _, _, _, _)
Upwards(m, dst, src, n, word) ==
  IF n = 0 THEN m
  ELSE LET w == IF n >= word THEN word ELSE 1 IN Upwards(Copy(m, dst, src, w), dst + w, src + w, n - w, word)
memcpy(m, dst, src, n) == Upwards(m, dst, src, n, WORD)

RECURSIVE Downwards(_, _, _, _)
Downwards(m, dst, src, n) ==
  IF n = 0 THEN m ELSE Downwards(Copy(m, dst + n - 1, src + n - 1, 1), dst, src, n - 1)
(* __memmove.                                                              *)
memmove(m, dst, src, n) == IF dst < src THEN memcpy(m, dst, src, n) ELSE Downwards(m, dst, src, n)

memset(m, s, c, n) == [i \in DOMAIN m |-> IF i \in s .. s + n - 1 THEN c ELSE m[i]]

RECURSIVE strlen(_, _), strnlen(_, _, _), strcpy(_, _, _), strncpy(_, _, _, _), strcmp(_, _, _), strncmp(_, _, _, _),
          strchr(_, _, _), memcmp(_, _, _, _)
strlen(m, s) == IF m[s] = 0 THEN 0 ELSE 1 + strlen(m, s + 1)
strnlen(m, s, n) == IF n = 0 \/ m[s] = 0 THEN 0 ELSE 1 + strnlen(m, s + 1, n - 1)
strcpy(m, dst, src) ==
  LET u == [m EXCEPT ![dst] = m[src]] IN IF m[src] = 0 THEN u ELSE strcpy(u, dst + 1, src + 1)
strncpy(m, dst, src, n) ==
  IF n = 0 THEN m
  ELSE strncpy([m EXCEPT ![dst] = m[src]], dst + 1, IF m[src] # 0 THEN src + 1 ELSE src, n - 1)
(* __strcmp answers -1, 0 or 1.                                            *)
strcmp(m, a, b) ==
  IF m[a] # m[b] THEN (IF m[a] < m[b] THEN -1 ELSE 1) ELSE IF m[a] = 0 THEN 0 ELSE strcmp(m, a + 1, b + 1)
strncmp(m, a, b, n) ==
  IF n = 0 THEN 0 ELSE IF m[a] # 0 /\ m[a] = m[b] THEN strncmp(m, a + 1, b + 1, n - 1) ELSE m[a] - m[b]
(* strchr, -1 for NULL; the end of the string is never found.              *)
strchr(m, s, c) == IF m[s] = 0 THEN -1 ELSE IF m[s] = c THEN s ELSE strchr(m, s + 1, c)
memcmp(m, a, b, n) == IF n = 0 THEN 0 ELSE IF m[a] # m[b] THEN m[a] - m[b] ELSE memcmp(m, a + 1, b + 1, n - 1)

-----------------------------------------------------------------------------
(* Callers give room for the result, and memcpy no overlap.                *)
Disjoint(a, b, n) == a + n <= b \/ b + n <= a
Allowed(r, a, b, n) ==
  CASE r = "strcpy"  -> Disjoint(a, b, strlen(before, b) + 1) /\ a + strlen(before, b) < Cells
    [] r = "strncpy" -> Disjoint(a, b, n) /\ {a, b} \subseteq 0 .. Cells - n
    [] r = "memcpy"  -> Disjoint(a, b, n) /\ {a, b} \subseteq 0 .. Cells - n
    [] r \in {"memmove", "memcmp"} -> {a, b} \subseteq 0 .. Cells - n
    [] r = "memset"  -> a <= Cells - n /\ b \in Char
    [] r = "strchr"  -> b \in Char /\ n = 0
    [] r = "strlen"  -> b = 0 /\ n = 0
    [] r = "strcmp"  -> n = 0
    [] OTHER         -> TRUE

Call(r, a, b, n) ==
  /\ call = <<"none">> /\ Allowed(r, a, b, n)
  /\ call' = <<r, a, b, n>>
  /\ after' = CASE r = "strcpy" -> strcpy(before, a, b) [] r = "strncpy" -> strncpy(before, a, b, n)
                [] r = "memcpy" -> memcpy(before, a, b, n) [] r = "memmove" -> memmove(before, a, b, n)
                [] r = "memset" -> memset(before, a, b, n) [] OTHER -> before
  /\ answer' = CASE r = "strlen" -> strlen(before, a) [] r = "strnlen" -> strnlen(before, a, n)
                 [] r = "strcmp" -> strcmp(before, a, b) [] r = "strncmp" -> strncmp(before, a, b, n)
                 [] r = "strchr" -> strchr(before, a, b) [] r = "memcmp" -> memcmp(before, a, b, n)
                 [] OTHER -> 0
  /\ UNCHANGED before

MemoryNext == \E r \in Routine, a, b \in 0 .. Cells - 1, n \in 0 .. Cells : Call(r, a, b, n)

-----------------------------------------------------------------------------
(* What is at s, as a sequence: n cells, or a string.                      *)
Bytes(m, s, n) == [i \in 1 .. n |-> m[s + i - 1]]
StringAt(m, s) == Bytes(m, s, CHOOSE n \in 0 .. Cells : m[s + n] = 0 /\ \A i \in 0 .. n - 1 : m[s + i] # 0)
Cut(q, n) == IF Len(q) < n THEN q ELSE SubSeq(q, 1, n)
(* -1, 0 or 1 as q comes before r, is it, or comes after it.               *)
Order(q, r) ==
  IF q = r THEN 0
  ELSE LET d == CHOOSE i \in 1 .. Len(q) + Len(r) : (\A j \in 1 .. i - 1 : j \in DOMAIN q \cap DOMAIN r /\ q[j] = r[j])
                                                    /\ ~(i \in DOMAIN q \cap DOMAIN r /\ q[i] = r[i])
       IN  IF d > Len(q) \/ (d <= Len(r) /\ q[d] < r[d]) THEN -1 ELSE 1
Sign(x) == IF x < 0 THEN -1 ELSE IF x = 0 THEN 0 ELSE 1
Only(a, n) == \A i \in DOMAIN before \ (a .. a + n - 1) : after[i] = before[i]

(* Each routine answers what its comment says, and writes what it should   *)
(* and nothing else, also where source and destination overlap.            *)
StringsExact ==
  \A r \in {call[1]} : r # "none" =>
    \A a \in {call[2]}, b \in {call[3]}, n \in {call[4]} :
      CASE r = "strlen"  -> answer = Len(StringAt(before, a))
        [] r = "strnlen" -> answer = Len(Cut(StringAt(before, a), n))
        [] r = "strcpy"  -> StringAt(after, a) = StringAt(before, b) /\ Only(a, Len(StringAt(before, b)) + 1)
        [] r = "strncpy" -> /\ Only(a, n)
                            /\ \A i \in 0 .. n - 1 : after[a + i] = IF i < Len(StringAt(before, b)) THEN before[b + i] ELSE 0
        [] r \in {"memcpy", "memmove"} -> Only(a, n) /\ Bytes(after, a, n) = Bytes(before, b, n)
        [] r = "memset"  -> Only(a, n) /\ \A i \in a .. a + n - 1 : after[i] = b
        [] r = "strcmp"  -> answer = Order(StringAt(before, a), StringAt(before, b))
        [] r = "strncmp" -> Sign(answer) = Order(Cut(StringAt(before, a), n), Cut(StringAt(before, b), n))
        [] r = "memcmp"  -> Sign(answer) = Order(Bytes(before, a, n), Bytes(before, b, n))
        [] r = "strchr"  -> IF b \in ToSet(StringAt(before, a)) THEN
                              answer >= a /\ before[answer] = b /\ b \notin ToSet(Bytes(before, a, answer - a))
                            ELSE answer = -1
=============================================================================
