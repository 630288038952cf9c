------------------------------- MODULE Console -------------------------------
(***************************************************************************)
(* The console.  First kbd_proc_data of kern/driver/console.c: how the     *)
(* bytes that a keyboard sends become characters.  A key sends a byte, for *)
(* some keys after the escape E0, when it goes down and the same with the  *)
(* high bit when it comes up; a key that is held repeats.  Then the rest:  *)
(* characters come from the serial port and the keyboard through one ring, *)
(* to the handlers of the two interrupts while the kernel runs and to      *)
(* readline while its monitor does; the screen scrolls.                    *)
(***************************************************************************)
EXTENDS Integers, SequencesExt

CONSTANTS
  Key,           \* the keys that are used
  MaxWaiting     \* bytes that wait to be read at any time

Code == [a |-> <<\h1E>>, bs |-> <<\h0E>>, enter |-> <<\h1C>>, dot |-> <<\h53>>, del |-> <<\hE0, \h53>>,
         lshift |-> <<\h2A>>, rshift |-> <<\h36>>, lctl |-> <<\h1D>>, rctl |-> <<\hE0, \h1D>>,
         lalt |-> <<\h38>>, ralt |-> <<\hE0, \h38>>, caps |-> <<\h3A>>]

KeyboardAssumption == Key \subseteq DOMAIN Code /\ MaxWaiting \in Nat

VARIABLES
  kbd,           \* the bytes that wait
  shift,         \* the modifiers that are on
  rebooted,
  held,          \* the keys that are down, ...
  locked         \* ... and whether caps lock has been pressed an odd number of times

Init == kbd = << >> /\ shift = {} /\ rebooted = FALSE /\ held = {} /\ locked = FALSE

-----------------------------------------------------------------------------
shiftcode(data) ==
  CASE data \in {\h1D, \h9D} -> {"CTL"} [] data \in {\h2A, \h36} -> {"SHIFT"}
    [] data \in {\h38, \hB8} -> {"ALT"} [] OTHER -> {}
togglecode(data) == IF data = \h3A THEN {"CAPSLOCK"} ELSE {}

KEY_DEL == \hE9
normalmap == (\h1E :> 97) @@ (\h0E :> 8) @@ (\h1C :> 10) @@ (\h53 :> 46) @@ (\hD3 :> KEY_DEL)
shiftmap  == (\h1E :> 65) @@ normalmap
ctlmap    == (\h1E :> 1) @@ (\h1C :> 13) @@ (\hD3 :> KEY_DEL)
charcode(mods, data) ==
  LET map == IF "CTL" \in mods THEN ctlmap ELSE IF "SHIFT" \in mods THEN shiftmap ELSE normalmap
  IN  IF data \in DOMAIN map THEN map[data] ELSE 0

ChangeCase(c) == IF c \in 97 .. 122 THEN c - 32 ELSE IF c \in 65 .. 90 THEN c + 32 ELSE c

(* The byte of a release switches off what its key had switched on.        *)
Release(mods, data) ==
  mods \ (shiftcode(IF "E0ESC" \in mods THEN data ELSE data - 128) \cup {"E0ESC"})

Press(mods, data) ==
  LET on == (mods \ {"E0ESC"}) \cup shiftcode(data)
      t  == togglecode(data)
  IN  (on \ t) \cup (t \ on)

(* What becomes of the modifiers, the character (0 for none), and whether  *)
(* the machine reboots.                                                    *)
kbd_proc_data(mods, data) ==
  IF data = \hE0 THEN [mods |-> mods \cup {"E0ESC"}, c |-> 0, reboots |-> FALSE]
  ELSE IF data >= 128 THEN [mods |-> Release(mods, data), c |-> 0, reboots |-> FALSE]
  ELSE LET code == IF "E0ESC" \in mods THEN data + 128 ELSE data
           on   == Press(mods, code)
           c    == charcode(on, code)
       IN  [mods |-> on, c |-> IF "CAPSLOCK" \in on THEN ChangeCase(c) ELSE c,
            reboots |-> {"CTL", "ALT"} \subseteq on /\ c = KEY_DEL]

-----------------------------------------------------------------------------
Sent(k, up) == LET s == Code[k] IN IF up THEN [s EXCEPT ![Len(s)] = @ + 128] ELSE s

Type(k) ==
  \E up \in BOOLEAN :
    /\ up => k \in held
    /\ Len(kbd) + Len(Code[k]) <= MaxWaiting
    /\ kbd' = kbd \o Sent(k, up)
    /\ held' = IF up THEN held \ {k} ELSE held \cup {k}
    /\ locked' = IF k = "caps" /\ ~up THEN ~locked ELSE locked
    /\ UNCHANGED <<shift, rebooted>>

Read ==
  /\ kbd # << >>
  /\ \E r \in {kbd_proc_data(shift, Head(kbd))} : shift' = r.mods /\ rebooted' = r.reboots
  /\ kbd' = Tail(kbd)
  /\ UNCHANGED <<held, locked>>

Next == ~rebooted /\ (Read \/ \E k \in Key : Type(k))

-----------------------------------------------------------------------------
Modifier == [SHIFT |-> {"lshift", "rshift"}, CTL |-> {"lctl", "rctl"}, ALT |-> {"lalt", "ralt"}]

(* When every byte has been read, no modifier is on whose keys are all up, *)
(* none is off whose keys are all down, caps lock has been toggled by each *)
(* press, and no escape is left.                                           *)
ModifiersExact ==
  kbd = << >> =>
    /\ \A m \in DOMAIN Modifier :
         /\ m \in shift => Modifier[m] \cap held # {}
         /\ Modifier[m] \subseteq held => m \in shift
    /\ "CAPSLOCK" \in shift <=> locked
    /\ "E0ESC" \notin shift

-----------------------------------------------------------------------------
CONSTANTS
  CONSBUFSIZE, BUFSIZE, CRT_COLS, CRT_ROWS,
  Serial,        \* the characters that the serial port may receive
  MaxArrived     \* a bound on the characters that come in

ConsoleAssumption ==
  /\ KeyboardAssumption /\ {CONSBUFSIZE, BUFSIZE, CRT_COLS} \subseteq Nat \ {0} /\ CRT_ROWS \in Nat \ {0, 1}
  /\ Serial \subseteq 1 .. 255

VARIABLES
  com1,          \* the characters that the serial port holds
  irq,           \* the interrupts that have been raised and not served
  cons,          \* buf, rpos, wpos
  monitor,       \* whether the kernel has panicked into its monitor
  line,          \* what readline has read
  crt,           \* buf, pos
  arrived, taken \* the characters put into the ring, and those that came out

CRT_SIZE == CRT_ROWS * CRT_COLS
blank == 32

ScreenInit ==
  /\ com1 = << >> /\ irq = {} /\ monitor = FALSE /\ line = << >> /\ arrived = << >> /\ taken = << >>
  /\ cons = [buf |-> [i \in 0 .. CONSBUFSIZE - 1 |-> 0], rpos |-> 0, wpos |-> 0]
  /\ crt = [buf |-> [i \in 0 .. CRT_SIZE - 1 |-> blank], pos |-> 0]

-----------------------------------------------------------------------------
(* Screen.                                                                 *)
Scroll(s) ==
  IF s.pos < CRT_SIZE THEN s
  ELSE [buf |-> [i \in DOMAIN s.buf |-> IF i + CRT_COLS < CRT_SIZE THEN s.buf[i + CRT_COLS] ELSE blank],
        pos |-> s.pos - CRT_COLS]

LineStart(pos) == (pos \div CRT_COLS) * CRT_COLS
cga_putc(s, c) ==
  Scroll(CASE c = 8 -> IF s.pos > 0 THEN [buf |-> [s.buf EXCEPT ![s.pos - 1] = blank], pos |-> s.pos - 1] ELSE s
           [] c = 10 -> [s EXCEPT !.pos = LineStart(@ + CRT_COLS)]
           [] c = 13 -> [s EXCEPT !.pos = LineStart(@)]
           [] OTHER -> [buf |-> [s.buf EXCEPT ![s.pos] = c], pos |-> s.pos + 1])
cprintf(s, cs) == FoldLeft(cga_putc, s, cs)

-----------------------------------------------------------------------------
(* cons_intr with one character, in the ring.                              *)
Store(ring, c) == [ring EXCEPT !.buf[ring.wpos] = c, !.wpos = IF @ + 1 = CONSBUFSIZE THEN 0 ELSE @ + 1]
Advance(rpos) == IF rpos + 1 = CONSBUFSIZE THEN 0 ELSE rpos + 1
cons_intr(ring, cs) == FoldLeft(Store, ring, cs)

serial_proc_data(c) == IF c = 127 THEN 8 ELSE c

(* The keyboard's bytes from bs on as kbd_intr reads them.                 *)
KbdRead(bs) ==
  FoldLeft(LAMBDA s, data : LET r == kbd_proc_data(s.mods, data)
                            IN  [mods |-> r.mods, reboots |-> s.reboots \/ r.reboots,
                                 cs |-> IF r.c = 0 THEN s.cs ELSE Append(s.cs, r.c)],
           [mods |-> shift, cs |-> << >>, reboots |-> FALSE], bs)

(* cons_getc, with the interrupts in ack acknowledged before.  While it    *)
(* reads the keyboard, the next byte raises another interrupt, and may or  *)
(* may not come in time to be read in the same loop.                       *)
cons_getc(ack, c) ==
  \E n \in (IF kbd = << >> THEN {0} ELSE 1 .. Len(kbd)) : \E k \in {KbdRead(SubSeq(kbd, 1, n))} :
  \E new \in {[i \in DOMAIN com1 |-> serial_proc_data(com1[i])] \o k.cs} : \E ring \in {cons_intr(cons, new)} :
    /\ kbd' = SubSeq(kbd, n + 1, Len(kbd)) /\ com1' = << >>
    /\ irq' = (irq \ ack) \cup (IF n > 1 \/ n < Len(kbd) THEN {"KBD"} ELSE {})
    /\ shift' = k.mods /\ rebooted' = k.reboots
    /\ arrived' = arrived \o new
    /\ IF ring.rpos # ring.wpos
       THEN /\ c = ring.buf[ring.rpos] /\ cons' = [ring EXCEPT !.rpos = Advance(@)] /\ taken' = Append(taken, c)
       ELSE c = 0 /\ cons' = ring /\ UNCHANGED taken

(* What cons_getc may return.                                              *)
Chars == {0} \cup ToSet(cons.buf) \cup {serial_proc_data(c) : c \in ToSet(com1)}
             \cup UNION {ToSet(KbdRead(SubSeq(kbd, 1, n)).cs) : n \in 0 .. Len(kbd)}

(* The cases IRQ_COM1 and IRQ_KBD of trap_dispatch, with interrupts on.    *)
Interrupt(i) ==
  /\ i \in irq /\ ~monitor
  /\ \E c \in Chars : cons_getc({i}, c) /\ crt' = cprintf(crt, <<c, 10>>)
  /\ UNCHANGED <<held, locked, monitor, line>>

(* __panic: no interrupts any more, and the monitor's prompt.              *)
Panic ==
  /\ ~monitor /\ monitor' = TRUE
  /\ crt' = cprintf(crt, <<10, 62>>)
  /\ UNCHANGED <<kbd, shift, rebooted, held, locked, com1, irq, cons, line, arrived, taken>>

-----------------------------------------------------------------------------
(* A slip: a backspace is echoed when there is nothing to take back.       *)
Erases_Always(c) == c = 8
Erases(c) == c = 8 /\ line # << >>

(* The turn of the loop in readline for a character; the monitor then runs *)
(* the line and prompts again.                                             *)
ReadLine(c) ==
  CASE c >= 32 /\ Len(line) < BUFSIZE - 1 -> crt' = cga_putc(crt, c) /\ line' = Append(line, c)
    [] Erases(c) -> crt' = cga_putc(crt, c) /\ line' = IF line = << >> THEN line ELSE Front(line)
    [] c \in {10, 13} -> crt' = cprintf(crt, <<c, 62>>) /\ line' = << >>
    [] OTHER -> UNCHANGED <<crt, line>>

(* getchar polls with interrupts off and leaves 0 out.                     *)
Monitor ==
  /\ monitor
  /\ \E c \in Chars : cons_getc({}, c) /\ ReadLine(c)
  /\ UNCHANGED <<held, locked, monitor>>

ReceiveSerial ==
  /\ com1 = << >> /\ Len(arrived) < MaxArrived
  /\ \E c \in Serial : com1' = <<c>>
  /\ irq' = irq \cup {"COM1"}
  /\ UNCHANGED <<kbd, shift, rebooted, held, locked, cons, monitor, line, crt, arrived, taken>>

TypeKey(k) ==
  /\ Len(arrived) < MaxArrived
  /\ Type(k)
  /\ irq' = IF kbd = << >> THEN irq \cup {"KBD"} ELSE irq
  /\ UNCHANGED <<com1, cons, monitor, line, crt, arrived, taken>>

ConsoleNext ==
  /\ ~rebooted
  /\ ReceiveSerial \/ (\E k \in Key : TypeKey(k)) \/ (\E i \in irq : Interrupt(i)) \/ Panic \/ Monitor

-----------------------------------------------------------------------------
Waiting == [i \in 1 .. (cons.wpos - cons.rpos) % CONSBUFSIZE |-> cons.buf[(cons.rpos + i - 1) % CONSBUFSIZE]]

(* How much of taken is found, in its order, ending with character c.      *)
Matched(n, c) == IF n < Len(taken) /\ taken[n + 1] = c THEN n + 1 ELSE n

(* Characters come out of the ring in the order in which they went in; the *)
(* missing test for a full ring loses all that wait, CONSBUFSIZE of them,  *)
(* and nothing else is ever lost.                                          *)
InputInOrder ==
  /\ IsSuffix(Waiting, arrived)
  /\ (Len(arrived) - Len(taken) - Len(Waiting)) % CONSBUFSIZE = 0
  /\ FoldLeft(Matched, 0, SubSeq(arrived, 1, Len(arrived) - Len(Waiting))) = Len(taken)

(* The screen shows the prompt and the line that readline holds, just      *)
(* before the cursor.                                                      *)
EchoExact ==
  /\ crt.pos \in 0 .. CRT_SIZE - 1
  /\ monitor =>
       /\ Len(line) < BUFSIZE
       /\ \A i \in DOMAIN line : crt.buf[crt.pos - Len(line) + i - 1] = line[i]
       /\ crt.buf[crt.pos - Len(line) - 1] = 62
=============================================================================
