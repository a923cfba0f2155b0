------------------------------- MODULE Format -------------------------------
(***************************************************************************)
(* vsnprintf of src/std/print.c, with format_decode and number, on behalf  *)
(* of printk.  The text goes to an array of the caller; the digits of a    *)
(* number go to numbers first, one array for the whole system, and from    *)
(* there to the text in reverse.  Any task prints, and the clock interrupt *)
(* changes tasks in the middle of it.                                      *)
(*                                                                         *)
(* A format is a sequence of pieces, the parts that format_decode returns  *)
(* one by one, each with its argument.  %l sets a flag that is never       *)
(* cleared: it is copied as it stands, like all conversions that the code  *)
(* does not know (%% stays %%), and no later conversion does a thing.      *)
(* No format ends with a single %, which format_decode would return with   *)
(* the closing 0, to read on behind it.                                    *)
(***************************************************************************)
EXTENDS Integers, Sequences, SequencesExt

CONSTANTS
    Printer,   \* the tasks that print
    WORD,      \* 2^w for the width w of an int
    SIZE,      \* of the array; 256 in the code
    BEHIND,    \* how much of what lies behind the array is modelled
    Formats    \* per task: the formats it prints

VARIABLES
    numbers,  \* the shared array
    buf,      \* per task: its array, and what lies behind it
    call      \* per task: its call, with a history: no other has overlapped it

vars == <<numbers, buf, call>>

\* Characters: digits are the numbers 0 to 15.
Minus == 16
X == 17
Percent == 18
Letter == 19
NUL == 20
Stale == 21  \* what an array held before
Character == 0 .. 21

NUMBERS_LEN == 68

\* Pieces: text as it stands, a string, a character, numbers, and %l.
Text(s) == [conv |-> "text", arg |-> s]
Str(s) == [conv |-> "s", arg |-> s]
Chr(c) == [conv |-> "c", arg |-> <<c>>]
Wide == [conv |-> "l", arg |-> <<Percent, Letter>>]

\* What format_decode makes of %d, %u, %x and %o.
Base == [d |-> 10, u |-> 10, x |-> 16, o |-> 8]
Num(conv, n) == [conv |-> conv, arg |-> n]

IsNumber(p) == p.conv \in DOMAIN Base

Piece == [conv : {"text", "s", "c"}, arg : Seq(Character \ {NUL, Stale})]
         \cup [conv : DOMAIN Base, arg : 0 .. WORD - 1]
         \cup {Wide}

ASSUME FormatAssumption ==
    /\ WORD \in Nat \ {0} /\ WORD % 2 = 0
    /\ SIZE \in Nat \ {0} /\ BEHIND \in Nat
    /\ \A t \in Printer : \A f \in Formats[t] : f \in Seq(Piece)

Idle == [at |-> "idle"]

TypeOK ==
    /\ numbers \in [0 .. NUMBERS_LEN - 1 -> (0 .. X) \cup {NUL}]
    /\ buf \in [Printer -> [0 .. SIZE + BEHIND - 1 -> Character]]
    /\ \A t \in Printer :
          \/ call[t] = Idle
          \/ /\ call[t].at \in {"fmt", "digits", "marks", "copy", "done"}
             /\ call[t].fmt \in Formats[t]
             /\ call[t].read \in 0 .. Len(call[t].fmt)
             /\ call[t].pos \in Nat
             /\ call[t].wide \in BOOLEAN
             /\ call[t].num \in 0 .. WORD - 1
             /\ call[t].marks \in Seq(0 .. X)
             /\ call[t].i \in 0 .. NUMBERS_LEN
             /\ call[t].alone \in BOOLEAN

Init ==
    /\ numbers = [k \in 0 .. NUMBERS_LEN - 1 |-> NUL]
    /\ buf = [t \in Printer |-> [x \in 0 .. SIZE + BEHIND - 1 |-> Stale]]
    /\ call = [t \in Printer |-> Idle]

-----------------------------------------------------------------------------
(* A call, up to the next conversion of a number. *)

printk(t, f) ==
    /\ call[t].at = "idle"
    /\ call' = [u \in Printer |->
                   IF u = t
                   THEN [at |-> "fmt", fmt |-> f, read |-> 0, pos |-> 0,
                         wide |-> FALSE, num |-> 0, marks |-> << >>, i |-> 0,
                         alone |-> \A v \in Printer : call[v] = Idle]
                   ELSE IF call[u] = Idle THEN Idle
                   ELSE [call[u] EXCEPT !.alone = FALSE]]
    /\ UNCHANGED <<numbers, buf>>

\* What stays of array b when s is written from position p on.
Written(b, p, s) ==
    [x \in DOMAIN b |-> IF x \in p .. p + Len(s) - 1 THEN s[x - p + 1] ELSE b[x]]

\* Nothing but a number is written behind the array.
Room(c) == IF c.pos < SIZE THEN SIZE - c.pos ELSE 0
Fitting(c, s) == SubSeq(s, 1, IF Len(s) <= Room(c) THEN Len(s) ELSE Room(c))

\* A conversion behind %l, which does nothing.
Skipped(c, p) == c.wide /\ p.conv \notin {"text", "l"}

\* The position goes on over text and characters that are left out, not over
\* the rest of a string.
Put(t) ==
    LET c == call[t]
        p == c.fmt[c.read + 1]
        s == IF Skipped(c, p) THEN << >> ELSE p.arg
    IN  /\ c.at = "fmt"
        /\ c.read < Len(c.fmt)
        /\ IsNumber(p) => Skipped(c, p)
        /\ buf' = [buf EXCEPT ![t] = Written(@, c.pos, Fitting(c, s))]
        /\ call' = [call EXCEPT
                       ![t].read = @ + 1,
                       ![t].pos = @ + Len(IF p.conv = "s" THEN Fitting(c, s) ELSE s),
                       ![t].wide = @ \/ p.conv = "l"]
        /\ UNCHANGED numbers

\* Mutant: a text that just fills the array is ended behind it.
EndAt_Behind(pos) == IF pos <= SIZE THEN pos ELSE SIZE - 1
EndAt(pos) == IF pos < SIZE THEN pos ELSE SIZE - 1

End(t) ==
    /\ call[t].at = "fmt"
    /\ call[t].read = Len(call[t].fmt)
    /\ buf' = [buf EXCEPT ![t][EndAt(call[t].pos)] = NUL]
    /\ call' = [call EXCEPT ![t].at = "done"]
    /\ UNCHANGED numbers

Return(t) ==
    /\ call[t].at = "done"
    /\ call' = [call EXCEPT ![t] = Idle]
    /\ buf' = [buf EXCEPT ![t] = [x \in DOMAIN @ |-> Stale]]
    /\ UNCHANGED numbers

-----------------------------------------------------------------------------
(* Numbers. *)

Negative(p) == p.conv = "d" /\ 2 * p.arg >= WORD

\* Mutant: 0 is taken for a negative number as well.
Absolute_Zero(p) == IF Negative(p) \/ p.arg = 0 THEN WORD - p.arg ELSE p.arg
Absolute(p) == IF Negative(p) THEN WORD - p.arg ELSE p.arg

\* What is put behind the digits: the prefix or the sign, to be read in reverse.
Marks(p) ==
    IF p.conv = "x" THEN <<X, 0>>
    ELSE IF p.conv = "o" THEN <<0>>
    ELSE IF Negative(p) THEN <<Minus>> ELSE << >>

number(t) ==
    LET c == call[t]
        p == c.fmt[c.read + 1]
    IN  /\ c.at = "fmt"
        /\ c.read < Len(c.fmt)
        /\ IsNumber(p) /\ ~Skipped(c, p)
        /\ call' = [call EXCEPT ![t] = [c EXCEPT !.at = "digits", !.num = Absolute(p),
                                                 !.marks = Marks(p), !.i = 0]]
        /\ UNCHANGED <<numbers, buf>>

\* One round of the loop of do_div; there is at least one.
PutDigit(t) ==
    LET c == call[t]
        base == Base[c.fmt[c.read + 1].conv]
    IN  /\ c.at = "digits"
        /\ numbers' = [numbers EXCEPT ![c.i] = c.num % base]
        /\ call' = [call EXCEPT
                       ![t].num = c.num \div base,
                       ![t].i = c.i + 1,
                       ![t].at = IF c.num \div base = 0 THEN "marks" ELSE "digits"]
        /\ UNCHANGED buf

PutMarks(t) ==
    LET c == call[t]
    IN  /\ c.at = "marks"
        /\ numbers' = [k \in DOMAIN numbers |->
                          IF k \in c.i .. c.i + Len(c.marks) - 1
                          THEN c.marks[k - c.i + 1] ELSE numbers[k]]
        /\ call' = [call EXCEPT ![t].i = @ + Len(c.marks), ![t].marks = << >>,
                                ![t].at = "copy"]
        /\ UNCHANGED buf

\* The text is not kept within the array.
Copy(t) ==
    LET c == call[t]
    IN  /\ c.at = "copy"
        /\ IF c.i > 0
           THEN /\ buf' = [buf EXCEPT ![t][c.pos] = numbers[c.i - 1]]
                /\ call' = [call EXCEPT ![t].i = @ - 1, ![t].pos = @ + 1]
           ELSE /\ call' = [call EXCEPT ![t].at = "fmt", ![t].read = @ + 1]
                /\ UNCHANGED buf
        /\ UNCHANGED numbers

Next ==
    \E t \in Printer :
        \/ \E f \in Formats[t] : printk(t, f)
        \/ Put(t) \/ End(t) \/ Return(t)
        \/ number(t) \/ PutDigit(t) \/ PutMarks(t) \/ Copy(t)

Spec == Init /\ [][Next]_vars

-----------------------------------------------------------------------------
(* Safety *)

\* The powers of b.
Power(b) ==
    LET power[k \in 0 .. NUMBERS_LEN] == IF k = 0 THEN 1 ELSE b * power[k - 1]
    IN  power

\* The digits of n in base b, written down from the definition of a numeral.
Numeral(n, b) ==
    LET len == CHOOSE k \in 1 .. NUMBERS_LEN :
                   Power(b)[k] > n /\ (k = 1 \/ Power(b)[k - 1] <= n)
    IN  [k \in 1 .. len |-> (n \div Power(b)[len - k]) % b]

\* What piece number i of format f stands for.
Meaning(f, i) ==
    IF ~IsNumber(f[i]) THEN f[i].arg
    ELSE CASE f[i].conv = "u" -> Numeral(f[i].arg, 10)
           [] f[i].conv = "x" -> <<0, X>> \o Numeral(f[i].arg, 16)
           [] f[i].conv = "o" -> <<0>> \o Numeral(f[i].arg, 8)
           [] f[i].conv = "d" -> IF 2 * f[i].arg < WORD THEN Numeral(f[i].arg, 10)
                                 ELSE <<Minus>> \o Numeral(WORD - f[i].arg, 10)

\* The same, or nothing for a conversion behind %l (another %l is shown).
Meant(f, i) ==
    IF f[i].conv \notin {"text", "l"} /\ \E j \in 1 .. i - 1 : f[j] = Wide THEN << >>
    ELSE Meaning(f, i)

Whole(f) == FlattenSeq([i \in 1 .. Len(f) |-> Meant(f, i)])

\* What __put_char sends of an array: as many characters as vsnprintf returned,
\* but none from the first 0 on.
Shown(t) ==
    SelectInSeq([k \in 1 .. SIZE + BEHIND |-> buf[t][k - 1]], LAMBDA c : c = NUL) - 1

(* The text that is shown is the one that was meant, as far as the array    *)
(* holds it, with a 0 behind it inside the array: signs, prefixes, 0 and    *)
(* the smallest number included, and wherever in the array a number or a    *)
(* string reaches its end.  When calls overlap, they share numbers, and     *)
(* digits may be wrong; but the text is no longer than it should be.        *)
TextAsFormatted ==
    \A t \in Printer :
        LET text == Whole(call[t].fmt)
            len == IF Len(text) < SIZE THEN Len(text) ELSE SIZE - 1
        IN  call[t].at = "done" =>
               /\ Shown(t) = len
               /\ call[t].pos >= len
               /\ call[t].alone =>
                     \A k \in 1 .. len : buf[t][k - 1] = text[k]
=============================================================================
