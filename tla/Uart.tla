-------------------------------- MODULE Uart --------------------------------
(***************************************************************************)
(* The line buffer of src/uart/uart.c.  The UART interrupt puts each       *)
(* character into rcv_buf and echoes it; backspace takes the last one      *)
(* back, and enter hands the characters since the last enter over to the   *)
(* ltai task as one line.                                                  *)
(*                                                                         *)
(* The code moves both pointers round the end of the buffer when it takes  *)
(* characters out, but not when it puts them in: after UART_RCV_BUF_LEN    *)
(* characters since start-up it writes behind the buffer.  Reach says how  *)
(* far the model follows it.  A line is copied to cmd whatever its length: *)
(* overrun says that one was longer than cmd, and the copy has overwritten *)
(* what lies behind it on the stack of the interrupt, where the return     *)
(* addresses are.  The model does not follow the handler any further.      *)
(***************************************************************************)
EXTENDS Integers, Sequences, SequencesExt

CONSTANTS
    UART_RCV_BUF_LEN,  \* 1024 in the code
    CMD_LEN,           \* characters in cmd, 100 in the code
    Char,              \* the characters a user types
    Nul,               \* the character 0
    Reach              \* bound: phead stays below

ASSUME UartAssumption ==
    /\ UART_RCV_BUF_LEN \in Nat \ {0}
    /\ CMD_LEN \in Nat \ {0}
    /\ Nul \notin Char
    /\ Reach \in Nat

VARIABLES
    phead, ptail,  \* offsets in rcv_buf: behind the last character, and of
                   \* the first one of the line
    rcv_buf,
    line,          \* the last line handed over
    overrun,       \* a line has been copied behind the end of cmd
    typed,         \* history: the line as the user sees it
    seen           \* history: the last line the user entered

uartVars == <<phead, ptail, rcv_buf, line, overrun, typed, seen>>

\* The keys.
BACKSPACE == "backspace"
ENTER == "enter"
Key == Char \cup {BACKSPACE, ENTER}

Offset == 0 .. UART_RCV_BUF_LEN - 1

UartTypeOK ==
    /\ phead \in 0 .. Reach
    /\ ptail \in 0 .. Reach
    /\ rcv_buf \in [Offset -> Char \cup {Nul}]
    /\ line \in Seq(Char \cup {Nul})
    /\ overrun \in BOOLEAN
    /\ typed \in Seq(Char)
    /\ seen \in Seq(Char)

UartInit ==
    /\ phead = 0
    /\ ptail = 0
    /\ rcv_buf = [x \in Offset |-> Nul]
    /\ line = << >>
    /\ overrun = FALSE
    /\ typed = << >>
    /\ seen = << >>

\* A character written behind the buffer is lost to it.
Stored(x, c) == IF x \in Offset THEN [rcv_buf EXCEPT ![x] = c] ELSE rcv_buf

Put(c) ==
    /\ phead < Reach
    /\ rcv_buf' = Stored(phead, c)
    /\ phead' = phead + 1
    /\ typed' = Append(typed, c)
    /\ UNCHANGED <<ptail, line, overrun, seen>>

Erasable == phead # ptail

Backspace ==
    /\ Erasable
    /\ phead' = IF phead = 0 THEN UART_RCV_BUF_LEN - 1 ELSE phead - 1
    /\ rcv_buf' = Stored(phead', Nul)
    /\ typed' = IF typed = << >> THEN typed ELSE Front(typed)
    /\ UNCHANGED <<ptail, line, overrun, seen>>

\* The characters at offsets a to b - 1.
Copied(a, b) == [i \in 1 .. b - a |-> IF a + i - 1 \in Offset
                                      THEN rcv_buf[a + i - 1] ELSE Nul]

\* Mutant: the line starts where the last line did.
Line_FromStart == Copied(0, phead)

Line ==
    IF phead < ptail
    THEN Copied(ptail, UART_RCV_BUF_LEN) \o Copied(0, phead)
    ELSE Copied(ptail, phead)

\* Mutant: the next line starts behind the 0 that ends this one.
Restart_BehindNul == phead + 1
Restart == phead

\* An empty line is not handed over.
Enter ==
    /\ Len(Line) <= CMD_LEN
    /\ rcv_buf' = Stored(phead, Nul)
    /\ line' = IF Line = << >> THEN line ELSE Line
    /\ ptail' = Restart
    /\ seen' = IF typed = << >> THEN seen ELSE typed
    /\ typed' = << >>
    /\ UNCHANGED <<phead, overrun>>

\* A line that cmd does not hold: up to the memcpy.
Overrun ==
    /\ Len(Line) > CMD_LEN
    /\ rcv_buf' = Stored(phead, Nul)
    /\ overrun' = TRUE
    /\ seen' = typed
    /\ UNCHANGED <<phead, ptail, line, typed>>

\* A backspace at the start of a line does nothing.
int_uart0_char_handle(k) ==
    \/ k \in Char /\ Put(k)
    \/ k = BACKSPACE /\ Backspace
    \/ k = BACKSPACE /\ ~Erasable /\ UNCHANGED uartVars
    \/ k = ENTER /\ (Enter \/ Overrun)

-----------------------------------------------------------------------------
(* What ltai gets is the line as the user saw it when pressing enter, with  *)
(* what was taken back gone and nothing of earlier lines in it.  Two things *)
(* are assumed that no line of the code sees to: that no more characters    *)
(* are typed and kept than rcv_buf holds (Reach: Put never takes phead back *)
(* to the start of the buffer), and that no line is longer than cmd.        *)
LineAsSeen == overrun \/ line = seen
=============================================================================
