------------------------------- MODULE MsgRing -------------------------------
(***************************************************************************)
(* The message buffers of src/msg/msg.c.  The buffers of all queues are    *)
(* one array, msg_src_buf, modelled word by word (a word is 4 bytes):      *)
(* msg_send writes a two-word header (a sign and a length) and the text at *)
(* phead, msg_rcv looks for the sign at ptail, copies the text and clears  *)
(* it.  A text that does not fit before the end of the buffer continues at *)
(* its start; a header does not, it moves to the start as a whole.         *)
(*                                                                         *)
(* msg_send runs from int_disable to int_enable in one step.  A msg_rcv    *)
(* that finds nothing blocks, is made ready by a msg_send, and goes on     *)
(* later.  On MIPS interrupts may be enabled by then (see SwitchMips), so  *)
(* messages are sent before it looks, before it has cleared the message,   *)
(* and before it moves ptail; ARM only has the behaviours without these.   *)
(* Each queue has one receiving task, which waits without a timeout and    *)
(* is the one that deletes the queue.                                      *)
(***************************************************************************)
EXTENDS Integers, Sequences, FiniteSets

CONSTANTS
    MSG_SRC_MAX,  \* number of queues (10 in the code)
    L,            \* words in a buffer (256 in the code)
    Lens,         \* message lengths in words, after rounding
    BufLens,      \* lengths of the receivers' buffers
    Tags,         \* tells the texts of messages apart
    Deletes       \* whether queues are deleted

ASSUME MsgRingAssumption ==
    /\ MSG_SRC_MAX \in Nat \ {0}
    /\ L \in Nat /\ L >= 5 /\ Lens \subseteq 1 .. L - 4
    /\ BufLens \subseteq 0 .. L
    /\ Tags \subseteq Nat
    /\ Deletes \in BOOLEAN

VARIABLES
    valid,  \* per queue: created and not deleted
    phead,  \* per queue: where the next message goes, 0 .. L
    ptail,  \* per queue: where the next message is looked for, 0 .. L
    mem,    \* msg_src_buf, and the two words behind it
    rcv,    \* per queue: what its receiver is doing
    chan,   \* history, per queue: the messages sent and not yet received
    lost,   \* history, per queue: memory and chan have parted
    split   \* history: a text has been received in two pieces, or a queue
            \* deleted before its messages were received

bufVars == <<valid, phead, ptail, mem>>
vars == <<bufVars, rcv, chan, lost, split>>

Queue == 0 .. MSG_SRC_MAX - 1
Base(q) == q * L
Address == 0 .. MSG_SRC_MAX * L + 1

\* MSG_BUF_VALID as a word.  Read as a length it is larger than any buffer.
SIGN == 1000000

\* The k-th word of a text; never 0, a sign or a length.
Word(tag, k) == L + 1 + tag * L + k

Message == [tag : Tags, len : Lens]

\* A receiver computes, waits in msg_rcv with a buffer of length b, has been
\* woken there, has found a message of length n, which fits, or has copied and
\* cleared it and only has to move ptail to offset p.
Idle == [st |-> "idle"]
Waiting(b) == [st |-> "pend", len |-> b]
Woken(b) == [st |-> "woken", len |-> b]
Copying(b, n) == [st |-> "copying", len |-> b, found |-> n]
Copied(p) == [st |-> "copied", end |-> p]

Receiver == {Idle} \cup {Waiting(b) : b \in BufLens} \cup {Woken(b) : b \in BufLens}
                   \cup {Copying(b, n) : b \in BufLens, n \in 0 .. L}
                   \cup {Copied(p) : p \in 0 .. L}

TypeOK ==
    /\ valid \in [Queue -> BOOLEAN]
    /\ phead \in [Queue -> 0 .. L]
    /\ ptail \in [Queue -> 0 .. L]
    /\ mem \in [Address -> Nat]
    /\ rcv \in [Queue -> Receiver]
    /\ chan \in [Queue -> Seq(Message)]
    /\ lost \in [Queue -> BOOLEAN]
    /\ split \in BOOLEAN

Init ==
    /\ valid = [q \in Queue |-> FALSE]
    /\ phead = [q \in Queue |-> 0]
    /\ ptail = [q \in Queue |-> 0]
    /\ mem = [a \in Address |-> 0]
    /\ rcv = [q \in Queue |-> Idle]
    /\ chan = [q \in Queue |-> << >>]
    /\ lost = [q \in Queue |-> FALSE]
    /\ split = FALSE

-----------------------------------------------------------------------------
(* Where things are in a buffer. *)

\* A header that does not fit at offset p is at the start.
HeaderAt(p) == IF p + 2 <= L THEN p ELSE 0

\* Where the k-th word of the text is whose header is at offset h, and where
\* the message ends.  The end may be L itself.
TextAt(h, k) == IF h + 2 + k > L THEN h + 1 + k - L ELSE h + 1 + k

\* Mutant: the end of a text in two pieces is not taken round.
EndOf_NoWrap(h, n) == h + 2 + n

EndOf(h, n) == IF h + 2 + n > L THEN h + 2 + n - L ELSE h + 2 + n

TextIn(q, h, n) == [k \in 1 .. n |-> mem[Base(q) + TextAt(h, k)]]
TextOf(m) == [k \in 1 .. m.len |-> Word(m.tag, k)]

\* Where the first message lies that has not been received.
Front(q) == IF rcv[q].st = "copied" THEN rcv[q].end ELSE ptail[q]

\* The offsets of message number i of chan[q], were it to lie behind the
\* i - 1 before it.
StartOf(q) ==
    LET at[i \in 1 .. Len(chan[q]) + 1] ==
            IF i = 1 THEN Front(q)
            ELSE EndOf(HeaderAt(at[i - 1]), chan[q][i - 1].len)
    IN  at

\* The addresses that hold unread messages.
InUse(q) ==
    UNION {LET h == HeaderAt(StartOf(q)[i])
           IN  {Base(q) + h, Base(q) + h + 1}
                 \cup {Base(q) + TextAt(h, k) : k \in 1 .. chan[q][i].len} :
           i \in 1 .. Len(chan[q])}

Clear(m, a, n) == [x \in Address |-> IF x \in a .. a + n - 1 THEN 0 ELSE m[x]]

-----------------------------------------------------------------------------
(* The operations.  msg_create takes the first free queue; the buffer keeps *)
(* what an earlier use left in it.                                          *)

msg_create ==
    \E q \in Queue :
        /\ ~valid[q]
        /\ \A p \in Queue : p < q => valid[p]
        /\ valid' = [valid EXCEPT ![q] = TRUE]
        /\ phead' = [phead EXCEPT ![q] = 0]
        /\ ptail' = [ptail EXCEPT ![q] = 0]
        /\ chan' = [chan EXCEPT ![q] = << >>]
        /\ lost' = [lost EXCEPT ![q] = FALSE]
        /\ UNCHANGED <<mem, rcv, split>>

msg_delete(q) ==
    /\ Deletes
    /\ valid[q]
    /\ rcv[q] = Idle
    /\ valid' = [valid EXCEPT ![q] = FALSE]
    /\ chan' = [chan EXCEPT ![q] = << >>]
    /\ split' = (split \/ chan[q] # << >>)
    /\ UNCHANGED <<phead, ptail, mem, rcv, lost>>

msg_buf_avail(q) ==
    IF phead[q] >= ptail[q] THEN L - (phead[q] - ptail[q]) ELSE ptail[q] - phead[q]

\* The memory with message m written at offset h.
Written(q, h, m) ==
    [x \in Address |->
        IF x = Base(q) + h THEN SIGN
        ELSE IF x = Base(q) + h + 1 THEN m.len
        ELSE IF \E k \in 1 .. m.len : x = Base(q) + TextAt(h, k)
        THEN Word(m.tag, CHOOSE k \in 1 .. m.len : x = Base(q) + TextAt(h, k))
        ELSE mem[x]]

\* Mutant: the receiver is not made ready.
Wake_Never(r) == r

Wake(r) == IF r.st = "pend" THEN Woken(r.len) ELSE r

\* A message that does not fit, header and text and two words to spare, is
\* refused (MSG_BUF_FULL).
msg_send(q, m) ==
    /\ valid[q]
    /\ msg_buf_avail(q) >= m.len + 4
    /\ LET h == HeaderAt(phead[q])
       IN  /\ mem' = Written(q, h, m)
           /\ phead' = [phead EXCEPT ![q] = EndOf(h, m.len)]
    /\ rcv' = [rcv EXCEPT ![q] = Wake(@)]
    /\ chan' = [chan EXCEPT ![q] = IF lost[q] THEN @ ELSE Append(@, m)]
    /\ UNCHANGED <<valid, ptail, lost, split>>

Found(q) == mem[Base(q) + HeaderAt(ptail[q])] = SIGN
FoundLen(q) == mem[Base(q) + HeaderAt(ptail[q]) + 1]

Torn(h, n) == h + 2 + n > L

\* The memory after the message at offset h has been received.  A text in one
\* piece is cleared with its header.  Of a text in two pieces the first is
\* cleared from behind the header, over the length of piece and header
\* together: the header stays, and two words of the next buffer go.
Cleared(q, h, n) ==
    IF Torn(h, n)
    THEN Clear(Clear(mem, Base(q) + h + 2, L - h), Base(q), h + 2 + n - L)
    ELSE Clear(mem, Base(q) + h, n + 2)

\* Copy the message at ptail out, which was found to be of length n, and clear
\* it.
Consume(q, n) ==
    LET h == HeaderAt(ptail[q])
        beyond == IF Torn(h, n) THEN {Base(q) + L, Base(q) + L + 1} ELSE {}
    IN  /\ mem' = Cleared(q, h, n)
        /\ lost' = [p \in Queue |->
                       \/ lost[p]
                       \/ p = q /\ (chan[q] = << >> \/ Head(chan[q]).len # n)
                       \/ p = q + 1 /\ beyond \cap InUse(p) # {}]
        /\ chan' = [p \in Queue |-> IF lost'[p] THEN << >>
                                  ELSE IF p = q THEN Tail(chan[q]) ELSE chan[p]]
        /\ split' = (split \/ Torn(h, n))
        /\ UNCHANGED <<valid, phead>>

\* Where a message of length n at ptail ends.
FoundEnd(q, n) == EndOf(HeaderAt(ptail[q]), n)

\* msg_rcv up to its first return, or to the switch to another task.  With a
\* buffer that is too small it returns without effect.
msg_rcv(q, b) ==
    /\ valid[q]
    /\ rcv[q] = Idle
    /\ IF Found(q)
       THEN /\ FoundLen(q) <= b
            /\ Consume(q, FoundLen(q))
            /\ ptail' = [ptail EXCEPT ![q] = FoundEnd(q, FoundLen(q))]
            /\ UNCHANGED rcv
       ELSE /\ rcv' = [rcv EXCEPT ![q] = Waiting(b)]
            /\ UNCHANGED <<bufVars, chan, lost, split>>

\* The rest of msg_rcv, once the task has been woken and runs again: it looks,
\* copies and clears, and moves ptail on from the message it has found.
Look(q) ==
    /\ rcv[q].st = "woken"
    /\ rcv' = [rcv EXCEPT ![q] = IF Found(q) /\ FoundLen(q) <= @.len
                                THEN Copying(@.len, FoundLen(q)) ELSE Idle]
    /\ UNCHANGED <<bufVars, chan, lost, split>>

\* Mutant: ptail is moved before the message is copied and cleared.
Copy_AfterMove(q) ==
    /\ rcv[q].st = "copying"
    /\ rcv' = [rcv EXCEPT ![q] = Copied(FoundEnd(q, @.found))]
    /\ ptail' = [ptail EXCEPT ![q] = FoundEnd(q, rcv[q].found)]
    /\ UNCHANGED <<valid, phead, mem, chan, lost, split>>

Copy(q) ==
    /\ rcv[q].st = "copying"
    /\ rcv' = [rcv EXCEPT ![q] = Copied(FoundEnd(q, @.found))]
    /\ Consume(q, rcv[q].found)
    /\ UNCHANGED ptail

Move(q) ==
    /\ rcv[q].st = "copied"
    /\ rcv' = [rcv EXCEPT ![q] = Idle]
    /\ ptail' = [ptail EXCEPT ![q] = rcv[q].end]
    /\ UNCHANGED <<valid, phead, mem, chan, lost, split>>

Next ==
    \/ msg_create
    \/ \E q \in Queue :
          \/ msg_delete(q)
          \/ \E m \in Message : msg_send(q, m)
          \/ \E b \in BufLens : msg_rcv(q, b)
          \/ Look(q) \/ Copy(q) \/ Move(q)

Spec == Init /\ [][Next]_vars

-----------------------------------------------------------------------------
(* Safety *)

\* The unread messages lie one behind the other up to phead, each with its
\* header and all of its text.
Whole(q) ==
    /\ \A i \in 1 .. Len(chan[q]) :
          LET h == HeaderAt(StartOf(q)[i])
          IN  /\ mem[Base(q) + h] = SIGN
              /\ mem[Base(q) + h + 1] = chan[q][i].len
              /\ TextIn(q, h, chan[q][i].len) = TextOf(chan[q][i])
    /\ StartOf(q)[Len(chan[q]) + 1] = phead[q]

\* Every word counts as free that is not in use, but for the one at the end
\* of the buffer that a header skips, and for a message just being received.
RoomCounted(q) ==
    rcv[q].st # "copied" =>
        L - Cardinality(InUse(q)) - msg_buf_avail(q) \in {0, 1}

(* As long as memory and history have not parted, the receiver gets what    *)
(* was sent, whole and in order, no send writes over what is not yet read,  *)
(* however a receiver that goes on is interrupted, and a buffer that has    *)
(* been emptied has all its room again.  Memory and history part only after *)
(* some message was received in two pieces, or a queue was deleted with     *)
(* messages in it.                                                          *)
Intact ==
    \A q \in Queue :
        /\ valid[q] /\ ~lost[q] => Whole(q) /\ RoomCounted(q)
        /\ lost[q] => split

(* A woken receiver finds a message: the return that the code marks with    *)
(* "should not go here" (msg.c:225) is not reached.  It is, once a text has *)
(* been received in two pieces.                                             *)
WokenFinds == \A q \in Queue : rcv[q].st = "woken" => Found(q)

-----------------------------------------------------------------------------
(* The memory from the first message to phead, read as a sequence of        *)
(* messages.                                                                *)

\* A reader stops at phead, or where it sees no sign.
Ends(q, p) == p = phead[q] \/ mem[Base(q) + HeaderAt(p)] # SIGN

\* The message that is read at offset p: its tag is in its first word.
ReadAt(q, p) == [tag |-> CHOOSE tag \in Tags :
                            mem[Base(q) + TextAt(HeaderAt(p), 1)] = Word(tag, 1),
                 len |-> mem[Base(q) + HeaderAt(p) + 1]]

\* What is read from Front(q) on.  A message takes at least three words.
ReadFrom(q) ==
    LET next[p \in 0 .. L] ==
            IF Ends(q, p) THEN p
            ELSE EndOf(HeaderAt(p), mem[Base(q) + HeaderAt(p) + 1])
        at[i \in 1 .. L \div 3] == IF i = 1 THEN Front(q) ELSE next[at[i - 1]]
        n == Cardinality({i \in 1 .. L \div 3 : ~Ends(q, at[i])})
    IN  [i \in 1 .. n |-> ReadAt(q, at[i])]

Unread == [q \in Queue |-> IF valid[q] /\ ~split THEN ReadFrom(q) ELSE << >>]

\* The steps of a woken receiver, in which the channel sees one.
Seen(r) == CASE r.st = "copying" -> Woken(r.len)
             [] r.st = "copied" -> Idle
             [] OTHER -> r

Receiving == [q \in Queue |-> Seen(rcv[q])]

C == INSTANCE Channel WITH chan <- Unread, rcv <- Receiving

(* The buffers implement the promise of Channel, with what is in memory as  *)
(* the messages of a queue: every message is received once, whole and in    *)
(* order, and a woken receiver finds one.  It lasts until a text has been   *)
(* received in two pieces, or a queue deleted before its messages were.     *)
ImplementsChannel == C!Init /\ [][split' \/ C!Next]_(C!vars)
=============================================================================
