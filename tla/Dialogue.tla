------------------------------ MODULE Dialogue ------------------------------
(***************************************************************************)
(* The console as a whole: the UART interrupt, the task ltai of            *)
(* src/ltai/ltai.c, the print task of src/std/print.c, the two queues      *)
(* between them, and the scheduler and wait lists of Kernel below them.    *)
(* The boot code creates print_task in slot 1 and ltai in slot 2; each     *)
(* creates its queue when it first runs.  The queues hold messages instead *)
(* of words, in the order they were sent, as in Channel; they do so until  *)
(* msg_rcv receives a text in two pieces, which MsgRing shows to leave the *)
(* header of that text behind.  This module ends there, and where msg_send *)
(* is called without a queue and faults: what comes after is not modelled. *)
(***************************************************************************)
EXTENDS Kernel, Sequences

CONSTANTS
    Line,      \* the lines a user types
    LongLine,  \* the lines of 100 characters, which cmd in uart.c just holds
    LineRoom,  \* lines that fit the queue of ltai, and texts that fit the one
    TextRoom,  \* of print_task: 1024 bytes each, whatever msg_create is given
    MaxLines,  \* bound: lines typed, empty ones included
    MaxAgain,  \* bound: how often ltai answers the line before once more
    MaxShown   \* bound: texts on the screen

Lines == "lines"    \* g_uart0_in_msgid
Prints == "prints"  \* g_print_msg_id

print_task == 1
ltai == 2

ASSUME DialogueAssumption ==
    /\ Obj = {Lines, Prints}
    /\ TASK_INIT_NUM = 3
    /\ {0, 1} \subseteq Delay
    /\ LongLine \subseteq Line
    /\ {LineRoom, TextRoom, MaxLines, MaxAgain, MaxShown} \subseteq Nat \ {0}

VARIABLES
    made, chan,  \* the queues that have been created; their unread messages
    pc,          \* where the two tasks are
    msg_buf,     \* the text the print task has received
    rcv_buf,     \* the line ltai has received
    todo,        \* what ltai has yet to print
    looked,      \* ltai is in ltprintf, past its test of g_print_msg_id
    ltai_cur_state,
    heard,       \* history: the lines that reached the queue of ltai
    shown,       \* history: the texts on the screen
    lost,        \* history: some reply was refused by msg_send
    ended,       \* "torn": a text was received in two pieces; "fault": the
                 \* load from address 0 did not return; "no" before either
    typed, again \* for the bounds: how many lines were typed, and how often
                 \* rcv_buf had no room for one

printVars == <<msg_buf, shown>>
ltaiVars == <<rcv_buf, todo, looked, ltai_cur_state>>
userVars == <<heard, typed>>
allVars == <<vars, made, chan, pc, printVars, ltaiVars, userVars, lost, ended,
             again>>

-----------------------------------------------------------------------------
(* What ltai says.  A reply is named by the state it is given in.           *)

Banner == [text |-> "enter ltai"]
Prompt == [text |-> "lotus->"]

ltai_state ==
    [GREETING |-> [in_msg |-> "hello", suc_next_state |-> "IDENTIFY"],
     IDENTIFY |-> [in_msg |-> "lotus", suc_next_state |-> "TALK"],
     TALK     |-> [in_msg |-> "fine",  suc_next_state |-> "GREETING"]]

State == DOMAIN ltai_state

Reply(s, l) == [text |-> s, suc |-> l = ltai_state[s].in_msg]

\* Every fail_next_state is LTAI_GREETING_STATE.
NextState(s, l) ==
    IF l = ltai_state[s].in_msg THEN ltai_state[s].suc_next_state ELSE "GREETING"

Replies == [text : State, suc : BOOLEAN]
Text == {Banner, Prompt} \cup Replies

\* What ltprintf itself shows when there is no queue.
NotStarted == [text |-> "mod is not started"]

-----------------------------------------------------------------------------

(* Nothing is in a queue before its task has created it, nor more than it   *)
(* holds.  Neither task, made ready in msg_rcv, finds its queue empty: it   *)
(* is the one receiver of its queue and sets no timeout, so as long as no   *)
(* text has been received in two pieces it does not get to msg.c:225.       *)
DialogueTypeOK ==
    /\ made \subseteq Obj
    /\ chan[Lines] \in Seq(Line) /\ Len(chan[Lines]) <= LineRoom
    /\ chan[Prints] \in Seq(Text) /\ Len(chan[Prints]) <= TextRoom
    /\ \A q \in Obj \ made : chan[q] = << >>
    /\ pc[print_task] \in {"start", "receive", "waiting", "delay", "show"}
    /\ pc[ltai] \in {"start", "banner", "receive", "waiting", "answer"}
    /\ todo \in Seq(Text)
    /\ looked \in BOOLEAN /\ (looked => todo # << >>)
    /\ ltai_cur_state \in State
    /\ ended \in {"no", "torn", "fault"}
    /\ task_cur = print_task /\ pc[print_task] = "waiting" => chan[Prints] # << >>
    /\ task_cur = ltai /\ pc[ltai] = "waiting" => chan[Lines] # << >>

DialogueInit ==
    /\ Init
    /\ made = {}
    /\ chan = [q \in Obj |-> << >>]
    /\ pc = [t \in {print_task, ltai} |-> "start"]
    /\ msg_buf = << >>
    /\ rcv_buf = ""
    /\ todo = << >>
    /\ looked = FALSE
    /\ ltai_cur_state = "GREETING"
    /\ heard = << >>
    /\ shown = << >>
    /\ lost = FALSE
    /\ ended = "no"
    /\ typed = 0
    /\ again = 0

At(t, l) == ended = "no" /\ task_cur = t /\ pc[t] = l
Goto(t, l) == pc' = [pc EXCEPT ![t] = l]

-----------------------------------------------------------------------------
(* The queues. *)

Room(q) == IF q = Lines THEN LineRoom ELSE TextRoom

\* Mutant: the callers do not look whether the queue has been created.
Accepts_Early(q) == Len(chan[q]) < Room(q)
Accepts(q) == q \in made /\ Len(chan[q]) < Room(q)

\* Mutant: msg_send without the wake-up.
WakeFor_Never(q) == UNCHANGED vars
WakeFor(q) == IF Waiters(q) = {} THEN UNCHANGED vars ELSE Signal(q)

msg_send(q, m) ==
    IF Accepts(q)
    THEN chan' = [chan EXCEPT ![q] = Append(@, m)] /\ WakeFor(q)
    ELSE UNCHANGED <<chan, vars>>

\* ltprintf looks whether there is a queue,
NotifyUnstarted ==
    shown' = IF Prints \in made THEN shown ELSE Append(shown, NotStarted)

\* and sends anyway.  What msg_send(NULL) loads from address 0 are the vectors
\* on ARM, so it refuses; on MIPS nothing is mapped there and the load does not
\* return.  A text that is refused is gone: its error code is kept in a UINT32,
\* for which "ret < 0" is never true.
SendText(x) ==
    /\ msg_send(Prints, x)
    /\ ended' \in {"no"} \cup (IF Prints \in made THEN {} ELSE {"fault"})
    /\ lost' = (lost \/ (x \in Replies /\ ~Accepts(Prints)))

\* The creation of its queue by a task, the first thing it does.
msg_create(t, q) ==
    /\ At(t, "start")
    /\ made' = made \cup {q}
    /\ UNCHANGED <<vars, chan, printVars, userVars, lost, ended, again>>

\* msg_rcv without a timeout blocks,
Block(t, q) ==
    /\ At(t, "receive")
    /\ chan[q] = << >>
    /\ Wait(q, 0)
    /\ Goto(t, "waiting")
    /\ UNCHANGED <<made, chan, printVars, ltaiVars, userVars, lost, ended, again>>

\* msg_send rounds a line of 100 characters up to more than rcv_buf holds.
Fits(q, m) == q = Lines => m \notin LongLine

\* A line that rcv_buf has no room for stays at the head of its queue.
Stuck == chan[Lines] # << >> /\ ~Fits(Lines, Head(chan[Lines]))

\* Mutant: the message is copied but stays in the queue.
Return_Keeps(t, q, buf, next) ==
    /\ At(t, "waiting") \/ (At(t, "receive") /\ chan[q] # << >>)
    /\ IF chan[q] # << >> /\ Fits(q, Head(chan[q]))
       THEN buf' = Head(chan[q]) /\ ended' \in {"no", "torn"} /\ UNCHANGED chan
       ELSE UNCHANGED <<buf, chan, ended>>
    /\ Goto(t, next)
    /\ UNCHANGED <<vars, made, userVars, lost>>

\* or returns: buf is the buffer it fills.  A message it takes may lie across
\* the end of the queue's buffer, and is then received in two pieces.  It leaves
\* buf alone when the message is too long for it (and the message where it is),
\* and when it finds none after it has blocked.
Return(t, q, buf, next) ==
    /\ At(t, "waiting") \/ (At(t, "receive") /\ chan[q] # << >>)
    /\ IF chan[q] # << >> /\ Fits(q, Head(chan[q]))
       THEN /\ buf' = Head(chan[q])
            /\ chan' = [chan EXCEPT ![q] = Tail(@)]
            /\ ended' \in {"no", "torn"}
       ELSE UNCHANGED <<buf, chan, ended>>
    /\ Goto(t, next)
    /\ UNCHANGED <<vars, made, userVars, lost>>

-----------------------------------------------------------------------------
(* task_print_entry *)

PrintStart ==
    /\ msg_create(print_task, Prints)
    /\ Goto(print_task, "receive")
    /\ UNCHANGED ltaiVars

PrintReceive ==
    /\ Return(print_task, Prints, msg_buf, "delay")
    /\ UNCHANGED <<shown, ltaiVars, again>>

PrintDelay ==
    /\ At(print_task, "delay")
    /\ Sleep(1)
    /\ Goto(print_task, "show")
    /\ UNCHANGED <<made, chan, printVars, ltaiVars, userVars, lost, ended, again>>

PrintShow ==
    /\ At(print_task, "show")
    /\ Len(shown) < MaxShown
    /\ shown' = Append(shown, msg_buf)
    /\ Goto(print_task, "receive")
    /\ UNCHANGED <<vars, made, chan, msg_buf, ltaiVars, userVars, lost, ended, again>>

-----------------------------------------------------------------------------
(* ltai_main and ltai_machine *)

LtaiStart ==
    /\ msg_create(ltai, Lines)
    /\ todo' = <<Banner, Banner, Banner, Prompt>>
    /\ Goto(ltai, "banner")
    /\ UNCHANGED <<rcv_buf, looked, ltai_cur_state>>

LtaiReceive ==
    /\ Stuck => again < MaxAgain
    /\ again' = IF Stuck THEN again + 1 ELSE again
    /\ Return(ltai, Lines, rcv_buf, "answer")
    /\ todo' = <<Reply(ltai_cur_state, rcv_buf'), Prompt>>
    /\ UNCHANGED <<looked, ltai_cur_state, printVars>>

\* ltprintf, which the clock may interrupt between its two looks at the queue.
LtaiLook ==
    /\ At(ltai, "banner") \/ At(ltai, "answer")
    /\ todo # << >> /\ ~looked
    /\ NotifyUnstarted
    /\ looked' = TRUE
    /\ UNCHANGED <<vars, made, chan, pc, msg_buf, rcv_buf, todo,
                   ltai_cur_state, userVars, lost, ended, again>>

LtaiSay ==
    /\ At(ltai, "banner") \/ At(ltai, "answer")
    /\ looked
    /\ SendText(Head(todo))
    /\ todo' = Tail(todo)
    /\ looked' = FALSE
    /\ UNCHANGED <<made, pc, printVars, rcv_buf, ltai_cur_state, userVars, again>>

LtaiSaid ==
    /\ At(ltai, "banner") \/ At(ltai, "answer")
    /\ todo = << >>
    /\ ltai_cur_state' = IF pc[ltai] = "answer"
                         THEN NextState(ltai_cur_state, rcv_buf)
                         ELSE ltai_cur_state
    /\ Goto(ltai, "receive")
    /\ UNCHANGED <<vars, made, chan, printVars, rcv_buf, todo, looked, userVars,
                   lost, ended, again>>

-----------------------------------------------------------------------------
(* The UART interrupt, whatever task it interrupts. *)

\* ltai_get_msg, which ignores what msg_send returns.
Enter(l) ==
    /\ ended = "no" /\ typed < MaxLines
    /\ typed' = typed + 1
    /\ msg_send(Lines, l)
    /\ heard' = IF Accepts(Lines) THEN Append(heard, l) ELSE heard
    /\ UNCHANGED <<made, pc, printVars, ltaiVars, lost, ended, again>>

\* ltprintf with the interrupts off: both its looks find the same.
EnterEmpty ==
    /\ ended = "no" /\ typed < MaxLines
    /\ typed' = typed + 1
    /\ NotifyUnstarted
    /\ SendText(Prompt)
    /\ UNCHANGED <<made, pc, msg_buf, ltaiVars, heard, again>>

Below(op) ==
    /\ ended = "no"
    /\ op
    /\ UNCHANGED <<made, chan, pc, printVars, ltaiVars, userVars, lost, ended, again>>

\* plat_boot: start_print_task, then ltai_start.
Boot == Below(task_cur = Idle /\ Create)

TaskStep(t) ==
    IF t = print_task
    THEN PrintStart \/ Block(print_task, Prints) \/ PrintReceive \/ PrintDelay \/ PrintShow
    ELSE LtaiStart \/ Block(ltai, Lines) \/ LtaiReceive \/ LtaiLook
         \/ LtaiSay \/ LtaiSaid

DialogueNext ==
    \/ Boot
    \/ TaskStep(print_task)
    \/ TaskStep(ltai)
    \/ \E l \in Line : Enter(l)
    \/ EnterEmpty
    \/ Below(Tick)

DialogueSpec == DialogueInit /\ [][DialogueNext]_allVars

\* The timer never stops, and whoever gets the processor again and again gets
\* on with its program.
DialogueFairSpec ==
    /\ DialogueSpec
    /\ WF_allVars(Below(Tick))
    /\ \A t \in {print_task, ltai} : SF_allVars(TaskStep(t))

-----------------------------------------------------------------------------
Held == IF pc[print_task] \in {"delay", "show"} THEN <<msg_buf>> ELSE << >>

\* The lines ltai has taken from its queue.
Taken == SubSeq(heard, 1, Len(heard) - Len(chan[Lines]))

\* A dialogue from the greeting on: the state it leads to, and the replies.
Answered(d, l) == [state   |-> NextState(d.state, l),
                   replies |-> Append(d.replies, Reply(d.state, l))]

Talk(lines) ==
    LET talk[n \in 0 .. Len(lines)] ==
            IF n = 0 THEN [state |-> "GREETING", replies |-> << >>]
            ELSE Answered(talk[n - 1], lines[n])
    IN  talk[Len(lines)]

\* The replies among some texts, in their order.
Chosen(in, x) == IF x \in Replies THEN Append(in, x) ELSE in

RepliesIn(texts) ==
    LET in[n \in 0 .. Len(texts)] ==
            IF n = 0 THEN << >> ELSE Chosen(in[n - 1], texts[n])
    IN  in[Len(texts)]

\* ltai has got no line it has no room for.
ShortLines == \A n \in 1 .. Len(heard) : heard[n] \notin LongLine

(* As long as no text has been received in two pieces, msg_send(NULL) has   *)
(* not faulted and every line heard has fewer than 100 characters: the user *)
(* reads the answers to the lines that were typed, in their order, one each *)
(* and no other, whatever the delays of the print task and lines that come  *)
(* in the meantime do.  (Once the print queue has refused a reply, it is    *)
(* missing.)  Replies refused or not, the state of the dialogue is where    *)
(* the lines taken have led, once ltai is through with the last of them.    *)
(* After a text in two pieces ltai can answer what nobody typed, and with a *)
(* line of 100 characters at the head it answers the line before again.     *)
RepliesFollow ==
    ended = "no" /\ ShortLines =>
        /\ ~lost => RepliesIn(shown \o Held \o chan[Prints] \o todo)
                        = Talk(Taken).replies
        /\ pc[ltai] # "answer" => ltai_cur_state = Talk(Taken).state

(* Unless the model ends or a line of 100 characters gets to the head of    *)
(* its queue: the lines that reached the queue of ltai are taken, all of    *)
(* them once the user pauses, and the texts that reached the print queue    *)
(* are shown, all of them once ltai has nothing to say for a while.         *)
QueuesDrain ==
    /\ chan[Lines] # << >> ~> chan[Lines] = << >> \/ Stuck \/ ended # "no"
    /\ Held \o chan[Prints] # << >> ~>
           Held \o chan[Prints] = << >> \/ Stuck \/ ended # "no"

=============================================================================
