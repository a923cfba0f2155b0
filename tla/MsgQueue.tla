------------------------------ MODULE MsgQueue ------------------------------
(***************************************************************************)
(* Blocking in the message queues of src/msg/msg.c: the pool and the wait  *)
(* lists of Objects, several tasks that receive from one queue, with and   *)
(* without timeouts, and senders that are tasks or the UART interrupt.     *)
(* The buffers are taken to be sound, as in Channel (MsgRing says when     *)
(* they are), and a message is its length.                                 *)
(*                                                                         *)
(* msg_rcv looks for a message, blocks when there is none, and looks again *)
(* when it runs again.  Between being made ready and looking again, other  *)
(* tasks run.  It may then find none, after a timeout or when another      *)
(* receiver was quicker, and returns through the lines that msg.c:225      *)
(* marks with "should not go here".                                        *)
(*                                                                         *)
(* The deletes of Objects are left out (Deletes is FALSE: msg_delete is    *)
(* sem_delete line for line), so the check of a queue before int_disable   *)
(* is one step with the rest of the call.                                  *)
(***************************************************************************)
EXTENDS Objects, Sequences, FiniteSets

CONSTANTS
    Lens,     \* lengths of messages
    BufLens,  \* lengths of the receivers' buffers
    Room      \* the messages a queue has room for

ASSUME MsgQueueAssumption ==
    /\ Lens \subseteq Nat
    /\ BufLens \subseteq Nat
    /\ Room \in Nat \ {0}

VARIABLE chan  \* per queue: the lengths of the unread messages

msgVars == <<taskVars, objVars, chan>>

MsgCall == {NoCall} \cup [op : {"rcv"}, obj : Obj, len : BufLens]

MsgTypeOK ==
    /\ ObjTypeOK
    /\ \A q \in Obj : chan[q] \in Seq(Lens) /\ Len(chan[q]) <= Room
    /\ call \in [Slot -> MsgCall]

MsgInit ==
    /\ ObjInit
    /\ chan = [q \in Obj |-> << >>]

msg_create == Create /\ UNCHANGED chan

\* There is a message, and it fits a buffer of length b.
Fits(q, b) == chan[q] # << >> /\ Head(chan[q]) <= b

\* The first look of msg_rcv.  A message that is too long stays where it is.
msg_rcv(q, d, b) ==
    /\ CanCall
    /\ valid[q]
    /\ masked' = FALSE
    /\ UNCHANGED valid
    /\ IF chan[q] # << >>
       THEN /\ chan' = IF Fits(q, b) THEN [chan EXCEPT ![q] = Tail(@)] ELSE chan
            /\ UNCHANGED <<taskVars, ptrVars, call>>
       ELSE /\ MayBlock
            /\ Block(q, d)
            /\ call' = [call EXCEPT ![task_cur] =
                            [op |-> "rcv", obj |-> q, len |-> b]]
            /\ UNCHANGED chan

\* The second look, when the task runs again, and the return.
msg_rcv_resume(t) ==
    /\ task_cur = t
    /\ Finish("rcv")
    /\ LET c == call[t]
       IN  chan' = IF Fits(c.obj, c.len) THEN [chan EXCEPT ![c.obj] = Tail(@)]
                                         ELSE chan
    /\ UNCHANGED <<taskVars, valid, ptrVars>>

\* Mutants: a waiter is made ready only when the queue was empty; a message
\* is appended whatever the room.
WakeFor_WhenEmpty(q) ==
    IF chan[q] # << >> THEN UNCHANGED <<taskVars, ptrVars>> ELSE WakeHead(q)
HasRoom_Always(q) == TRUE

WakeFor(q) == WakeHead(q)
HasRoom(q) == Len(chan[q]) < Room

\* From a task, or from the UART interrupt whatever the task it interrupts
\* is doing.  A full queue refuses the message.
msg_send(q, n) ==
    /\ masked => CanCall
    /\ valid[q]
    /\ HasRoom(q)
    /\ chan' = [chan EXCEPT ![q] = Append(@, n)]
    /\ WakeFor(q)
    /\ masked' = FALSE
    /\ UNCHANGED <<valid, call>>

Tick == task_tickdo /\ UNCHANGED chan

MsgNext ==
    \/ SchedCall /\ UNCHANGED chan
    \/ msg_create
    \/ \E q \in Obj :
          \/ \E d \in Delay, b \in BufLens : msg_rcv(q, d, b)
          \/ \E n \in Lens : msg_send(q, n)
    \/ \E t \in Slot : msg_rcv_resume(t)
    \/ Tick

\* The timer never stops, and a task that gets the processor again and again
\* gets on with its call.
MsgSpec ==
    /\ MsgInit /\ [][MsgNext]_msgVars
    /\ WF_msgVars(Tick)
    /\ \A t \in Slot : SF_msgVars(msg_rcv_resume(t))

-----------------------------------------------------------------------------
\* The tasks that are in msg_rcv, have been made ready and not yet looked.
Returning(q) ==
    {t \in Slot : call[t].op = "rcv" /\ call[t].obj = q /\ task_state[t] # "PEND"}

(* No message is left behind: while tasks wait on a queue, every message in *)
(* it has a receiver that is on its way to look for it.  (It needs buffers  *)
(* that hold every message: a receiver that returns MSG_GIVEBUF_TOOSMALL    *)
(* leaves the message, and wakes nobody else for it.)                       *)
NoMessageStranded ==
    \A q \in {o \in Obj : valid[o]} :
        next[q] # NULL => Len(chan[q]) <= Cardinality(Returning(q))

(* A receiver that was made ready returns, unless the scheduler is locked   *)
(* or msg_create leaves interrupts disabled before it runs.                 *)
WokenReturns ==
    \A t \in Slot :
        (call[t].op = "rcv" /\ task_state[t] = READY)
            ~> (call[t] = NoCall \/ masked \/ task_sched_sign = LOCK)
=============================================================================
