------------------------------- MODULE Channel -------------------------------
(***************************************************************************)
(* What a message queue promises, whatever its buffer looks like: messages *)
(* are received whole, once, and in the order in which they were sent, and *)
(* a receiver that was woken gets one (unless its own buffer is too small  *)
(* for it).  A queue may refuse a message; that is no step here.           *)
(***************************************************************************)
EXTENDS Sequences, Naturals

CONSTANTS Queue,    \* the queues
          Message,  \* records with a field len
          BufLens   \* lengths of the receivers' buffers

VARIABLES valid,  \* per queue: created and not deleted
          chan,   \* per queue: the messages sent and not yet received
          rcv     \* per queue: what its receiver is doing

vars == <<valid, chan, rcv>>

\* A receiver computes, waits in msg_rcv for a buffer of length b, or has
\* been woken there.
Idle == [st |-> "idle"]
Waiting(b) == [st |-> "pend", len |-> b]
Woken(b) == [st |-> "woken", len |-> b]

Init ==
    /\ valid = [q \in Queue |-> FALSE]
    /\ chan = [q \in Queue |-> << >>]
    /\ rcv = [q \in Queue |-> Idle]

Create(q) ==
    /\ ~valid[q]
    /\ valid' = [valid EXCEPT ![q] = TRUE]
    /\ UNCHANGED <<chan, rcv>>

Delete(q) ==
    /\ valid[q]
    /\ rcv[q] = Idle
    /\ valid' = [valid EXCEPT ![q] = FALSE]
    /\ chan' = [chan EXCEPT ![q] = << >>]
    /\ UNCHANGED rcv

Send(q, m) ==
    /\ valid[q]
    /\ chan' = [chan EXCEPT ![q] = Append(@, m)]
    /\ rcv' = [rcv EXCEPT ![q] = IF @.st = "pend" THEN Woken(@.len) ELSE @]
    /\ UNCHANGED valid

\* The first message, if the buffer of length b holds it.
Take(q, b) ==
    /\ chan[q] # << >>
    /\ Head(chan[q]).len <= b
    /\ chan' = [chan EXCEPT ![q] = Tail(@)]

Receive(q, b) ==
    /\ valid[q]
    /\ rcv[q] = Idle
    /\ Take(q, b)
    /\ UNCHANGED <<valid, rcv>>

Block(q, b) ==
    /\ valid[q]
    /\ rcv[q] = Idle
    /\ chan[q] = << >>
    /\ rcv' = [rcv EXCEPT ![q] = Waiting(b)]
    /\ UNCHANGED <<valid, chan>>

Resume(q) ==
    /\ rcv[q].st = "woken"
    /\ rcv' = [rcv EXCEPT ![q] = Idle]
    /\ \/ Take(q, rcv[q].len)
       \/ /\ chan[q] # << >>
          /\ Head(chan[q]).len > rcv[q].len
          /\ UNCHANGED chan
    /\ UNCHANGED valid

Next ==
    \E q \in Queue :
        \/ Create(q)
        \/ Delete(q)
        \/ \E m \in Message : Send(q, m)
        \/ \E b \in BufLens : Receive(q, b) \/ Block(q, b)
        \/ Resume(q)

Spec == Init /\ [][Next]_vars
=============================================================================
