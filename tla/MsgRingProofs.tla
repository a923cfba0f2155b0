--------------------------- MODULE MsgRingProofs ---------------------------
(***************************************************************************)
(* Proofs about MsgRing, for any number of queues, any size of a buffer    *)
(* and any lengths of messages: type correctness, that unread messages     *)
(* stay whole, that the buffers implement Channel, and that a woken        *)
(* receiver finds a message until a text is received in two pieces.        *)
(*                                                                         *)
(* The proofs take the ends off the ring.  Lay places the unread messages  *)
(* at positions u[1], u[2], ... that only grow, within one lap from ptail; *)
(* the offset of a position is what is left of it modulo L.  A step that   *)
(* sends adds a position at the end, one that receives drops the first,    *)
(* and whether a message wraps shows only in Mod.  RingInv says that the   *)
(* messages of every queue are laid out so, as long as memory and history  *)
(* have not parted; before the first tear it says besides that all other   *)
(* words are cleared (Clean), and what a waiting or woken receiver may     *)
(* count on (Quiet).                                                       *)
(***************************************************************************)
EXTENDS MsgRing, FiniteSetTheorems, SequenceTheorems, WellFoundedInduction, TLAPS

-----------------------------------------------------------------------------
(* Addresses. *)

LEMMA QueueFacts ==
    /\ MSG_SRC_MAX \in Nat /\ L \in Nat /\ L >= 5
    /\ \A q \in Queue : q \in Nat /\ q < MSG_SRC_MAX
    /\ \A m \in Message : m.len \in 1 .. L - 4 /\ m.tag \in Nat
                          /\ m.len \in Nat
    /\ \A b \in BufLens : b \in Nat /\ b <= L
    /\ SIGN \in Nat
<1>1. SIGN \in Nat
  BY SMT DEF SIGN
<1>2. MSG_SRC_MAX \in Nat /\ L \in Nat /\ L >= 5
  BY MsgRingAssumption
<1>3. ASSUME NEW q \in Queue
      PROVE  q \in Nat /\ q < MSG_SRC_MAX
  BY <1>2 DEF Queue
<1>4. ASSUME NEW m \in Message
      PROVE  m.len \in 1 .. L - 4 /\ m.tag \in Nat /\ m.len \in Nat
  <2>1. m.len \in Lens /\ m.tag \in Tags
    BY DEF Message
  <2>2. Lens \subseteq 1 .. L - 4 /\ Tags \subseteq Nat
    BY MsgRingAssumption
  <2>3. m.len \in 1 .. L - 4 /\ m.tag \in Nat
    BY <2>1, <2>2
  <2>4. QED
    BY <1>2, <2>3
<1>5. ASSUME NEW b \in BufLens
      PROVE  b \in Nat /\ b <= L
  BY <1>2, MsgRingAssumption
<1>6. QED
  BY <1>1, <1>2, <1>3, <1>4, <1>5

\* The buffers lie one behind the other.
LEMMA Apart ==
    ASSUME NEW p \in Queue, NEW q \in Queue, NEW x \in 0 .. L - 1, NEW y \in 0 .. L + 1,
           Base(p) + x = Base(q) + y
    PROVE  (p = q /\ x = y) \/ (p = q + 1 /\ y = x + L)
<1>1. p \in Nat /\ q \in Nat /\ L \in Nat /\ L >= 5 /\ x \in Nat /\ y \in Nat /\ x < L /\ y <= L + 1
  BY QueueFacts
<1>2. p * L + x = q * L + y
  BY DEF Base
<1>3. CASE p < q
  <2>1. PICK d \in Nat : q = p + 1 + d
    <3>1. q - p - 1 \in Nat /\ q = p + 1 + (q - p - 1)
      BY <1>1, <1>3
    <3>2. QED
      BY <3>1
  <2>2. q * L = p * L + L + d * L
    BY <1>1, <2>1
  <2>3. d * L >= 0 /\ d * L \in Nat /\ p * L \in Nat
    BY <1>1, <2>1
  <2>4. QED
    BY <1>1, <1>2, <2>2, <2>3
<1>4. CASE p = q
  BY <1>1, <1>2, <1>4
<1>5. CASE p = q + 1
  <2>1. p * L = q * L + L /\ q * L \in Nat
    BY <1>1, <1>5
  <2>2. QED
    BY <1>1, <1>2, <1>5, <2>1
<1>6. CASE p > q + 1
  <2>1. PICK d \in Nat : p = q + 2 + d
    <3>1. p - q - 2 \in Nat /\ p = q + 2 + (p - q - 2)
      BY <1>1, <1>6
    <3>2. QED
      BY <3>1
  <2>2. p * L = q * L + L + L + d * L
    BY <1>1, <2>1
  <2>3. d * L >= 0 /\ d * L \in Nat /\ q * L \in Nat
    BY <1>1, <2>1
  <2>4. QED
    BY <1>1, <1>2, <2>2, <2>3
<1>7. QED
  BY <1>1, <1>3, <1>4, <1>5, <1>6

LEMMA InAddress ==
    ASSUME NEW q \in Queue
    PROVE  /\ Base(q) \in Nat
           /\ \A x \in 0 .. L + 1 : Base(q) + x \in Address
<1>1. q \in Nat /\ L \in Nat /\ MSG_SRC_MAX \in Nat /\ q < MSG_SRC_MAX
  BY QueueFacts
<1>2. Base(q) = q * L /\ q * L \in Nat
  BY <1>1 DEF Base
<1>3. PICK d \in Nat : MSG_SRC_MAX = q + 1 + d
  <2>1. MSG_SRC_MAX - q - 1 \in Nat /\ MSG_SRC_MAX = q + 1 + (MSG_SRC_MAX - q - 1)
    BY <1>1
  <2>2. QED
    BY <2>1
<1>4. MSG_SRC_MAX * L = q * L + L + d * L /\ d * L \in Nat
  BY <1>1, <1>3
<1>5. QED
  BY <1>1, <1>2, <1>4 DEF Address

-----------------------------------------------------------------------------
(* Offsets.  Numbers from 0 to 2L - 1 name the words of a buffer twice, so  *)
(* that messages that wrap round the end lie one behind the other.          *)

Mod(x) == IF x < L THEN x ELSE x - L
Pos(u) == IF u <= L THEN u ELSE u - L

\* Where the header is of a message put at u.
Hd(u) == IF u = L - 1 THEN L ELSE u

LEMMA Unwrapped ==
    ASSUME NEW u \in Nat, u <= 2 * L - 3, NEW n \in Nat, Hd(u) + 2 + n <= 2 * L - 1
    PROVE  /\ HeaderAt(Pos(u)) = Mod(Hd(u))
           /\ HeaderAt(Pos(u)) + 1 = Mod(Hd(u) + 1)
           /\ \A k \in 1 .. n : TextAt(HeaderAt(Pos(u)), k) = Mod(Hd(u) + 1 + k)
           /\ EndOf(HeaderAt(Pos(u)), n) = Pos(Hd(u) + 2 + n)
           /\ Torn(HeaderAt(Pos(u)), n) <=> (Hd(u) < L /\ Hd(u) + 2 + n > L)
<1>1. L \in Nat /\ L >= 5
  BY QueueFacts
<1>2. HeaderAt(Pos(u)) = Mod(Hd(u))
  BY <1>1 DEF HeaderAt, Pos, Mod, Hd
<1>3. Mod(Hd(u)) + 1 = Mod(Hd(u) + 1)
  BY <1>1 DEF Mod, Hd
<1>4. ASSUME NEW k \in 1 .. n
      PROVE  TextAt(Mod(Hd(u)), k) = Mod(Hd(u) + 1 + k)
  BY <1>1 DEF Mod, Hd, TextAt
<1>5. EndOf(Mod(Hd(u)), n) = Pos(Hd(u) + 2 + n)
  BY <1>1 DEF Mod, Hd, EndOf, Pos
<1>6. Torn(Mod(Hd(u)), n) <=> (Hd(u) < L /\ Hd(u) + 2 + n > L)
  BY <1>1 DEF Mod, Hd, Torn
<1>7. QED
  BY <1>2, <1>3, <1>4, <1>5, <1>6

\* No word twice within one lap.
LEMMA ModApart ==
    ASSUME NEW x \in 0 .. 2 * L - 1, NEW y \in 0 .. 2 * L - 1, x # y, x < y + L, y < x + L
    PROVE  Mod(x) # Mod(y)
BY QueueFacts DEF Mod

LEMMA ModRange ==
    ASSUME NEW x \in 0 .. 2 * L - 1
    PROVE  Mod(x) \in 0 .. L - 1
BY QueueFacts DEF Mod

-----------------------------------------------------------------------------
(* Types. *)

LEMMA OffsetsTyped ==
    ASSUME NEW p \in 0 .. L, NEW n \in 0 .. L
    PROVE  /\ HeaderAt(p) \in 0 .. L - 2
           /\ EndOf(HeaderAt(p), n) \in 0 .. L
           /\ \A k \in 1 .. n : TextAt(HeaderAt(p), k) \in 0 .. L - 1
BY QueueFacts DEF HeaderAt, EndOf, TextAt

LEMMA TypeStart == Init => TypeOK
<1> SUFFICES ASSUME Init
             PROVE  TypeOK
  OBVIOUS
<1>1. 0 \in 0 .. L /\ 0 \in Nat /\ << >> \in Seq(Message)
  BY QueueFacts
<1>2. /\ valid \in [Queue -> BOOLEAN] /\ lost \in [Queue -> BOOLEAN] /\ split \in BOOLEAN
  BY DEF Init
<1>3. /\ phead \in [Queue -> 0 .. L] /\ ptail \in [Queue -> 0 .. L]
      /\ mem \in [Address -> Nat] /\ chan \in [Queue -> Seq(Message)]
  BY <1>1 DEF Init
<1>4. rcv \in [Queue -> Receiver]
  BY DEF Init, Receiver
<1>5. QED
  BY <1>2, <1>3, <1>4 DEF TypeOK

LEMMA WrittenTyped ==
    ASSUME mem \in [Address -> Nat], NEW q \in Queue, NEW h, NEW m \in Message
    PROVE  Written(q, h, m) \in [Address -> Nat]
<1>1. ASSUME NEW x \in Address, \E k \in 1 .. m.len : x = Base(q) + TextAt(h, k)
      PROVE  Word(m.tag, CHOOSE k \in 1 .. m.len : x = Base(q) + TextAt(h, k)) \in Nat
  <2>1. (CHOOSE k \in 1 .. m.len : x = Base(q) + TextAt(h, k)) \in 1 .. m.len
    BY <1>1
  <2>2. ASSUME NEW k \in 1 .. m.len
        PROVE  Word(m.tag, k) \in Nat
    BY QueueFacts DEF Word
  <2>3. QED
    BY <2>1, <2>2
<1>2. ASSUME NEW x \in Address
      PROVE  (IF x = Base(q) + h THEN SIGN
              ELSE IF x = Base(q) + h + 1 THEN m.len
              ELSE IF \E k \in 1 .. m.len : x = Base(q) + TextAt(h, k)
              THEN Word(m.tag, CHOOSE k \in 1 .. m.len : x = Base(q) + TextAt(h, k))
              ELSE mem[x]) \in Nat
  BY <1>1, QueueFacts
<1>3. QED
  BY <1>2 DEF Written

LEMMA ClearTyped ==
    ASSUME NEW m \in [Address -> Nat], NEW a, NEW n
    PROVE  Clear(m, a, n) \in [Address -> Nat]
BY DEF Clear

\* What a receiver can be doing.
LEMMA ReceiverIs ==
    ASSUME NEW r \in Receiver
    PROVE  /\ r.st \in {"idle", "pend", "woken", "copying", "copied"}
           /\ r.st = "idle" => r = Idle
           /\ r.st \in {"pend", "woken", "copying"} => r.len \in BufLens
           /\ r.st = "pend" => r = Waiting(r.len)
           /\ r.st = "woken" => r = Woken(r.len)
           /\ r.st = "copying" => r.found \in 0 .. L /\ r = Copying(r.len, r.found)
           /\ r.st = "copied" => r.end \in 0 .. L /\ r = Copied(r.end)
<1>1. CASE r = Idle
  BY <1>1 DEF Idle
<1>2. ASSUME NEW b \in BufLens, r = Waiting(b)
      PROVE  r.st = "pend" /\ r.len \in BufLens /\ r = Waiting(r.len)
  BY <1>2 DEF Waiting
<1>3. ASSUME NEW b \in BufLens, r = Woken(b)
      PROVE  r.st = "woken" /\ r.len \in BufLens /\ r = Woken(r.len)
  BY <1>3 DEF Woken
<1>4. ASSUME NEW b \in BufLens, NEW n \in 0 .. L, r = Copying(b, n)
      PROVE  r.st = "copying" /\ r.len \in BufLens /\ r.found \in 0 .. L
             /\ r = Copying(r.len, r.found)
  BY <1>4 DEF Copying
<1>5. ASSUME NEW p \in 0 .. L, r = Copied(p)
      PROVE  r.st = "copied" /\ r.end \in 0 .. L /\ r = Copied(r.end)
  BY <1>5 DEF Copied
<1>6. \/ r = Idle
      \/ \E b \in BufLens : r = Waiting(b)
      \/ \E b \in BufLens : r = Woken(b)
      \/ \E b \in BufLens, n \in 0 .. L : r = Copying(b, n)
      \/ \E p \in 0 .. L : r = Copied(p)
  BY DEF Receiver
<1>7. QED
  BY <1>1, <1>2, <1>3, <1>4, <1>5, <1>6

LEMMA Receivers ==
    /\ Idle \in Receiver
    /\ \A b \in BufLens : Waiting(b) \in Receiver /\ Woken(b) \in Receiver
    /\ \A b \in BufLens, n \in 0 .. L : Copying(b, n) \in Receiver
    /\ \A p \in 0 .. L : Copied(p) \in Receiver
    /\ \A b : Waiting(b).st = "pend" /\ Woken(b).st = "woken" /\ Woken(b).len = b
    /\ \A b, n : Copying(b, n).st = "copying" /\ Copying(b, n).found = n
                 /\ Copying(b, n).len = b
    /\ \A p : Copied(p).st = "copied" /\ Copied(p).end = p
    /\ Idle.st = "idle"
<1>1. Idle \in Receiver
  BY DEF Receiver
<1>2. \A b \in BufLens : Waiting(b) \in Receiver /\ Woken(b) \in Receiver
  BY DEF Receiver
<1>3. \A b \in BufLens, n \in 0 .. L : Copying(b, n) \in Receiver
  BY DEF Receiver
<1>4. \A p \in 0 .. L : Copied(p) \in Receiver
  BY DEF Receiver
<1>5. /\ \A b : Waiting(b).st = "pend" /\ Woken(b).st = "woken" /\ Woken(b).len = b
      /\ \A b, n : Copying(b, n).st = "copying" /\ Copying(b, n).found = n
                   /\ Copying(b, n).len = b
                 /\ Copying(b, n).len = b
      /\ \A p : Copied(p).st = "copied" /\ Copied(p).end = p
      /\ Idle.st = "idle"
  BY DEF Waiting, Woken, Copying, Copied, Idle
<1>6. QED
  BY <1>1, <1>2, <1>3, <1>4, <1>5

LEMMA ConsumeTyped ==
    ASSUME TypeOK, NEW q \in Queue, NEW n \in 0 .. L, Consume(q, n)
    PROVE  /\ mem' \in [Address -> Nat] /\ lost' \in [Queue -> BOOLEAN]
           /\ chan' \in [Queue -> Seq(Message)] /\ split' \in BOOLEAN
           /\ UNCHANGED <<valid, phead>>
           /\ FoundEnd(q, n) \in 0 .. L
<1> DEFINE h == HeaderAt(ptail[q])
<1>1. mem' = Cleared(q, h, n)
  BY DEF Consume
<1>2. mem' \in [Address -> Nat]
  BY <1>1, ClearTyped DEF Cleared, TypeOK
<1>3. lost' \in [Queue -> BOOLEAN]
  BY DEF Consume
<1>4. split' \in BOOLEAN
  BY DEF Consume, TypeOK
<1>5. \A p \in Queue : chan[p] \in Seq(Message)
  BY DEF TypeOK
<1>6. ASSUME ~ lost'[q]
      PROVE  Tail(chan[q]) \in Seq(Message)
  <2>1. chan[q] # << >>
    BY <1>6 DEF Consume
  <2>2. QED
    BY <1>5, <2>1
<1>7. chan' = [p \in Queue |-> IF lost'[p] THEN << >>
                                ELSE IF p = q THEN Tail(chan[q]) ELSE chan[p]]
  BY DEF Consume
<1>8. chan' \in [Queue -> Seq(Message)]
  <2>1. << >> \in Seq(Message)
    OBVIOUS
  <2>2. ASSUME NEW p \in Queue
        PROVE  (IF lost'[p] THEN << >> ELSE IF p = q THEN Tail(chan[q]) ELSE chan[p])
                  \in Seq(Message)
    BY <1>5, <1>6, <2>1
  <2>3. QED
    BY <1>7, <2>2
<1>9. ptail[q] \in 0 .. L
  BY DEF TypeOK
<1>10. QED
  BY <1>2, <1>3, <1>4, <1>8, <1>9, OffsetsTyped DEF Consume, FoundEnd

LEMMA FoundTyped ==
    ASSUME TypeOK, NEW q \in Queue
    PROVE  FoundLen(q) \in Nat
<1> DEFINE h == HeaderAt(ptail[q])
<1>1. ptail[q] \in 0 .. L /\ mem \in [Address -> Nat] /\ L \in Nat
  BY QueueFacts DEF TypeOK
<1>2. h \in 0 .. L - 2
  BY <1>1, OffsetsTyped
<1> HIDE DEF h
<1>3. h + 1 \in 0 .. L + 1 /\ h \in Nat
  BY <1>1, <1>2
<1>4. Base(q) + (h + 1) \in Address /\ Base(q) \in Nat
  BY <1>3, InAddress
<1>5. Base(q) + h + 1 = Base(q) + (h + 1)
  BY <1>3, <1>4
<1>6. mem[Base(q) + h + 1] \in Nat
  BY <1>1, <1>4, <1>5
<1>7. QED
  BY <1>6 DEF FoundLen, h

LEMMA WakeTyped ==
    ASSUME NEW r \in Receiver
    PROVE  Wake(r) \in Receiver
BY ReceiverIs, Receivers DEF Wake

LEMMA TypeNext == TypeOK /\ [Next]_vars => TypeOK'
<1> SUFFICES ASSUME TypeOK, [Next]_vars
             PROVE  TypeOK'
  OBVIOUS
<1>0. 0 \in 0 .. L /\ << >> \in Seq(Message) /\ \A x \in 0 .. L : x \in Nat
  BY QueueFacts
<1>1. CASE msg_create
  <2>1. PICK q \in Queue :
           /\ valid' = [valid EXCEPT ![q] = TRUE]
           /\ phead' = [phead EXCEPT ![q] = 0]
           /\ ptail' = [ptail EXCEPT ![q] = 0]
           /\ chan' = [chan EXCEPT ![q] = << >>]
           /\ lost' = [lost EXCEPT ![q] = FALSE]
           /\ UNCHANGED <<mem, rcv, split>>
    BY <1>1 DEF msg_create
  <2>2. valid' \in [Queue -> BOOLEAN] /\ lost' \in [Queue -> BOOLEAN]
    BY <2>1 DEF TypeOK
  <2>3. phead' \in [Queue -> 0 .. L] /\ ptail' \in [Queue -> 0 .. L]
        /\ chan' \in [Queue -> Seq(Message)]
    BY <1>0, <2>1 DEF TypeOK
  <2>4. QED
    BY <2>1, <2>2, <2>3 DEF TypeOK
<1>2. ASSUME NEW q \in Queue, msg_delete(q)
      PROVE  TypeOK'
  <2>1. valid' \in [Queue -> BOOLEAN] /\ chan' \in [Queue -> Seq(Message)]
    BY <1>0, <1>2 DEF msg_delete, TypeOK
  <2>2. split' \in BOOLEAN
    BY <1>2 DEF msg_delete, TypeOK
  <2>3. QED
    BY <1>2, <2>1, <2>2 DEF msg_delete, TypeOK
<1>3. ASSUME NEW q \in Queue, NEW m \in Message, msg_send(q, m)
      PROVE  TypeOK'
  <2>1. phead[q] \in 0 .. L /\ m.len \in 0 .. L /\ rcv[q] \in Receiver
        /\ chan[q] \in Seq(Message)
    BY QueueFacts DEF TypeOK
  <2>2. mem' \in [Address -> Nat]
    BY <1>3, WrittenTyped DEF msg_send, TypeOK
  <2>3. EndOf(HeaderAt(phead[q]), m.len) \in 0 .. L
    BY <2>1, OffsetsTyped
  <2>4. phead' \in [Queue -> 0 .. L]
    BY <1>3, <2>3 DEF msg_send, TypeOK
  <2>5. rcv' \in [Queue -> Receiver]
    BY <1>3, <2>1, WakeTyped DEF msg_send, TypeOK
  <2>6. (IF lost[q] THEN chan[q] ELSE Append(chan[q], m)) \in Seq(Message)
    BY <2>1
  <2>7. chan' \in [Queue -> Seq(Message)]
    BY <1>3, <2>6 DEF msg_send, TypeOK
  <2>8. QED
    BY <1>3, <2>2, <2>4, <2>5, <2>7 DEF msg_send, TypeOK
<1>4. ASSUME NEW q \in Queue, NEW b \in BufLens, msg_rcv(q, b)
      PROVE  TypeOK'
  <2>1. CASE Found(q)
    <3>1. FoundLen(q) \in Nat
      BY FoundTyped
    <3>2. FoundLen(q) \in 0 .. L
      BY <1>4, <2>1, <3>1, QueueFacts DEF msg_rcv
    <3>3. /\ Consume(q, FoundLen(q))
          /\ ptail' = [ptail EXCEPT ![q] = FoundEnd(q, FoundLen(q))]
          /\ UNCHANGED rcv
      BY <1>4, <2>1 DEF msg_rcv
    <3>4. ptail' \in [Queue -> 0 .. L]
      BY <3>2, <3>3, ConsumeTyped DEF TypeOK
    <3>5. QED
      BY <3>2, <3>3, <3>4, ConsumeTyped DEF TypeOK
  <2>2. CASE ~Found(q)
    <3>1. rcv' = [rcv EXCEPT ![q] = Waiting(b)]
          /\ UNCHANGED <<bufVars, chan, lost, split>>
      BY <1>4, <2>2 DEF msg_rcv
    <3>2. rcv' \in [Queue -> Receiver]
      BY <3>1, Receivers DEF TypeOK
    <3>3. QED
      BY <3>1, <3>2 DEF TypeOK, bufVars
  <2>3. QED
    BY <2>1, <2>2
<1>5. ASSUME NEW q \in Queue, Look(q)
      PROVE  TypeOK'
  <2>1. rcv[q] \in Receiver /\ rcv[q].st = "woken"
    BY <1>5 DEF Look, TypeOK
  <2>2. rcv[q].len \in BufLens
    BY <2>1, ReceiverIs
  <2>3. FoundLen(q) \in Nat
    BY FoundTyped
  <2>4. (IF Found(q) /\ FoundLen(q) <= rcv[q].len
         THEN Copying(rcv[q].len, FoundLen(q)) ELSE Idle) \in Receiver
    BY <2>2, <2>3, Receivers, QueueFacts
  <2>5. rcv' \in [Queue -> Receiver]
    BY <1>5, <2>4 DEF Look, TypeOK
  <2>6. QED
    BY <1>5, <2>5 DEF Look, TypeOK, bufVars
<1>6. ASSUME NEW q \in Queue, Copy(q)
      PROVE  TypeOK'
  <2>1. rcv[q] \in Receiver /\ rcv[q].st = "copying"
    BY <1>6 DEF Copy, TypeOK
  <2>2. rcv[q].found \in 0 .. L
    BY <2>1, ReceiverIs
  <2>3. FoundEnd(q, rcv[q].found) \in 0 .. L
    BY <1>6, <2>2, ConsumeTyped DEF Copy
  <2>4. rcv' \in [Queue -> Receiver]
    BY <1>6, <2>3, Receivers DEF Copy, TypeOK
  <2>5. QED
    BY <1>6, <2>2, <2>4, ConsumeTyped DEF Copy, TypeOK
<1>7. ASSUME NEW q \in Queue, Move(q)
      PROVE  TypeOK'
  <2>1. rcv[q] \in Receiver /\ rcv[q].st = "copied"
    BY <1>7 DEF Move, TypeOK
  <2>2. rcv[q].end \in 0 .. L
    BY <2>1, ReceiverIs
  <2>3. rcv' \in [Queue -> Receiver] /\ ptail' \in [Queue -> 0 .. L]
    BY <1>7, <2>2, Receivers DEF Move, TypeOK
  <2>4. QED
    BY <1>7, <2>3 DEF Move, TypeOK
<1>8. CASE UNCHANGED vars
  BY <1>8 DEF TypeOK, vars, bufVars
<1>9. QED
  BY <1>1, <1>2, <1>3, <1>4, <1>5, <1>6, <1>7, <1>8 DEF Next

(* The offsets stay within their buffers, a word is a word, and a receiver  *)
(* is in one of the states of msg_rcv, however the memory was left.         *)
THEOREM RingTypeCorrect == Spec => []TypeOK
<1>1. Init => TypeOK
  BY TypeStart
<1>2. TypeOK /\ [Next]_vars => TypeOK'
  BY TypeNext
<1>3. QED
  BY <1>1, <1>2, PTL DEF Spec

-----------------------------------------------------------------------------
(* How the messages of a queue lie: B is where the buffer starts, M the     *)
(* memory, c the messages, t and h are ptail and phead, and message i       *)
(* starts at u[i], before a header that does not fit there is moved.        *)

Lay(B, M, c, t, h, u) ==
    /\ u \in [1 .. Len(c) + 1 -> Nat]
    /\ t <= u[1]
    /\ u[Len(c) + 1] <= t + L - 1
    /\ h = Pos(u[Len(c) + 1])
    /\ \A i \in 1 .. Len(c), j \in 1 .. Len(c) + 1 :
          i < j => u[i + 1] + (j - i) <= u[j] + 1
    /\ \A i \in 1 .. Len(c) :
          /\ u[i + 1] = Hd(u[i]) + 2 + c[i].len
          /\ M[B + Mod(Hd(u[i]))] = SIGN
          /\ M[B + Mod(Hd(u[i]) + 1)] = c[i].len
          /\ \A k \in 1 .. c[i].len :
                M[B + Mod(Hd(u[i]) + 1 + k)] = Word(c[i].tag, k)

\* The offsets that messages take, and that all others are cleared.
Words(c, u) ==
    UNION {{Mod(y) : y \in Hd(u[i]) .. u[i + 1] - 1} : i \in 1 .. Len(c)}

Clean(B, M, c, u) == \A x \in 0 .. L - 1 : M[B + x] # 0 => x \in Words(c, u)

LEMMA LayBounds ==
    ASSUME NEW c \in Seq(Message), NEW t \in 0 .. L, NEW B, NEW M, NEW h, NEW u,
           Lay(B, M, c, t, h, u)
    PROVE  /\ Len(c) \in Nat
           /\ \A j \in 1 .. Len(c) + 1 :
                 u[j] \in Nat /\ t <= u[j] /\ u[1] <= u[j]
                 /\ u[j] <= u[Len(c) + 1] /\ u[j] <= 2 * L - 1
           /\ \A i \in 1 .. Len(c) :
                 /\ c[i] \in Message /\ c[i].len \in 1 .. L - 4
                 /\ i + 1 \in 1 .. Len(c) + 1 /\ i \in 1 .. Len(c) + 1
                 /\ u[i] <= Hd(u[i]) /\ Hd(u[i]) \in Nat /\ Hd(u[i]) <= u[i] + 1
                 /\ u[i] + 3 <= u[i + 1] /\ u[i] <= 2 * L - 4
           /\ c # << >> => Head(c) = c[1] /\ 1 \in 1 .. Len(c)
           /\ c = << >> <=> Len(c) = 0
<1> DEFINE n == Len(c)
<1>1. n \in Nat /\ L \in Nat /\ L >= 5 /\ t \in Nat /\ t <= L
  BY LenProperties, QueueFacts
<1>2. \A i \in 1 .. n : c[i] \in Message /\ c[i].len \in 1 .. L - 4
  BY ElementOfSeq, QueueFacts
<1>3. \A j \in 1 .. n + 1 : u[j] \in Nat
  BY <1>1 DEF Lay
<1>4. \A i \in 1 .. n : i + 1 \in 1 .. n + 1 /\ i \in 1 .. n + 1
  BY <1>1
<1>5. \A i \in 1 .. n : u[i] <= Hd(u[i]) /\ Hd(u[i]) \in Nat /\ Hd(u[i]) <= u[i] + 1
  BY <1>1, <1>3, <1>4 DEF Hd
<1>6. ASSUME NEW i \in 1 .. n
      PROVE  u[i] + 3 <= u[i + 1]
  <2>1. u[i + 1] = Hd(u[i]) + 2 + c[i].len
    BY DEF Lay
  <2>2. u[i] \in Nat /\ Hd(u[i]) \in Nat /\ u[i] <= Hd(u[i]) /\ c[i].len \in 1 .. L - 4
    BY <1>2, <1>3, <1>4, <1>5
  <2>3. c[i].len \in Nat /\ c[i].len >= 1 /\ u[i + 1] \in Nat
    BY <1>1, <1>3, <1>4, <2>2
  <2>4. \A a, b, x, k \in Nat : b = x + 2 + k /\ a <= x /\ k >= 1 => a + 3 <= b
    OBVIOUS
  <2>5. QED
    BY <2>1, <2>2, <2>3, <2>4
<1>7. \A i \in 1 .. n, j \in 1 .. n + 1 : i < j => u[i] < u[j]
  <2>1. SUFFICES ASSUME NEW i \in 1 .. n, NEW j \in 1 .. n + 1, i < j
                 PROVE  u[i] < u[j]
    OBVIOUS
  <2>2. u[i + 1] + (j - i) <= u[j] + 1
    BY <2>1 DEF Lay
  <2>3. u[i] \in Nat /\ u[i + 1] \in Nat /\ u[j] \in Nat /\ u[i] + 3 <= u[i + 1]
    BY <1>3, <1>4, <1>6
  <2>4. i \in Nat /\ j \in Nat
    BY <1>1
  <2>5. \A a, b, d, x, y \in Nat : x < y /\ b + (y - x) <= d + 1 /\ a + 3 <= b => a < d
    OBVIOUS
  <2>6. QED
    BY <2>1, <2>2, <2>3, <2>4, <2>5
<1>8. ASSUME NEW j \in 1 .. n + 1
      PROVE  t <= u[j] /\ u[1] <= u[j] /\ u[j] <= u[n + 1] /\ u[j] <= 2 * L - 1
  <2>1. 1 \in 1 .. n + 1 /\ n + 1 \in 1 .. n + 1
    BY <1>1
  <2>2. u[1] <= u[j]
    BY <1>1, <1>3, <1>7, <2>1
  <2>3. u[j] <= u[n + 1]
    BY <1>1, <1>3, <1>7, <2>1
  <2>4. t <= u[1] /\ u[n + 1] <= t + L - 1
    BY DEF Lay
  <2>5. QED
    BY <1>1, <1>3, <2>1, <2>2, <2>3, <2>4
<1>9. \A i \in 1 .. n : u[i] <= 2 * L - 4
  BY <1>1, <1>3, <1>4, <1>6, <1>8
<1>10. c # << >> => Head(c) = c[1] /\ 1 \in 1 .. n
  BY <1>1, EmptySeq
<1>11. c = << >> <=> n = 0
  BY EmptySeq
<1>12. QED
  BY <1>1, <1>2, <1>3, <1>4, <1>5, <1>6, <1>8, <1>9, <1>10, <1>11

\* In the terms of the code.
LEMMA LayAt ==
    ASSUME NEW c \in Seq(Message), NEW t \in 0 .. L, NEW B, NEW M, NEW h, NEW u,
           Lay(B, M, c, t, h, u), NEW i \in 1 .. Len(c)
    PROVE  /\ HeaderAt(Pos(u[i])) = Mod(Hd(u[i]))
           /\ HeaderAt(Pos(u[i])) + 1 = Mod(Hd(u[i]) + 1)
           /\ \A k \in 1 .. c[i].len :
                 TextAt(HeaderAt(Pos(u[i])), k) = Mod(Hd(u[i]) + 1 + k)
           /\ EndOf(HeaderAt(Pos(u[i])), c[i].len) = Pos(u[i + 1])
           /\ Torn(HeaderAt(Pos(u[i])), c[i].len) <=> (Hd(u[i]) < L /\ u[i + 1] > L)
           /\ u[i + 1] = Hd(u[i]) + 2 + c[i].len
<1>1. /\ u[i] \in Nat /\ u[i] <= 2 * L - 4 /\ u[i + 1] <= 2 * L - 1
      /\ c[i].len \in 1 .. L - 4 /\ L \in Nat /\ L >= 5
  BY LayBounds, QueueFacts
<1>2. u[i + 1] = Hd(u[i]) + 2 + c[i].len
  BY DEF Lay
<1>3. u[i] <= 2 * L - 3 /\ c[i].len \in Nat /\ Hd(u[i]) + 2 + c[i].len <= 2 * L - 1
  BY <1>1, <1>2
<1>4. QED
  BY <1>1, <1>2, <1>3, Unwrapped

LEMMA WordsAre ==
    ASSUME NEW c, NEW u
    PROVE  \A x : x \in Words(c, u) <=>
              \E i \in 1 .. Len(c) : \E y \in Hd(u[i]) .. u[i + 1] - 1 : x = Mod(y)
BY DEF Words

LEMMA WordsRange ==
    ASSUME NEW c \in Seq(Message), NEW t \in 0 .. L, NEW B, NEW M, NEW h, NEW u,
           Lay(B, M, c, t, h, u)
    PROVE  /\ \A i \in 1 .. Len(c) : \A y \in Hd(u[i]) .. u[i + 1] - 1 :
                 /\ y \in 0 .. 2 * L - 1 /\ y \in u[1] .. u[Len(c) + 1] - 1
                 /\ Mod(y) \in Words(c, u)
           /\ Words(c, u) \subseteq 0 .. L - 1
<1>1. ASSUME NEW i \in 1 .. Len(c), NEW y \in Hd(u[i]) .. u[i + 1] - 1
      PROVE  /\ y \in 0 .. 2 * L - 1 /\ y \in u[1] .. u[Len(c) + 1] - 1
             /\ Mod(y) \in Words(c, u)
  <2>1. /\ Hd(u[i]) \in Nat /\ u[1] <= u[i] /\ u[i] <= Hd(u[i]) /\ L \in Nat
        /\ u[i + 1] \in Nat /\ u[i + 1] <= 2 * L - 1 /\ u[1] \in Nat /\ u[i] \in Nat
        /\ u[i + 1] <= u[Len(c) + 1] /\ u[Len(c) + 1] \in Nat
    <3>1. i + 1 \in 1 .. Len(c) + 1 /\ i \in 1 .. Len(c) + 1 /\ Len(c) \in Nat
      BY LayBounds
    <3>2. 1 \in 1 .. Len(c) + 1 /\ Len(c) + 1 \in 1 .. Len(c) + 1
      BY <3>1
    <3>3. \A j \in 1 .. Len(c) + 1 :
             u[j] \in Nat /\ u[1] <= u[j] /\ u[j] <= u[Len(c) + 1] /\ u[j] <= 2 * L - 1
      BY LayBounds
    <3>4. Hd(u[i]) \in Nat /\ u[i] <= Hd(u[i])
      BY LayBounds
    <3>5. L \in Nat
      BY QueueFacts
    <3>6. u[1] \in Nat /\ u[i] \in Nat /\ u[1] <= u[i] /\ u[Len(c) + 1] \in Nat
      BY <3>1, <3>2, <3>3
    <3>7. u[i + 1] \in Nat /\ u[i + 1] <= 2 * L - 1 /\ u[i + 1] <= u[Len(c) + 1]
      BY <3>1, <3>3
    <3>8. QED
      BY <3>4, <3>5, <3>6, <3>7
  <2>2. y \in 0 .. 2 * L - 1 /\ y \in u[1] .. u[Len(c) + 1] - 1
    <3>1. \A a, b, d, e, f, l \in Nat :
             a <= b /\ b <= d /\ e <= f /\ e <= 2 * l - 1 =>
                \A z \in d .. e - 1 : z \in 0 .. 2 * l - 1 /\ z \in a .. f - 1
      OBVIOUS
    <3>2. QED
      BY <2>1, <3>1
  <2>3. Mod(y) \in Words(c, u)
    BY DEF Words
  <2>4. QED
    BY <2>2, <2>3
<1>2. ASSUME NEW x \in Words(c, u)
      PROVE  x \in 0 .. L - 1
  <2>1. PICK i \in 1 .. Len(c) : \E y \in Hd(u[i]) .. u[i + 1] - 1 : x = Mod(y)
    BY DEF Words
  <2>2. QED
    BY <1>1, <2>1, ModRange
<1>3. QED
  BY <1>1, <1>2

\* Only the words of the messages matter.
LEMMA LaySame ==
    ASSUME NEW c \in Seq(Message), NEW t \in 0 .. L, NEW B, NEW M, NEW N, NEW h, NEW u,
           Lay(B, M, c, t, h, u), \A x \in Words(c, u) : N[B + x] = M[B + x]
    PROVE  Lay(B, N, c, t, h, u)
<1>1. ASSUME NEW i \in 1 .. Len(c)
      PROVE  /\ N[B + Mod(Hd(u[i]))] = SIGN
             /\ N[B + Mod(Hd(u[i]) + 1)] = c[i].len
             /\ \A k \in 1 .. c[i].len : N[B + Mod(Hd(u[i]) + 1 + k)] = Word(c[i].tag, k)
  <2>0. u[i + 1] = Hd(u[i]) + 2 + c[i].len
    BY DEF Lay
  <2>1. /\ Hd(u[i]) \in Nat /\ c[i].len \in 1 .. L - 4 /\ L \in Nat
        /\ u[i + 1] = Hd(u[i]) + 2 + c[i].len
    BY <2>0, LayBounds, QueueFacts
  <2>2. /\ Hd(u[i]) \in Hd(u[i]) .. u[i + 1] - 1
        /\ Hd(u[i]) + 1 \in Hd(u[i]) .. u[i + 1] - 1
        /\ \A k \in 1 .. c[i].len : Hd(u[i]) + 1 + k \in Hd(u[i]) .. u[i + 1] - 1
    <3>1. \A w, n \in Nat : n >= 1 =>
             /\ w \in w .. (w + 2 + n) - 1 /\ w + 1 \in w .. (w + 2 + n) - 1
             /\ \A k \in 1 .. n : w + 1 + k \in w .. (w + 2 + n) - 1
      OBVIOUS
    <3>2. c[i].len \in Nat /\ c[i].len >= 1
      BY <2>1
    <3>3. QED
      BY <2>1, <3>1, <3>2
  <2>3. /\ Mod(Hd(u[i])) \in Words(c, u) /\ Mod(Hd(u[i]) + 1) \in Words(c, u)
        /\ \A k \in 1 .. c[i].len : Mod(Hd(u[i]) + 1 + k) \in Words(c, u)
    BY <2>2, WordsRange
  <2>4. QED
    BY <2>3 DEF Lay
<1>2. QED
  BY <1>1 DEF Lay

\* Message m is in memory at offset v, or where its header goes from there.
Put(B, M, v, m) ==
    /\ M[B + Mod(Hd(v))] = SIGN
    /\ M[B + Mod(Hd(v) + 1)] = m.len
    /\ \A k \in 1 .. m.len : M[B + Mod(Hd(v) + 1 + k)] = Word(m.tag, k)

Fits(t, v, m) == v + m.len + 4 <= t + L

\* The messages lie as before, and message m behind them.
Longer(B, M, c, t, u, v, m) ==
    \E w : /\ Lay(B, M, Append(c, m), t, Pos(Hd(v) + 2 + m.len), w)
           /\ w[1] = u[1]
           /\ Words(Append(c, m), w) =
                 Words(c, u) \cup {Mod(y) : y \in Hd(v) .. Hd(v) + 1 + m.len}

LEMMA LayAppend ==
    ASSUME NEW c \in Seq(Message), NEW t \in 0 .. L, NEW B, NEW M, NEW h, NEW u,
           Lay(B, M, c, t, h, u), NEW m \in Message, NEW v, v = u[Len(c) + 1],
           Fits(t, v, m), Put(B, M, v, m)
    PROVE  Longer(B, M, c, t, u, v, m)
<1> SUFFICES
      ASSUME v + m.len + 4 <= t + L,
             M[B + Mod(Hd(v))] = SIGN, M[B + Mod(Hd(v) + 1)] = m.len,
             \A k \in 1 .. m.len : M[B + Mod(Hd(v) + 1 + k)] = Word(m.tag, k)
      PROVE  \E w : /\ Lay(B, M, Append(c, m), t, Pos(Hd(v) + 2 + m.len), w)
                    /\ w[1] = u[1]
                    /\ Words(Append(c, m), w) =
                          Words(c, u) \cup {Mod(y) : y \in Hd(v) .. Hd(v) + 1 + m.len}
  BY DEF Fits, Put, Longer
<1> DEFINE n == Len(c)
           d == Append(c, m)
<1>1. n \in Nat /\ L \in Nat /\ L >= 5 /\ t \in Nat /\ m.len \in 1 .. L - 4 /\ m.len \in Nat
  BY LayBounds, QueueFacts
<1>2. \A j \in 1 .. n + 1 : u[j] \in Nat /\ t <= u[j] /\ u[j] <= v
  BY LayBounds
<1>3. v \in Nat /\ n + 1 \in 1 .. n + 1
  BY <1>1, <1>2
<1>0. Hd(v) \in Nat /\ v <= Hd(v) /\ Hd(v) <= v + 1
  BY <1>1, <1>3 DEF Hd
<1>a. PICK s \in Nat : s = Hd(v) /\ v <= s /\ s <= v + 1
  BY <1>0
<1>b. PICK lm \in Nat : lm = m.len
  BY <1>1
<1>c. v + lm + 4 <= t + L /\ v <= s /\ s <= v + 1
  BY <1>a, <1>b
<1>d. PICK e \in Nat : e = s + 2 + lm
  OBVIOUS
<1>4. e - 1 = s + 1 + lm /\ v + 1 <= e /\ e <= t + L - 1
  <2>1. \A x, y, z, f, g, j \in Nat :
           x <= y /\ y <= x + 1 /\ x + z + 4 <= f + g /\ j = y + 2 + z
             => j - 1 = y + 1 + z /\ x + 1 <= j /\ j <= f + g - 1
    OBVIOUS
  <2>2. QED
    BY <1>1, <1>3, <1>c, <1>d, <2>1, SMTT(40)
<1> DEFINE w == [i \in 1 .. n + 2 |-> IF i <= n + 1 THEN u[i] ELSE e]
<1>5. d \in Seq(Message) /\ Len(d) = n + 1 /\ d[n + 1] = m
      /\ \A i \in 1 .. n : d[i] = c[i]
  BY <1>1
<1>6. w \in [1 .. n + 2 -> Nat] /\ w[n + 2] = e /\ w[1] = u[1]
      /\ \A i \in 1 .. n + 1 : w[i] = u[i]
  BY <1>1, <1>2
<1> HIDE DEF w, d
<1>8. \A i \in 1 .. n : i \in 1 .. n + 1 /\ i + 1 \in 1 .. n + 1
  BY <1>1
<1>9. ASSUME NEW i \in 1 .. n + 1, NEW j \in 1 .. n + 2, i < j
      PROVE  w[i + 1] + (j - i) <= w[j] + 1
  <2>1. CASE j <= n + 1
    <3>1. i \in 1 .. n /\ j \in 1 .. n + 1
      BY <1>1, <1>9, <2>1
    <3>2. u[i + 1] + (j - i) <= u[j] + 1
      BY <1>9, <3>1 DEF Lay
    <3>3. QED
      BY <1>6, <1>8, <3>1, <3>2
  <2>2. CASE j = n + 2 /\ i = n + 1
    BY <1>1, <1>4, <1>6, <2>2
  <2>3. CASE j = n + 2 /\ i < n + 1
    <3>1. i \in 1 .. n /\ i < n + 1 /\ n + 1 \in 1 .. n + 1
      BY <1>1, <2>3
    <3>2. u[i + 1] + (n + 1 - i) <= v + 1
      BY <3>1 DEF Lay
    <3>3. PICK a \in Nat : a = u[i + 1]
      BY <1>2, <1>8, <3>1
    <3>4. w[i + 1] = a /\ w[j] = e
      BY <1>6, <1>8, <2>3, <3>1, <3>3
    <3>5. a + (n + 1 - i) <= v + 1 /\ i \in Nat
      BY <3>1, <3>2, <3>3
    <3>6. a + (n + 2 - i) <= e + 1
      BY <1>1, <1>3, <1>4, <3>5
    <3>7. QED
      BY <2>3, <3>4, <3>6
  <2>4. QED
    BY <1>1, <1>9, <2>1, <2>2, <2>3
<1>10. ASSUME NEW i \in 1 .. n + 1
       PROVE  /\ w[i + 1] = Hd(w[i]) + 2 + d[i].len
              /\ M[B + Mod(Hd(w[i]))] = SIGN
              /\ M[B + Mod(Hd(w[i]) + 1)] = d[i].len
              /\ \A k \in 1 .. d[i].len :
                    M[B + Mod(Hd(w[i]) + 1 + k)] = Word(d[i].tag, k)
  <2>1. CASE i \in 1 .. n
    <3>1. w[i + 1] = u[i + 1] /\ w[i] = u[i] /\ d[i] = c[i]
      BY <1>5, <1>6, <1>8, <2>1
    <3>2. /\ u[i + 1] = Hd(u[i]) + 2 + c[i].len
          /\ M[B + Mod(Hd(u[i]))] = SIGN
          /\ M[B + Mod(Hd(u[i]) + 1)] = c[i].len
          /\ \A j \in 1 .. c[i].len :
                M[B + Mod(Hd(u[i]) + 1 + j)] = Word(c[i].tag, j)
      BY <2>1 DEF Lay
    <3>3. QED
      BY <3>1, <3>2
  <2>2. CASE i = n + 1
    <3>0. i + 1 = n + 2
      BY <1>1, <2>2
    <3>1. w[i + 1] = e /\ w[i] = v /\ d[i] = m
      BY <1>3, <1>5, <1>6, <2>2, <3>0
    <3>2. QED
      BY <1>a, <1>b, <1>d, <3>1
  <2>3. QED
    BY <1>1, <2>1, <2>2
<1>11. n + 1 + 1 = n + 2 /\ t <= w[1]
  BY <1>1, <1>6 DEF Lay
<1>12. Lay(B, M, d, t, Pos(e), w)
  BY <1>4, <1>5, <1>6, <1>9, <1>10, <1>11 DEF Lay
<1>13. Words(d, w) = Words(c, u) \cup {Mod(y) : y \in Hd(v) .. Hd(v) + 1 + m.len}
  <2>1. e - 1 = Hd(v) + 1 + m.len
    BY <1>4, <1>a, <1>b
  <2>2. \A i \in 1 .. n + 1 : i \in 1 .. n \/ i = n + 1
    BY <1>1
  <2>3. \A i \in 1 .. n : i \in 1 .. n + 1 /\ w[i] = u[i] /\ w[i + 1] = u[i + 1]
    BY <1>6, <1>8
  <2>4. n + 1 \in 1 .. n + 1 /\ w[n + 1] = v /\ w[n + 1 + 1] = e
    BY <1>3, <1>6, <1>11
  <2>5. \A x : x \in Words(d, w) <=>
           \E i \in 1 .. n + 1 : \E y \in Hd(w[i]) .. w[i + 1] - 1 : x = Mod(y)
    BY <1>5, WordsAre
  <2>6. \A x : x \in Words(d, w) <=>
           \/ \E i \in 1 .. n : \E y \in Hd(u[i]) .. u[i + 1] - 1 : x = Mod(y)
           \/ \E y \in Hd(v) .. e - 1 : x = Mod(y)
    <3> HIDE DEF n
    <3>1. QED
      BY <2>2, <2>3, <2>4, <2>5
  <2>7. QED
    BY <2>1, <2>6, WordsAre
<1>14. QED
  BY <1>6, <1>12, <1>13, <1>a, <1>b, <1>d DEF d

\* The first message taken away.
LEMMA LayTail ==
    ASSUME NEW c \in Seq(Message), NEW t \in 0 .. L, NEW B, NEW M, NEW h, NEW u,
           Lay(B, M, c, t, h, u), c # << >>
    PROVE  \E w : /\ Lay(B, M, Tail(c), t, h, w)
                  /\ w[1] = u[2]
                  /\ Words(c, u) = Words(Tail(c), w) \cup {Mod(y) : y \in Hd(u[1]) .. u[2] - 1}
                  /\ \A y \in Hd(u[1]) .. u[2] - 1 : Mod(y) \notin Words(Tail(c), w)
<1> DEFINE n == Len(c)
           w == [i \in 1 .. n |-> u[i + 1]]
           d == Tail(c)
<1>1. n \in Nat /\ n >= 1 /\ L \in Nat /\ L >= 5 /\ t \in Nat /\ 1 \in 1 .. n
  BY LayBounds, QueueFacts
<1>2. d \in Seq(Message) /\ Len(d) = n - 1 /\ \A i \in 1 .. n - 1 : d[i] = c[i + 1]
  BY <1>1, HeadTailProperties
<1>3. \A j \in 1 .. n : j + 1 \in 1 .. n + 1 /\ w[j] = u[j + 1] /\ w[j] \in Nat
  BY <1>1, LayBounds
<1>4. \A i \in 1 .. n - 1 : /\ i + 1 \in 1 .. n /\ i \in 1 .. n /\ w[i] = u[i + 1]
                            /\ w[i + 1] = u[i + 1 + 1]
  BY <1>1, <1>3
<1>5. w \in [1 .. n -> Nat] /\ w[n] = u[n + 1] /\ w[1] = u[2] /\ n - 1 + 1 = n
  BY <1>1, <1>3
<1> HIDE DEF w, d
<1>6. ASSUME NEW i \in 1 .. n - 1, NEW j \in 1 .. n, i < j
      PROVE  w[i + 1] + (j - i) <= w[j] + 1
  <2>1. i + 1 < j + 1 /\ (j + 1) - (i + 1) = j - i
    BY <1>1, <1>6
  <2>2. u[i + 1 + 1] + ((j + 1) - (i + 1)) <= u[j + 1] + 1
    BY <1>3, <1>4, <2>1 DEF Lay
  <2>3. QED
    BY <1>3, <1>4, <2>1, <2>2
<1>7. ASSUME NEW i \in 1 .. n - 1
      PROVE  /\ w[i + 1] = Hd(w[i]) + 2 + d[i].len
             /\ M[B + Mod(Hd(w[i]))] = SIGN
             /\ M[B + Mod(Hd(w[i]) + 1)] = d[i].len
             /\ \A k \in 1 .. d[i].len :
                   M[B + Mod(Hd(w[i]) + 1 + k)] = Word(d[i].tag, k)
  <2>1. i + 1 \in 1 .. n /\ w[i] = u[i + 1] /\ w[i + 1] = u[i + 1 + 1] /\ d[i] = c[i + 1]
    BY <1>2, <1>4
  <2>2. QED
    BY <2>1 DEF Lay
<1>8. t <= w[1]
  BY <1>1, <1>3, <1>5, LayBounds
<1>9. Lay(B, M, d, t, h, w)
  <2>1. w[n] <= t + L - 1 /\ h = Pos(w[n])
    BY <1>5 DEF Lay
  <2>2. QED
    BY <1>2, <1>5, <1>6, <1>7, <1>8, <2>1 DEF Lay
<1>10. Words(c, u) = Words(d, w) \cup {Mod(y) : y \in Hd(u[1]) .. u[2] - 1}
  <2>1. \A i \in 1 .. n : i = 1 \/ (i - 1 \in 1 .. n - 1 /\ i - 1 + 1 = i)
    BY <1>1
  <2>2. \A x : x \in Words(d, w) <=>
           \E i \in 1 .. n - 1 : \E y \in Hd(u[i + 1]) .. u[i + 1 + 1] - 1 : x = Mod(y)
    <3>1. \A x : x \in Words(d, w) <=>
             \E i \in 1 .. n - 1 : \E y \in Hd(w[i]) .. w[i + 1] - 1 : x = Mod(y)
      BY <1>2, WordsAre
    <3> HIDE DEF n
    <3>2. QED
      BY <1>4, <3>1
  <2>3. \A x : x \in Words(c, u) <=>
           \E i \in 1 .. n : \E y \in Hd(u[i]) .. u[i + 1] - 1 : x = Mod(y)
    BY WordsAre
  <2>4. u[1 + 1] = u[2]
    OBVIOUS
  <2>5. \A x : x \in Words(c, u) <=>
           \/ \E i \in 1 .. n - 1 : \E y \in Hd(u[i + 1]) .. u[i + 1 + 1] - 1 : x = Mod(y)
           \/ \E y \in Hd(u[1]) .. u[2] - 1 : x = Mod(y)
    <3> HIDE DEF n
    <3>1. QED
      BY <1>1, <1>4, <2>1, <2>3, <2>4
  <2>6. QED
    BY <2>2, <2>5
<1>11. ASSUME NEW y \in Hd(u[1]) .. u[2] - 1
       PROVE  Mod(y) \notin Words(d, w)
  <2>1. SUFFICES ASSUME Mod(y) \in Words(d, w)
                 PROVE  FALSE
    OBVIOUS
  <2>2. PICK i \in 1 .. n - 1 : \E z \in Hd(w[i]) .. w[i + 1] - 1 : Mod(y) = Mod(z)
    BY <1>2, <2>1, WordsAre
  <2>3. PICK z \in Hd(w[i]) .. w[i + 1] - 1 : Mod(y) = Mod(z)
    BY <2>2
  <2>4. /\ y \in 0 .. 2 * L - 1 /\ z \in 0 .. 2 * L - 1
        /\ y \in u[1] .. u[n + 1] - 1 /\ z \in u[1] .. u[n + 1] - 1
    <3>1. 1 + 1 = 2
      OBVIOUS
    <3>2. z \in Hd(u[i + 1]) .. u[i + 1 + 1] - 1 /\ i + 1 \in 1 .. n
      BY <1>4
    <3>3. QED
      BY <1>1, <3>1, <3>2, WordsRange
  <2>5. u[2] <= z
    <3>1. 2 \in 1 .. n + 1 /\ 1 + 1 = 2 /\ i + 1 \in 1 .. n /\ i + 1 \in 1 .. n + 1
      BY <1>1, <1>4
    <3>2. u[2] \in Nat /\ u[i + 1] \in Nat /\ u[i + 1] <= Hd(u[i + 1]) /\ Hd(u[i + 1]) \in Nat
      BY <3>1, LayBounds
    <3>3. u[2] <= u[i + 1]
      <4>1. CASE i = 1
        BY <3>2, <4>1
      <4>2. CASE i # 1
        <5>1. 1 < i + 1
          BY <1>1
        <5>2. u[1 + 1] + ((i + 1) - 1) <= u[i + 1] + 1
          BY <1>1, <3>1, <5>1 DEF Lay
        <5>3. \A a, b \in Nat : a + ((i + 1) - 1) <= b + 1 => a <= b
          BY <1>1
        <5>4. QED
          BY <3>1, <3>2, <5>2, <5>3
      <4>3. QED
        BY <4>1, <4>2
    <3>4. z >= Hd(u[i + 1])
      BY <1>4
    <3>5. QED
      BY <2>4, <3>2, <3>3, <3>4
  <2>6. u[1] \in Nat /\ u[2] \in Nat /\ u[n + 1] \in Nat /\ u[n + 1] <= t + L - 1 /\ t <= u[1]
    <3>1. 1 \in 1 .. n + 1 /\ 2 \in 1 .. n + 1 /\ n + 1 \in 1 .. n + 1
      BY <1>1
    <3>2. u[n + 1] <= t + L - 1 /\ t <= u[1]
      BY DEF Lay
    <3>3. \A j \in 1 .. n + 1 : u[j] \in Nat
      BY LayBounds
    <3>4. u[1] \in Nat /\ u[2] \in Nat /\ u[n + 1] \in Nat
      BY <3>1, <3>3
    <3>5. QED
      BY <3>2, <3>4
  <2>7. y # z /\ y < z + L /\ z < y + L
    <3>1. \A a, b, e, f, g, j, x \in Nat :
             /\ a >= e /\ a <= f - 1 /\ f <= b /\ b <= g - 1 /\ g <= j + x - 1 /\ j <= e
             => a # b /\ a < b + x /\ b < a + x
      OBVIOUS
    <3>2. y \in Nat /\ z \in Nat /\ y >= u[1] /\ y <= u[2] - 1 /\ z <= u[n + 1] - 1
      BY <2>4, <2>6
    <3>3. QED
      BY <1>1, <2>5, <2>6, <3>1, <3>2
  <2>8. QED
    BY <2>3, <2>4, <2>7, ModApart
<1>12. QED
  BY <1>5, <1>9, <1>10, <1>11 DEF d

\* ptail moved to the first message.
LEMMA LayShift ==
    ASSUME NEW c \in Seq(Message), NEW t \in 0 .. L, NEW B, NEW M, NEW h, NEW u,
           Lay(B, M, c, t, h, u)
    PROVE  \E w : /\ Lay(B, M, c, Pos(u[1]), h, w)
                  /\ w[1] = Pos(u[1])
                  /\ Words(c, w) = Words(c, u)
<1> DEFINE n == Len(c)
<1>1. n \in Nat /\ L \in Nat /\ L >= 5 /\ 1 \in 1 .. n + 1 /\ n + 1 \in 1 .. n + 1 /\ t \in Nat
      /\ t <= L
  BY LayBounds, QueueFacts
<1>2. \A j \in 1 .. n + 1 : u[j] \in Nat /\ u[1] <= u[j] /\ u[j] <= 2 * L - 1
  BY LayBounds
<1>3. u[n + 1] <= t + L - 1 /\ t <= u[1]
  BY DEF Lay
<1>4. CASE u[1] <= L
  <2>1. Pos(u[1]) = u[1]
    BY <1>4 DEF Pos
  <2>2. u[1] \in Nat /\ u[n + 1] \in Nat
    BY <1>1, <1>2
  <2>3. u[1] <= u[1] /\ u[n + 1] <= u[1] + L - 1
    BY <1>1, <1>3, <2>2
  <2>4. Lay(B, M, c, u[1], h, u)
    BY <2>3 DEF Lay
  <2>5. QED
    BY <2>1, <2>4
<1>5. CASE u[1] > L
  <2> DEFINE w == [j \in 1 .. n + 1 |-> u[j] - L]
  <2>1. \A j \in 1 .. n + 1 : /\ w[j] = u[j] - L /\ w[j] \in Nat /\ u[j] > L
                              /\ w[j] <= L - 1
    BY <1>1, <1>2, <1>5
  <2>2. w \in [1 .. n + 1 -> Nat]
    BY <2>1
  <2> HIDE DEF w
  <2>3. Pos(u[1]) = w[1] /\ w[1] <= w[1] /\ w[1] \in Nat
    BY <1>1, <1>2, <1>5, <2>1 DEF Pos
  <2>4. w[n + 1] <= w[1] + L - 1
    <3>1. \A a, b, x, y \in Nat : /\ b <= x + y - 1 /\ x <= y /\ y < a /\ y < b
                                  => b - y <= (a - y) + y - 1
      OBVIOUS
    <3>2. u[1] \in Nat /\ u[n + 1] \in Nat /\ w[1] = u[1] - L /\ w[n + 1] = u[n + 1] - L
          /\ u[n + 1] > L
      BY <1>1, <1>2, <2>1
    <3>3. QED
      BY <1>1, <1>3, <1>5, <3>1, <3>2
  <2>5. h = Pos(w[n + 1])
    <3>1. h = Pos(u[n + 1])
      BY DEF Lay
    <3>2. QED
      BY <1>1, <1>2, <2>1, <3>1 DEF Pos
  <2>6. ASSUME NEW i \in 1 .. n
        PROVE  /\ i \in 1 .. n + 1 /\ i + 1 \in 1 .. n + 1
               /\ Hd(u[i]) = u[i] /\ Hd(w[i]) = w[i]
               /\ u[i + 1] = u[i] + 2 + c[i].len
    <3>1. i \in 1 .. n + 1 /\ i + 1 \in 1 .. n + 1 /\ u[i] <= 2 * L - 4
      BY LayBounds
    <3>2. u[i] \in Nat /\ u[i] > L /\ w[i] = u[i] - L
      BY <1>2, <2>1, <3>1
    <3>3. Hd(u[i]) = u[i] /\ Hd(w[i]) = w[i]
      BY <1>1, <3>1, <3>2 DEF Hd
    <3>4. u[i + 1] = Hd(u[i]) + 2 + c[i].len
      BY DEF Lay
    <3>5. QED
      BY <3>1, <3>3, <3>4
  <2>7. ASSUME NEW i \in 1 .. n, NEW j \in 1 .. n + 1, i < j
        PROVE  w[i + 1] + (j - i) <= w[j] + 1
    <3>1. u[i + 1] + (j - i) <= u[j] + 1
      BY <2>7 DEF Lay
    <3>2. \A a, b, x, k, l \in Nat : a + (l - k) <= b + 1 => (a - x) + (l - k) <= (b - x) + 1
      OBVIOUS
    <3>3. u[i + 1] \in Nat /\ u[j] \in Nat /\ w[i + 1] = u[i + 1] - L /\ w[j] = u[j] - L
          /\ i \in Nat /\ j \in Nat
      BY <1>1, <1>2, <2>1, <2>6
    <3>4. QED
      BY <1>1, <3>1, <3>2, <3>3
  <2>8. ASSUME NEW y \in Nat, y >= L, y <= 2 * L - 1
        PROVE  Mod(y - L) = Mod(y)
    BY <1>1, <2>8 DEF Mod
  <2>9. ASSUME NEW i \in 1 .. n, NEW x \in 0 .. c[i].len + 1
        PROVE  Mod(w[i] + x) = Mod(u[i] + x)
    <3>1. c[i].len \in 1 .. L - 4
      BY LayBounds
    <3>2. /\ u[i] \in Nat /\ u[i] > L /\ w[i] = u[i] - L
          /\ u[i] + 2 + c[i].len <= 2 * L - 1
      <4>1. u[i + 1] <= 2 * L - 1 /\ u[i + 1] = u[i] + 2 + c[i].len
        BY <1>2, <2>6
      <4>2. QED
        BY <1>2, <2>1, <2>6, <4>1
    <3>3. PICK y \in Nat : y = u[i] + x
      BY <3>1, <3>2
    <3>4. PICK k \in Nat : k = c[i].len
      BY <3>1
    <3>5. x \in Nat /\ x <= k + 1
      BY <3>1, <3>4
    <3>6. y >= L /\ y <= 2 * L - 1 /\ w[i] + x = y - L
      <4>1. \A a, d, f, l \in Nat :
               a > l /\ a + 2 + d <= 2 * l - 1 /\ f <= d + 1
                 => a + f >= l /\ a + f <= 2 * l - 1 /\ (a - l) + f = (a + f) - l
        OBVIOUS
      <4>2. u[i] + 2 + k <= 2 * L - 1 /\ u[i] \in Nat /\ u[i] > L /\ w[i] = u[i] - L
        BY <3>2, <3>4
      <4>3. u[i] + x >= L /\ u[i] + x <= 2 * L - 1 /\ (u[i] - L) + x = (u[i] + x) - L
        <5>1. L \in Nat /\ u[i] \in Nat /\ x \in Nat /\ k \in Nat
          BY <1>1, <3>5, <4>2
        <5>2. u[i] > L /\ u[i] + 2 + k <= 2 * L - 1 /\ x <= k + 1
          BY <3>5, <4>2
        <5>3. QED
          BY <4>1, <5>1, <5>2
      <4>4. QED
        BY <3>3, <4>2, <4>3
    <3>7. QED
      BY <2>8, <3>3, <3>6
  <2>10. ASSUME NEW i \in 1 .. n
         PROVE  /\ w[i + 1] = Hd(w[i]) + 2 + c[i].len
                /\ M[B + Mod(Hd(w[i]))] = SIGN
                /\ M[B + Mod(Hd(w[i]) + 1)] = c[i].len
                /\ \A k \in 1 .. c[i].len :
                      M[B + Mod(Hd(w[i]) + 1 + k)] = Word(c[i].tag, k)
    <3>1. w[i + 1] = Hd(w[i]) + 2 + c[i].len
      <4>1. c[i].len \in Nat /\ u[i] \in Nat
        BY <1>2, <2>6, LayBounds, QueueFacts
      <4>2. w[i + 1] = u[i + 1] - L /\ w[i] = u[i] - L /\ Hd(w[i]) = w[i]
            /\ u[i + 1] = u[i] + 2 + c[i].len
        BY <2>1, <2>6
      <4>3. \A a, d, l \in Nat : (a + 2 + d) - l = (a - l) + 2 + d
        OBVIOUS
      <4>4. (u[i] + 2 + c[i].len) - L = (u[i] - L) + 2 + c[i].len
        BY <1>1, <4>1, <4>3
      <4>5. QED
        BY <4>2, <4>4
    <3>2. c[i].len \in Nat /\ u[i] \in Nat /\ w[i] \in Nat
      BY <1>2, <2>1, <2>6, LayBounds, QueueFacts
    <3>3. /\ Mod(w[i]) = Mod(u[i]) /\ Mod(w[i] + 1) = Mod(u[i] + 1)
          /\ \A k \in 1 .. c[i].len : Mod(w[i] + 1 + k) = Mod(u[i] + 1 + k)
      <4>1. 0 \in 0 .. c[i].len + 1 /\ 1 \in 0 .. c[i].len + 1
            /\ w[i] + 0 = w[i] /\ u[i] + 0 = u[i]
        BY <3>2
      <4>2. \A k \in 1 .. c[i].len : /\ 1 + k \in 0 .. c[i].len + 1
                                     /\ w[i] + 1 + k = w[i] + (1 + k)
                                     /\ u[i] + 1 + k = u[i] + (1 + k)
        <5>1. \A a, d \in Nat : \A k \in 1 .. d : /\ 1 + k \in 0 .. d + 1
                                                  /\ a + 1 + k = a + (1 + k)
          OBVIOUS
        <5>2. QED
          BY <3>2, <5>1
      <4>3. Mod(w[i] + 0) = Mod(u[i] + 0) /\ Mod(w[i] + 1) = Mod(u[i] + 1)
        BY <2>9, <4>1
      <4>4. \A k \in 1 .. c[i].len : Mod(w[i] + (1 + k)) = Mod(u[i] + (1 + k))
        BY <2>9, <4>2
      <4>5. QED
        BY <4>1, <4>2, <4>3, <4>4
    <3>4. /\ M[B + Mod(Hd(u[i]))] = SIGN
          /\ M[B + Mod(Hd(u[i]) + 1)] = c[i].len
          /\ \A k \in 1 .. c[i].len :
                M[B + Mod(Hd(u[i]) + 1 + k)] = Word(c[i].tag, k)
      BY DEF Lay
    <3>5. Hd(u[i]) = u[i] /\ Hd(w[i]) = w[i]
      BY <2>6
    <3>6. QED
      BY <3>1, <3>3, <3>4, <3>5
  <2>11. Lay(B, M, c, w[1], h, w)
    BY <2>2, <2>3, <2>4, <2>5, <2>7, <2>10 DEF Lay
  <2>12. Words(c, w) = Words(c, u)
    <3>1. ASSUME NEW i \in 1 .. n, NEW y \in Hd(w[i]) .. w[i + 1] - 1
          PROVE  y + L \in Hd(u[i]) .. u[i + 1] - 1 /\ Mod(y) = Mod(y + L)
      <4>1. w[i] \in Nat /\ w[i + 1] \in Nat /\ Hd(w[i]) = w[i] /\ Hd(u[i]) = u[i]
            /\ w[i + 1] = u[i + 1] - L /\ w[i] = u[i] - L /\ w[i + 1] <= L - 1
            /\ u[i] \in Nat /\ u[i + 1] \in Nat
        BY <1>2, <2>1, <2>6
      <4>2. y \in Nat /\ y >= w[i] /\ y <= w[i + 1] - 1
        BY <4>1
      <4>3. y + L \in u[i] .. u[i + 1] - 1 /\ y < L
        <5>1. \A a, b, x, l \in Nat :
                 x >= a - l /\ x <= (b - l) - 1 /\ b - l <= l - 1
                   => x + l \in a .. b - 1 /\ x < l
          OBVIOUS
        <5>2. QED
          BY <1>1, <4>1, <4>2, <5>1
      <4>4. Mod(y) = Mod(y + L)
        BY <1>1, <4>2, <4>3 DEF Mod
      <4>5. QED
        BY <4>1, <4>3, <4>4
    <3>2. ASSUME NEW i \in 1 .. n, NEW y \in Hd(u[i]) .. u[i + 1] - 1
          PROVE  y - L \in Hd(w[i]) .. w[i + 1] - 1 /\ Mod(y) = Mod(y - L)
      <4>1. w[i] \in Nat /\ w[i + 1] \in Nat /\ Hd(w[i]) = w[i] /\ Hd(u[i]) = u[i]
            /\ w[i + 1] = u[i + 1] - L /\ w[i] = u[i] - L /\ w[i + 1] <= L - 1
            /\ u[i] \in Nat /\ u[i + 1] \in Nat /\ u[i] > L
        BY <1>2, <2>1, <2>6
      <4>2. y \in Nat /\ y >= u[i] /\ y <= u[i + 1] - 1
        BY <4>1
      <4>3. y - L \in w[i] .. w[i + 1] - 1 /\ y >= L /\ y <= 2 * L - 1
        <5>1. \A a, b, x, l \in Nat :
                 x >= a /\ x <= b - 1 /\ b - l <= l - 1 /\ a > l
                   => x - l \in a - l .. (b - l) - 1 /\ x >= l /\ x <= 2 * l - 1
          OBVIOUS
        <5>2. QED
          BY <1>1, <4>1, <4>2, <5>1
      <4>4. QED
        BY <2>8, <4>1, <4>2, <4>3
    <3>3. \A x : x \in Words(c, w) => x \in Words(c, u)
      <4>1. SUFFICES ASSUME NEW x, x \in Words(c, w)
                     PROVE  x \in Words(c, u)
        OBVIOUS
      <4>2. PICK i \in 1 .. n : \E y \in Hd(w[i]) .. w[i + 1] - 1 : x = Mod(y)
        BY <4>1, WordsAre
      <4>3. QED
        BY <3>1, <4>2, WordsAre
    <3>4. \A x : x \in Words(c, u) => x \in Words(c, w)
      <4>1. SUFFICES ASSUME NEW x, x \in Words(c, u)
                     PROVE  x \in Words(c, w)
        OBVIOUS
      <4>2. PICK i \in 1 .. n : \E y \in Hd(u[i]) .. u[i + 1] - 1 : x = Mod(y)
        BY <4>1, WordsAre
      <4>3. QED
        BY <3>2, <4>2, WordsAre
    <3>5. QED
      BY <3>3, <3>4
  <2>13. QED
    BY <2>3, <2>11, <2>12
<1>6. QED
  BY <1>1, <1>2, <1>4, <1>5

-----------------------------------------------------------------------------
(* What the code finds in such a buffer. *)

LEMMA LeastNat ==
    ASSUME NEW T \in SUBSET Nat, T # {}
    PROVE  \E x \in T : \A y \in T : x <= y
<1> DEFINE R == {ss \in Nat \X Nat : ss[1] < ss[2]}
<1>1. IsWellFoundedOn(R, Nat)
  BY NatLessThanWellFounded DEF OpToRel
<1>2. PICK x \in T : \A y \in T : ~ (<<y, x>> \in R)
  <2> HIDE DEF R
  <2> QED BY <1>1, WFMin
<1>3. \A y \in T : ~ (y < x)
  BY <1>2
<1>4. QED
  BY <1>3

\* StartOf is where the messages start.
LEMMA Starts ==
    ASSUME NEW q \in Queue, chan[q] \in Seq(Message), NEW t \in 0 .. L, NEW u,
           Lay(Base(q), mem, chan[q], t, phead[q], u), Front(q) = Pos(u[1])
    PROVE  \A i \in 1 .. Len(chan[q]) + 1 : StartOf(q)[i] = Pos(u[i])
<1> DEFINE c == chan[q]
           n == Len(c)
           w == [i \in 1 .. n + 1 |-> Pos(u[i])]
           Is(f) == f = [i \in 1 .. n + 1 |->
                           IF i = 1 THEN Front(q)
                           ELSE EndOf(HeaderAt(f[i - 1]), c[i - 1].len)]
<1>0. n \in Nat
  BY LayBounds
<1>1. \A i \in 1 .. n + 1 : i = 1 \/ (i - 1 \in 1 .. n /\ i - 1 \in 1 .. n + 1 /\ i - 1 + 1 = i)
  BY <1>0
<1>2. \A i \in 1 .. n : EndOf(HeaderAt(Pos(u[i])), c[i].len) = Pos(u[i + 1])
  BY LayAt
<1>3. Is(w)
  <2>1. \A i \in 1 .. n + 1 : w[i] = Pos(u[i])
    OBVIOUS
  <2>2. \A i \in 1 .. n + 1 : w[i] = IF i = 1 THEN Front(q)
                                     ELSE EndOf(HeaderAt(w[i - 1]), c[i - 1].len)
    <3> HIDE DEF n, c, w
    <3>1. QED
      BY <1>1, <1>2, <2>1
  <2>3. QED
    BY <2>2
<1>4. StartOf(q) = CHOOSE f : Is(f)
  BY DEF StartOf
<1> HIDE DEF Is, w
<1>5. Is(StartOf(q))
  BY <1>3, <1>4
<1>6. /\ \A i \in 1 .. n + 1 : StartOf(q)[i] = IF i = 1 THEN Front(q)
                                 ELSE EndOf(HeaderAt(StartOf(q)[i - 1]), c[i - 1].len)
  BY <1>5 DEF Is
<1>7. ASSUME \E i \in 1 .. n + 1 : StartOf(q)[i] # Pos(u[i])
      PROVE  FALSE
  <2> DEFINE Bad == {i \in 1 .. n + 1 : StartOf(q)[i] # Pos(u[i])}
  <2>1. Bad \in SUBSET Nat /\ Bad # {}
    BY <1>7
  <2>2. PICK i \in Bad : \A j \in Bad : i <= j
    <3> HIDE DEF Bad
    <3>1. QED
      BY <2>1, LeastNat
  <2>3. i \in 1 .. n + 1 /\ StartOf(q)[i] # Pos(u[i])
    OBVIOUS
  <2>4. i # 1
    BY <1>6, <2>3
  <2>5. i - 1 \in 1 .. n /\ i - 1 \in 1 .. n + 1 /\ i - 1 + 1 = i /\ ~ (i <= i - 1)
    BY <1>0, <1>1, <2>3, <2>4
  <2>6. StartOf(q)[i - 1] = Pos(u[i - 1])
    BY <2>2, <2>5
  <2>7. StartOf(q)[i] = EndOf(HeaderAt(StartOf(q)[i - 1]), c[i - 1].len)
    BY <1>6, <2>3, <2>4
  <2>8. EndOf(HeaderAt(Pos(u[i - 1])), c[i - 1].len) = Pos(u[i - 1 + 1])
    BY <1>2, <2>5
  <2>9. QED
    BY <2>3, <2>5, <2>6, <2>7, <2>8
<1>8. QED
  BY <1>7

LEMMA LayWhole ==
    ASSUME NEW q \in Queue, chan[q] \in Seq(Message), NEW t \in 0 .. L, NEW u,
           Lay(Base(q), mem, chan[q], t, phead[q], u), Front(q) = Pos(u[1])
    PROVE  Whole(q)
<1> DEFINE c == chan[q]
           n == Len(c)
<1>1. n \in Nat /\ \A i \in 1 .. n : i \in 1 .. n + 1
  BY LayBounds
<1>2. \A i \in 1 .. n + 1 : StartOf(q)[i] = Pos(u[i])
  BY Starts
<1>3. ASSUME NEW i \in 1 .. n, NEW h, h = HeaderAt(StartOf(q)[i])
      PROVE  /\ mem[Base(q) + h] = SIGN
             /\ mem[Base(q) + h + 1] = c[i].len
             /\ TextIn(q, h, c[i].len) = TextOf(c[i])
  <2>1. h = HeaderAt(Pos(u[i]))
    BY <1>1, <1>2, <1>3
  <2>2. /\ h = Mod(Hd(u[i])) /\ h + 1 = Mod(Hd(u[i]) + 1)
        /\ \A k \in 1 .. c[i].len : TextAt(h, k) = Mod(Hd(u[i]) + 1 + k)
    BY <2>1, LayAt
  <2>3. h \in Nat /\ Base(q) \in Nat
    <3>1. Hd(u[i]) \in Nat /\ u[i] <= 2 * L - 4 /\ Hd(u[i]) <= u[i] + 1 /\ L \in Nat /\ u[i] \in Nat
      BY <1>1, LayBounds, QueueFacts
    <3>2. Hd(u[i]) \in 0 .. 2 * L - 1
      BY <3>1
    <3>3. Mod(Hd(u[i])) \in 0 .. L - 1
      BY <3>2, ModRange
    <3>4. QED
      BY <2>2, <3>1, <3>3, InAddress
  <2>4. Base(q) + h + 1 = Base(q) + (h + 1)
    BY <2>3
  <2>5. /\ mem[Base(q) + Mod(Hd(u[i]))] = SIGN
        /\ mem[Base(q) + Mod(Hd(u[i]) + 1)] = c[i].len
        /\ \A k \in 1 .. c[i].len :
              mem[Base(q) + Mod(Hd(u[i]) + 1 + k)] = Word(c[i].tag, k)
    BY DEF Lay
  <2>6. TextIn(q, h, c[i].len) = TextOf(c[i])
    BY <2>2, <2>5 DEF TextIn, TextOf
  <2>7. QED
    BY <2>2, <2>4, <2>5, <2>6
<1>4. StartOf(q)[n + 1] = phead[q]
  <2>1. n + 1 \in 1 .. n + 1
    BY <1>1
  <2>2. QED
    BY <1>2, <2>1 DEF Lay
<1>5. QED
  BY <1>3, <1>4 DEF Whole

\* The addresses in use are those of the messages.
LEMMA LayInUse ==
    ASSUME NEW q \in Queue, chan[q] \in Seq(Message), NEW t \in 0 .. L, NEW u,
           Lay(Base(q), mem, chan[q], t, phead[q], u), Front(q) = Pos(u[1])
    PROVE  InUse(q) = {Base(q) + x : x \in Words(chan[q], u)}
<1> DEFINE c == chan[q]
           n == Len(c)
           At(i) == LET h == HeaderAt(StartOf(q)[i])
                    IN  {Base(q) + h, Base(q) + h + 1}
                          \cup {Base(q) + TextAt(h, k) : k \in 1 .. c[i].len}
<1>1. n \in Nat /\ \A i \in 1 .. n : i \in 1 .. n + 1
  BY LayBounds
<1>2. \A i \in 1 .. n + 1 : StartOf(q)[i] = Pos(u[i])
  BY Starts
<1>3. ASSUME NEW i \in 1 .. n
      PROVE  At(i) = {Base(q) + Mod(y) : y \in Hd(u[i]) .. u[i + 1] - 1}
  <2>1. PICK h : h = HeaderAt(Pos(u[i]))
    OBVIOUS
  <2>2. At(i) = {Base(q) + h, Base(q) + h + 1} \cup {Base(q) + TextAt(h, k) : k \in 1 .. c[i].len}
    BY <1>1, <1>2, <2>1
  <2>3. /\ h = Mod(Hd(u[i])) /\ h + 1 = Mod(Hd(u[i]) + 1)
        /\ \A k \in 1 .. c[i].len : TextAt(h, k) = Mod(Hd(u[i]) + 1 + k)
        /\ u[i + 1] = Hd(u[i]) + 2 + c[i].len
    BY <2>1, LayAt
  <2>4. PICK w \in Nat : w = Hd(u[i])
    BY LayBounds
  <2>5. PICK l \in Nat : l = c[i].len
    BY LayBounds, QueueFacts
  <2>6. h \in Nat /\ Base(q) \in Nat
    <3>1. u[i] <= 2 * L - 4 /\ Hd(u[i]) <= u[i] + 1 /\ L \in Nat /\ u[i] \in Nat
      BY <1>1, LayBounds, QueueFacts
    <3>2. w \in 0 .. 2 * L - 1
      BY <2>4, <3>1
    <3>3. Mod(w) \in 0 .. L - 1
      BY <3>2, ModRange
    <3>4. QED
      BY <2>3, <2>4, <3>1, <3>3, InAddress
  <2>7. Base(q) + h + 1 = Base(q) + (h + 1)
    BY <2>6
  <2>8. \A x : x \in At(i) <=> \/ x = Base(q) + Mod(w) \/ x = Base(q) + Mod(w + 1)
                               \/ \E k \in 1 .. l : x = Base(q) + Mod(w + 1 + k)
    BY <2>2, <2>3, <2>4, <2>5, <2>7
  <2>9. \A y : y \in w .. w + 2 + l - 1 <=>
                  \/ y = w \/ y = w + 1 \/ \E k \in 1 .. l : y = w + 1 + k
    <3>1. ASSUME NEW y \in w .. w + 2 + l - 1, y # w, y # w + 1
          PROVE  \E k \in 1 .. l : y = w + 1 + k
      <4>1. y - w - 1 \in 1 .. l /\ y = w + 1 + (y - w - 1)
        BY <3>1
      <4>2. QED
        BY <4>1
    <3>2. /\ w \in w .. w + 2 + l - 1 /\ w + 1 \in w .. w + 2 + l - 1
          /\ \A k \in 1 .. l : w + 1 + k \in w .. w + 2 + l - 1
      OBVIOUS
    <3>3. QED
      BY <3>1, <3>2
  <2>10. \A x : x \in At(i) <=> \E y \in w .. w + 2 + l - 1 : x = Base(q) + Mod(y)
    <3> HIDE DEF At
    <3>1. QED
      BY <2>8, <2>9, Zenon
  <2>11. Hd(u[i]) .. u[i + 1] - 1 = w .. w + 2 + l - 1
    BY <2>3, <2>4, <2>5
  <2>12. QED
    BY <2>10, <2>11
<1>4. InUse(q) = UNION {At(i) : i \in 1 .. n}
  BY DEF InUse
<1> HIDE DEF At, n
<1>5. \A x : x \in InUse(q) <=>
             \E i \in 1 .. n : \E y \in Hd(u[i]) .. u[i + 1] - 1 : x = Base(q) + Mod(y)
  BY <1>3, <1>4
<1>6. \A x : x \in Words(c, u) <=>
             \E i \in 1 .. n : \E y \in Hd(u[i]) .. u[i + 1] - 1 : x = Mod(y)
  BY WordsAre DEF n
<1>7. QED
  BY <1>5, <1>6

\* Between the first message and phead there is no other word than those of
\* the messages, but for the last one of the buffer.
LEMMA LayCovers ==
    ASSUME NEW c \in Seq(Message), NEW t \in 0 .. L, NEW B, NEW M, NEW h, NEW u,
           Lay(B, M, c, t, h, u), NEW y \in u[1] .. u[Len(c) + 1] - 1, y # L - 1
    PROVE  Mod(y) \in Words(c, u)
<1> DEFINE n == Len(c)
           T == {j \in 1 .. n + 1 : y < u[j]}
<1>1. n \in Nat /\ L \in Nat /\ 1 \in 1 .. n + 1 /\ n + 1 \in 1 .. n + 1
  BY LayBounds, QueueFacts
<1>2. \A j \in 1 .. n + 1 : u[j] \in Nat
  BY LayBounds
<1>3. y \in Nat /\ u[1] <= y /\ y < u[n + 1]
  BY <1>1, <1>2
<1>4. T \in SUBSET Nat /\ n + 1 \in T
  BY <1>1, <1>3
<1>5. PICK j \in T : \A k \in T : j <= k
  <2> HIDE DEF T
  <2>1. QED
    BY <1>4, LeastNat
<1>6. j \in 1 .. n + 1 /\ y < u[j]
  OBVIOUS
<1>7. j # 1
  BY <1>1, <1>2, <1>3, <1>6
<1>8. PICK i \in 1 .. n : i + 1 = j /\ i \in 1 .. n + 1
  <2>1. j - 1 \in 1 .. n /\ j - 1 \in 1 .. n + 1 /\ j - 1 + 1 = j
    BY <1>1, <1>6, <1>7
  <2>2. QED
    BY <2>1
<1>9. u[i] <= y
  <2>1. i \notin T
    BY <1>1, <1>5, <1>8
  <2>2. QED
    BY <1>2, <1>3, <1>8, <2>1
<1>10. Hd(u[i]) <= y
  BY <1>1, <1>2, <1>3, <1>8, <1>9 DEF Hd
<1>11. y \in Hd(u[i]) .. u[i + 1] - 1
  <2>1. u[i + 1] \in Nat /\ y < u[i + 1] /\ Hd(u[i]) \in Nat
    BY <1>2, <1>6, <1>8, LayBounds
  <2>2. QED
    BY <1>3, <1>10, <2>1
<1>12. QED
  BY <1>11, WordsAre

LEMMA LayRoom ==
    ASSUME TypeOK, NEW q \in Queue, NEW u,
           Lay(Base(q), mem, chan[q], ptail[q], phead[q], u), Front(q) = Pos(u[1]),
           u[1] = ptail[q]
    PROVE  L - Cardinality(InUse(q)) - msg_buf_avail(q) \in {0, 1}
<1> DEFINE c == chan[q]
           n == Len(c)
           D == u[1] .. u[n + 1] - 1
           E == {y \in D : Mod(y) \in Words(c, u)}
<1>1. c \in Seq(Message) /\ ptail[q] \in 0 .. L /\ phead[q] \in 0 .. L
  BY DEF TypeOK
<1>2. L \in Nat /\ L >= 5 /\ n + 1 \in 1 .. n + 1 /\ 1 \in 1 .. n + 1
  BY <1>1, LayBounds, QueueFacts
<1>3. PICK a \in Nat : a = u[1]
  BY <1>1, <1>2, LayBounds
<1>4. PICK b \in Nat : b = u[n + 1]
  BY <1>1, <1>2, LayBounds
<1>5. a <= b /\ b <= a + L - 1 /\ a <= L
  <2>1. u[1] <= u[n + 1]
    BY <1>1, <1>2, LayBounds
  <2>2. u[n + 1] <= ptail[q] + L - 1
    BY DEF Lay
  <2>3. QED
    BY <1>1, <1>2, <1>3, <1>4, <2>1, <2>2
<1>6. msg_buf_avail(q) = L - (b - a)
  <2>1. phead[q] = Pos(b) /\ ptail[q] = a
    BY <1>3, <1>4 DEF Lay
  <2>2. QED
    BY <1>2, <1>5, <2>1 DEF msg_buf_avail, Pos
<1>7. D = a .. b - 1
  BY <1>3, <1>4
<1>8. IsFiniteSet(D) /\ Cardinality(D) = b - a
  <2>1. a \in Int /\ b - 1 \in Int
    OBVIOUS
  <2>2. IsFiniteSet(a .. b - 1)
        /\ Cardinality(a .. b - 1) = IF a > b - 1 THEN 0 ELSE (b - 1) - a + 1
    BY <2>1, FS_Interval
  <2>3. QED
    BY <1>5, <1>7, <2>2
<1>9. E = D \/ E = D \ {L - 1}
  <2>1. \A y \in D : y # L - 1 => y \in E
    BY <1>1, LayCovers
  <2>2. QED
    BY <2>1
<1>10. IsFiniteSet(E) /\ (Cardinality(E) = b - a \/ Cardinality(E) = b - a - 1)
  <2>1. IsFiniteSet(D \ {L - 1})
        /\ Cardinality(D \ {L - 1}) = IF L - 1 \in D THEN Cardinality(D) - 1 ELSE Cardinality(D)
    BY <1>8, FS_RemoveElement
  <2>2. QED
    BY <1>8, <1>9, <2>1
<1>11. ExistsBijection(E, InUse(q))
  <2> DEFINE f == [y \in E |-> Base(q) + Mod(y)]
  <2>1. InUse(q) = {Base(q) + x : x \in Words(c, u)}
    BY <1>1, LayInUse
  <2>2. ASSUME NEW y \in E
        PROVE  y \in 0 .. 2 * L - 1 /\ y \in a .. b - 1 /\ Mod(y) \in 0 .. L - 1
               /\ f[y] = Base(q) + Mod(y)
    <3>1. y \in a .. b - 1
      BY <1>7
    <3>2. y \in 0 .. 2 * L - 1
      BY <1>2, <1>5, <3>1
    <3>3. QED
      BY <3>1, <3>2, ModRange
  <2>3. f \in [E -> InUse(q)]
    BY <2>1
  <2>4. \A z \in InUse(q) : \E y \in E : f[y] = z
    <3>1. SUFFICES ASSUME NEW x \in Words(c, u)
                   PROVE  \E y \in E : f[y] = Base(q) + x
      BY <2>1
    <3>2. PICK i \in 1 .. n : \E y \in Hd(u[i]) .. u[i + 1] - 1 : x = Mod(y)
      BY WordsAre
    <3>3. PICK y \in Hd(u[i]) .. u[i + 1] - 1 : x = Mod(y)
      BY <3>2
    <3>4. y \in D
      BY <1>1, WordsRange
    <3>5. y \in E
      BY <3>3, <3>4
    <3>6. QED
      BY <2>2, <3>3, <3>5
  <2>5. \A y, z \in E : f[y] = f[z] => y = z
    <3>1. SUFFICES ASSUME NEW y \in E, NEW z \in E, f[y] = f[z], y # z
                   PROVE  FALSE
      OBVIOUS
    <3>2. /\ y \in 0 .. 2 * L - 1 /\ y \in a .. b - 1 /\ z \in 0 .. 2 * L - 1 /\ z \in a .. b - 1
          /\ Mod(y) \in Nat /\ Mod(z) \in Nat /\ Base(q) \in Nat
      <4>1. Mod(y) \in 0 .. L - 1 /\ Mod(z) \in 0 .. L - 1 /\ Base(q) \in Nat
        BY <2>2, InAddress
      <4>2. \A x \in 0 .. L - 1 : x \in Nat
        BY <1>2
      <4>3. QED
        BY <2>2, <4>1, <4>2
    <3>3. Base(q) + Mod(y) = Base(q) + Mod(z)
      BY <2>2, <3>1
    <3>4. Mod(y) = Mod(z)
      BY <3>2, <3>3
    <3>5. y < z + L /\ z < y + L
      BY <1>2, <1>5, <3>2
    <3>6. QED
      BY <3>1, <3>2, <3>4, <3>5, ModApart
  <2> HIDE DEF f
  <2>6. f \in Bijection(E, InUse(q))
    BY <2>3, <2>4, <2>5 DEF Bijection, Injection, Surjection, IsInjective
  <2>7. QED
    BY <2>6 DEF ExistsBijection
<1> HIDE DEF E
<1>12. Cardinality(InUse(q)) = Cardinality(E)
  BY <1>10, <1>11, FS_Bijection
<1>13. QED
  BY <1>2, <1>5, <1>6, <1>10, <1>12

-----------------------------------------------------------------------------
(* What sends and receives do to the memory, for the words of every buffer. *)

\* Offset x of buffer p is among the n words from offset a of buffer q on.
Among(p, x, q, a, n) ==
    \/ p = q /\ a <= x /\ x < a + n
    \/ p = q + 1 /\ a <= x + L /\ x + L < a + n

\* Clearing those words is seen there, and nowhere else.
ClearShows(p, x, q, M, a, n) ==
    Clear(M, Base(q) + a, n)[Base(p) + x] =
       IF Among(p, x, q, a, n) THEN 0 ELSE M[Base(p) + x]

LEMMA ClearAt ==
    ASSUME NEW q \in Queue, NEW p \in Queue, NEW x \in 0 .. L - 1, NEW M,
           NEW a \in 0 .. L + 1, NEW n \in Nat, a + n <= L + 2
    PROVE  ClearShows(p, x, q, M, a, n)
<1>1. /\ L \in Nat /\ p \in Nat /\ q \in Nat /\ Base(p) \in Nat /\ Base(q) \in Nat
      /\ x \in Nat /\ x < L /\ a \in Nat /\ x \in 0 .. L + 1
  BY QueueFacts, InAddress
<1>2. Base(p) + x \in Address
  BY <1>1, InAddress
<1>3. PICK lo \in Nat : lo = Base(q) + a
  BY <1>1
<1>4. PICK z \in Nat : z = Base(p) + x
  BY <1>1
<1>5. Clear(M, lo, n)[z] = IF z \in lo .. lo + n - 1 THEN 0 ELSE M[z]
  BY <1>2, <1>4 DEF Clear
<1>6. ASSUME z \in lo .. lo + n - 1
      PROVE  \/ p = q /\ a <= x /\ x < a + n
             \/ p = q + 1 /\ a <= x + L /\ x + L < a + n
  <2>1. PICK y \in Nat : z = Base(q) + y /\ a <= y /\ y < a + n
    <3>1. z - Base(q) \in Nat /\ z = Base(q) + (z - Base(q))
          /\ a <= z - Base(q) /\ z - Base(q) < a + n
      BY <1>1, <1>3, <1>6
    <3>2. QED
      BY <3>1
  <2>2. y \in 0 .. L + 1
    BY <1>1, <2>1
  <2>3. (p = q /\ x = y) \/ (p = q + 1 /\ y = x + L)
    BY <1>4, <2>1, <2>2, Apart
  <2>4. QED
    BY <2>1, <2>3
<1>7. ASSUME p = q, a <= x, x < a + n
      PROVE  z \in lo .. lo + n - 1
  BY <1>1, <1>3, <1>4, <1>7
<1>8. ASSUME p = q + 1, a <= x + L, x + L < a + n
      PROVE  z \in lo .. lo + n - 1
  <2>1. Base(p) = Base(q) + L
    BY <1>1, <1>8 DEF Base
  <2>2. QED
    BY <1>1, <1>3, <1>4, <1>8, <2>1
<1>9. QED
  BY <1>3, <1>4, <1>5, <1>6, <1>7, <1>8 DEF Among, ClearShows

LEMMA ClearsAt ==
    ASSUME NEW q \in Queue, NEW p \in Queue, NEW x \in 0 .. L - 1,
           NEW h \in 0 .. L - 2, NEW n \in 0 .. L
    PROVE  Cleared(q, h, n)[Base(p) + x] =
              IF \/ p = q /\ ~Torn(h, n) /\ h <= x /\ x < h + 2 + n
                 \/ p = q /\ Torn(h, n) /\ (h + 2 <= x \/ x < h + 2 + n - L)
                 \/ p = q + 1 /\ Torn(h, n) /\ x \in {0, 1}
              THEN 0 ELSE mem[Base(p) + x]
<1>1. L \in Nat /\ L >= 5 /\ h \in Nat /\ n \in Nat /\ x \in Nat /\ p \in Nat /\ q \in Nat
      /\ Base(q) \in Nat /\ x < L /\ h <= L - 2 /\ n <= L
  BY QueueFacts, InAddress
<1>2. p = q => p # q + 1
  BY <1>1
<1>3. CASE ~Torn(h, n)
  <2>1. h + 2 + n <= L
    BY <1>1, <1>3 DEF Torn
  <2>a. PICK k \in Nat : k = n + 2
    BY <1>1
  <2>2. h \in 0 .. L + 1 /\ h + k <= L + 2
    BY <1>1, <2>1, <2>a
  <2>3. ClearShows(p, x, q, mem, h, k)
    BY <2>2, ClearAt
  <2>4. h + k = h + 2 + n /\ ~ (x + L < h + k)
    BY <1>1, <2>1, <2>a
  <2>5. Cleared(q, h, n) = Clear(mem, Base(q) + h, k)
    BY <1>3, <2>a DEF Cleared
  <2>6. QED
    BY <1>3, <2>3, <2>4, <2>5 DEF Among, ClearShows
<1>4. CASE Torn(h, n)
  <2>1. h + 2 + n > L
    BY <1>1, <1>4 DEF Torn
  <2>2. PICK d \in Nat : d = h + 2 + n - L
    BY <1>1, <2>1
  <2>3. PICK M : M = Clear(mem, Base(q) + h + 2, L - h)
    OBVIOUS
  <2>4. Cleared(q, h, n) = Clear(M, Base(q), d)
    BY <1>4, <2>2, <2>3 DEF Cleared
  <2>5. Base(q) + h + 2 = Base(q) + (h + 2) /\ Base(q) = Base(q) + 0
    BY <1>1
  <2>a. PICK a \in Nat, k \in Nat : a = h + 2 /\ k = L - h
    BY <1>1
  <2>6. a \in 0 .. L + 1 /\ a + k = L + 2 /\ a + k <= L + 2
    BY <1>1, <2>a
  <2>b. M = Clear(mem, Base(q) + a, k)
    BY <2>3, <2>5, <2>a
  <2>7. M[Base(p) + x] = IF Among(p, x, q, a, k) THEN 0 ELSE mem[Base(p) + x]
    <3>1. ClearShows(p, x, q, mem, a, k)
      BY <2>6, ClearAt
    <3>2. QED
      BY <2>b, <3>1 DEF ClearShows
  <2>8. 0 \in 0 .. L + 1 /\ 0 + d <= L + 2
    BY <1>1, <2>2
  <2>9. ClearShows(p, x, q, M, 0, d)
    BY <2>8, ClearAt
  <2>10. /\ x < a + k /\ a <= x + L /\ ~ (x + L < 0 + d)
         /\ x + L < a + k <=> x \in {0, 1}
         /\ 0 <= x /\ 0 + d = d
    BY <1>1, <2>2, <2>6, <2>a
  <2>11. Cleared(q, h, n)[Base(p) + x] =
           IF p = q /\ x < d THEN 0 ELSE M[Base(p) + x]
    BY <2>4, <2>5, <2>9, <2>10 DEF Among, ClearShows
  <2>12. M[Base(p) + x] = IF (p = q /\ h + 2 <= x) \/ (p = q + 1 /\ x \in {0, 1})
                          THEN 0 ELSE mem[Base(p) + x]
    BY <2>7, <2>10, <2>a DEF Among
  <2>13. QED
    BY <1>4, <2>2, <2>11, <2>12
<1>5. QED
  BY <1>3, <1>4

\* Receiving clears words of that message only, and all of them if it is in
\* one piece; of another buffer it clears at most the first two.
LEMMA ReceiveClears ==
    ASSUME NEW q \in Queue, NEW v \in Nat, v <= 2 * L - 3, NEW n \in 0 .. L,
           Hd(v) + 2 + n <= 2 * L - 1, NEW h, h = HeaderAt(Pos(v))
    PROVE  /\ \A x \in 0 .. L - 1 :
                 (\A y \in Hd(v) .. Hd(v) + 1 + n : x # Mod(y))
                   => Cleared(q, h, n)[Base(q) + x] = mem[Base(q) + x]
           /\ ~Torn(h, n) =>
                 \A y \in Hd(v) .. Hd(v) + 1 + n : Cleared(q, h, n)[Base(q) + Mod(y)] = 0
<1>1. L \in Nat /\ L >= 5 /\ n \in Nat /\ n <= L /\ q \in Nat /\ q # q + 1
  BY QueueFacts
<1>2. PICK w \in Nat : w = Hd(v) /\ (w <= L - 2 \/ w >= L) /\ w <= 2 * L - 3
  <2>1. Hd(v) \in Nat /\ (Hd(v) <= L - 2 \/ Hd(v) >= L) /\ Hd(v) <= 2 * L - 3
    BY <1>1 DEF Hd
  <2>2. QED
    BY <2>1
<1>3. h = Mod(w)
  BY <1>1, <1>2, Unwrapped
<1>4. h \in 0 .. L - 2 /\ h \in Nat
  BY <1>1, <1>2, <1>3 DEF Mod
<1>5. w + 2 + n <= 2 * L - 1
  BY <1>2
<1>6. ASSUME NEW x \in 0 .. L - 1, \A y \in w .. w + 1 + n : x # Mod(y)
      PROVE  Cleared(q, h, n)[Base(q) + x] = mem[Base(q) + x]
  <2>1. x \in Nat /\ x < L
    BY <1>1
  <2>2. ASSUME ~Torn(h, n), h <= x, x < h + 2 + n
        PROVE  FALSE
    <3>1. h + 2 + n <= L
      BY <1>1, <1>4, <2>2 DEF Torn
    <3>2. CASE w < L
      <4>1. x \in w .. w + 1 + n /\ Mod(x) = x
        BY <1>1, <1>3, <2>1, <2>2, <3>2 DEF Mod
      <4>2. QED
        BY <1>6, <4>1
    <3>3. CASE w >= L
      <4>1. x + L \in w .. w + 1 + n /\ Mod(x + L) = x
        BY <1>1, <1>3, <2>1, <2>2, <3>3 DEF Mod
      <4>2. QED
        BY <1>6, <4>1
    <3>4. QED
      BY <1>1, <3>2, <3>3
  <2>3. ASSUME Torn(h, n), h + 2 <= x \/ x < h + 2 + n - L
        PROVE  FALSE
    <3>1. h + 2 + n > L
      BY <1>1, <1>4, <2>3 DEF Torn
    <3>2. w < L /\ h = w
      BY <1>1, <1>3, <1>5, <3>1 DEF Mod
    <3>3. CASE h + 2 <= x
      <4>1. x \in w .. w + 1 + n /\ Mod(x) = x
        BY <1>1, <2>1, <3>1, <3>2, <3>3 DEF Mod
      <4>2. QED
        BY <1>6, <4>1
    <3>4. CASE x < h + 2 + n - L
      <4>1. x + L \in w .. w + 1 + n /\ Mod(x + L) = x
        BY <1>1, <2>1, <3>1, <3>2, <3>4 DEF Mod
      <4>2. QED
        BY <1>6, <4>1
    <3>5. QED
      BY <2>3, <3>3, <3>4
  <2>4. QED
    BY <1>1, <1>4, <2>2, <2>3, ClearsAt
<1>7. ASSUME ~Torn(h, n), NEW y \in w .. w + 1 + n
      PROVE  Cleared(q, h, n)[Base(q) + Mod(y)] = 0
  <2>1. h + 2 + n <= L
    BY <1>1, <1>4, <1>7 DEF Torn
  <2>2. h <= Mod(y) /\ Mod(y) < h + 2 + n /\ Mod(y) \in 0 .. L - 1
    BY <1>1, <1>2, <1>3, <1>5, <2>1 DEF Mod
  <2>3. QED
    BY <1>4, <1>7, <2>2, ClearsAt
<1>8. QED
  BY <1>2, <1>6, <1>7

\* Sending writes the message, and no other word of any buffer.
LEMMA SendWrites ==
    ASSUME NEW q \in Queue, NEW m \in Message, NEW v \in Nat, v <= 2 * L - 3,
           Hd(v) + 2 + m.len <= 2 * L - 1, NEW h, h = HeaderAt(Pos(v)),
           NEW N, N = Written(q, h, m)
    PROVE  /\ N[Base(q) + Mod(Hd(v))] = SIGN
           /\ N[Base(q) + Mod(Hd(v) + 1)] = m.len
           /\ \A k \in 1 .. m.len : N[Base(q) + Mod(Hd(v) + 1 + k)] = Word(m.tag, k)
           /\ \A p \in Queue, x \in 0 .. L - 1 :
                 (p = q => \A y \in Hd(v) .. Hd(v) + 1 + m.len : x # Mod(y))
                   => N[Base(p) + x] = mem[Base(p) + x]
<1>1. L \in Nat /\ L >= 5 /\ m.len \in 1 .. L - 4 /\ m.len \in Nat /\ Base(q) \in Nat
  BY QueueFacts, InAddress
<1>2. PICK l \in Nat : l = m.len /\ l <= L - 4
  BY <1>1
<1>3. PICK w \in Nat : w = Hd(v)
  BY <1>1 DEF Hd
<1>4. w + 2 + l <= 2 * L - 1
  BY <1>2, <1>3
<1>5. /\ h = Mod(w) /\ h + 1 = Mod(w + 1)
      /\ \A k \in 1 .. l : TextAt(h, k) = Mod(w + 1 + k)
  BY <1>2, <1>3, <1>4, Unwrapped
<1>6. \A y \in w .. w + 1 + l : y \in 0 .. 2 * L - 1 /\ Mod(y) \in 0 .. L - 1
  BY <1>1, <1>4, ModRange
<1>7. /\ w \in w .. w + 1 + l /\ w + 1 \in w .. w + 1 + l
      /\ \A k \in 1 .. l : w + 1 + k \in w .. w + 1 + l
  OBVIOUS
<1>8. \A y, z \in w .. w + 1 + l : y # z => Mod(y) # Mod(z)
  <2>1. SUFFICES ASSUME NEW y \in w .. w + 1 + l, NEW z \in w .. w + 1 + l, y # z
                 PROVE  Mod(y) # Mod(z)
    OBVIOUS
  <2>2. y < z + L /\ z < y + L
    BY <1>1, <1>2
  <2>3. QED
    BY <1>6, <2>1, <2>2, ModApart
<1>9. h \in Nat /\ Base(q) + h + 1 = Base(q) + (h + 1)
  <2>1. Mod(w) \in 0 .. L - 1
    BY <1>6, <1>7
  <2>2. h \in Nat
    BY <1>1, <1>5, <2>1
  <2>3. QED
    BY <1>1, <2>2
<1>10. ASSUME NEW x \in Address
       PROVE  /\ x = Base(q) + Mod(w) => N[x] = SIGN
              /\ x # Base(q) + Mod(w) /\ x = Base(q) + Mod(w + 1) => N[x] = m.len
              /\ x # Base(q) + Mod(w) /\ x # Base(q) + Mod(w + 1) =>
                    \/ \E k \in 1 .. l : x = Base(q) + Mod(w + 1 + k)
                                         /\ N[x] = Word(m.tag, k)
                    \/ (\A k \in 1 .. l : x # Base(q) + Mod(w + 1 + k)) /\ N[x] = mem[x]
  <2>1. N[x] = IF x = Base(q) + h THEN SIGN
               ELSE IF x = Base(q) + h + 1 THEN m.len
               ELSE IF \E k \in 1 .. l : x = Base(q) + TextAt(h, k)
               THEN Word(m.tag, CHOOSE k \in 1 .. l : x = Base(q) + TextAt(h, k))
               ELSE mem[x]
    BY <1>2 DEF Written
  <2>2. Base(q) + h = Base(q) + Mod(w) /\ Base(q) + h + 1 = Base(q) + Mod(w + 1)
    BY <1>5, <1>9
  <2>3. ASSUME x # Base(q) + Mod(w), x # Base(q) + Mod(w + 1),
               \E k \in 1 .. l : x = Base(q) + TextAt(h, k)
        PROVE  \E k \in 1 .. l : x = Base(q) + Mod(w + 1 + k) /\ N[x] = Word(m.tag, k)
    <3>1. PICK k : k = CHOOSE j \in 1 .. l : x = Base(q) + TextAt(h, j)
      OBVIOUS
    <3>2. k \in 1 .. l /\ x = Base(q) + TextAt(h, k)
      BY <2>3, <3>1
    <3>3. N[x] = Word(m.tag, k)
      BY <2>1, <2>2, <2>3, <3>1
    <3>4. x = Base(q) + Mod(w + 1 + k)
      BY <1>5, <3>2
    <3>5. QED
      BY <3>2, <3>3, <3>4
  <2>4. ASSUME x # Base(q) + Mod(w), x # Base(q) + Mod(w + 1),
               ~ \E k \in 1 .. l : x = Base(q) + TextAt(h, k)
        PROVE  (\A k \in 1 .. l : x # Base(q) + Mod(w + 1 + k)) /\ N[x] = mem[x]
    <3>1. N[x] = mem[x]
      BY <2>1, <2>2, <2>4
    <3>2. QED
      BY <1>5, <2>4, <3>1
  <2>5. x = Base(q) + Mod(w) => N[x] = SIGN
    BY <2>1, <2>2
  <2>6. x # Base(q) + Mod(w) /\ x = Base(q) + Mod(w + 1) => N[x] = m.len
    BY <2>1, <2>2
  <2>7. QED
    BY <2>3, <2>4, <2>5, <2>6
<1>11. \A x \in 0 .. L - 1 : \A p \in Queue : Base(p) + x \in Address
  BY <1>1, InAddress
<1>12. \A y, z \in w .. w + 1 + l : y # z => Base(q) + Mod(y) # Base(q) + Mod(z)
  <2>1. \A y \in w .. w + 1 + l : Mod(y) \in Nat
    BY <1>1, <1>6
  <2>2. QED
    BY <1>1, <1>8, <2>1
<1>13. N[Base(q) + Mod(w)] = SIGN
  BY <1>6, <1>7, <1>10, <1>11
<1>14. N[Base(q) + Mod(w + 1)] = m.len
  <2>1. w # w + 1
    OBVIOUS
  <2>2. Base(q) + Mod(w + 1) # Base(q) + Mod(w)
    BY <1>7, <1>12, <2>1
  <2>3. QED
    BY <1>6, <1>7, <1>10, <1>11, <2>2
<1>15. ASSUME NEW k \in 1 .. l
       PROVE  N[Base(q) + Mod(w + 1 + k)] = Word(m.tag, k)
  <2>1. w + 1 + k \in w .. w + 1 + l /\ w + 1 + k # w /\ w + 1 + k # w + 1
        /\ \A j \in 1 .. l : w + 1 + j = w + 1 + k => j = k
    OBVIOUS
  <2>2. PICK a : a = Base(q) + Mod(w + 1 + k)
    OBVIOUS
  <2>3. a # Base(q) + Mod(w) /\ a # Base(q) + Mod(w + 1)
    BY <1>7, <1>12, <2>1, <2>2
  <2>4. \A j \in 1 .. l : a = Base(q) + Mod(w + 1 + j) => j = k
    BY <1>7, <1>12, <2>1, <2>2
  <2>5. a \in Address
    BY <1>6, <1>7, <1>11, <2>2
  <2>6. \E j \in 1 .. l : a = Base(q) + Mod(w + 1 + j) /\ N[a] = Word(m.tag, j)
    BY <1>10, <2>2, <2>3, <2>5
  <2>7. QED
    BY <2>2, <2>4, <2>6
<1>16. ASSUME NEW p \in Queue, NEW x \in 0 .. L - 1,
              p = q => \A y \in w .. w + 1 + l : x # Mod(y)
       PROVE  N[Base(p) + x] = mem[Base(p) + x]
  <2>1. ASSUME NEW y \in w .. w + 1 + l
        PROVE  Base(p) + x # Base(q) + Mod(y)
    <3>1. SUFFICES ASSUME Base(p) + x = Base(q) + Mod(y)
                   PROVE  FALSE
      OBVIOUS
    <3>2. Mod(y) \in 0 .. L - 1
      BY <1>6
    <3>3. Mod(y) \in 0 .. L + 1 /\ Mod(y) # x + L
      BY <1>1, <3>2
    <3>4. p = q /\ x = Mod(y)
      BY <3>1, <3>3, Apart
    <3>5. QED
      BY <1>16, <3>4
  <2>2. QED
    BY <1>7, <1>10, <1>11, <2>1
<1>17. QED
  BY <1>2, <1>3, <1>13, <1>14, <1>15, <1>16

-----------------------------------------------------------------------------
(* The inductive invariant: as long as memory and history have not parted,  *)
(* the messages of a queue lie from ptail, or from the message behind the   *)
(* one just received, to phead, and before a text was torn there is nothing *)
(* else in the buffer.  Before that, a waiting receiver waits at an empty   *)
(* buffer, a woken one has a message, and a copying one has found the first.*)

Placed(B, M, c, t, h, f, received, torn) ==
    \E u : /\ Lay(B, M, c, t, h, u)
           /\ f = Pos(u[1])
           /\ ~received => u[1] = t
           /\ ~torn => Clean(B, M, c, u)

LaidOut(q) == Placed(Base(q), mem, chan[q], ptail[q], phead[q], Front(q),
                     rcv[q].st = "copied", split)

Blank(q) == \A x \in 0 .. L - 1 : mem[Base(q) + x] = 0

Quiet(q) ==
    /\ ~valid[q] => Blank(q)
    /\ rcv[q].st = "pend" => chan[q] = << >>
    /\ rcv[q].st = "woken" => chan[q] # << >>
    /\ rcv[q].st = "copying" => /\ chan[q] # << >>
                                /\ Head(chan[q]).len = rcv[q].found
                                /\ rcv[q].found <= rcv[q].len

QueueInv(q) ==
    /\ rcv[q] # Idle => valid[q]
    /\ lost[q] => split
    /\ valid[q] /\ ~lost[q] => LaidOut(q)
    /\ ~split => Quiet(q)

RingInv == TypeOK /\ \A q \in Queue : QueueInv(q)

\* The words of queue p that a step leaves alone, or that hold no message.
Spared(p, x) == mem'[Base(p) + x] = mem[Base(p) + x]
                \/ (split' /\ Base(p) + x \notin InUse(p))

LEMMA PlacedFront ==
    ASSUME TypeOK, NEW q \in Queue, LaidOut(q)
    PROVE  \E u : /\ Lay(Base(q), mem, chan[q], ptail[q], phead[q], u)
                  /\ Front(q) = Pos(u[1])
                  /\ rcv[q].st # "copied" => u[1] = ptail[q]
                  /\ ~split => Clean(Base(q), mem, chan[q], u)
                  /\ InUse(q) = {Base(q) + x : x \in Words(chan[q], u)}
                  /\ Words(chan[q], u) \subseteq 0 .. L - 1
<1>1. PICK u : /\ Lay(Base(q), mem, chan[q], ptail[q], phead[q], u)
               /\ Front(q) = Pos(u[1])
               /\ rcv[q].st # "copied" => u[1] = ptail[q]
               /\ ~split => Clean(Base(q), mem, chan[q], u)
  BY DEF LaidOut, Placed
<1>2. chan[q] \in Seq(Message) /\ ptail[q] \in 0 .. L
  BY DEF TypeOK
<1>3. InUse(q) = {Base(q) + x : x \in Words(chan[q], u)}
  BY <1>1, <1>2, LayInUse
<1>4. Words(chan[q], u) \subseteq 0 .. L - 1
  BY <1>1, <1>2, WordsRange
<1>5. QED
  BY <1>1, <1>3, <1>4

\* A step that spares the words of the messages leaves them laid out.
LEMMA KeptLayout ==
    ASSUME TypeOK, NEW p \in Queue, LaidOut(p), split \in BOOLEAN, split => split',
           chan'[p] = chan[p], ptail'[p] = ptail[p], phead'[p] = phead[p],
           Front(p)' = Front(p), rcv'[p].st = "copied" <=> rcv[p].st = "copied",
           \A x \in 0 .. L - 1 : Spared(p, x)
    PROVE  LaidOut(p)'
<1>1. PICK u : /\ Lay(Base(p), mem, chan[p], ptail[p], phead[p], u)
               /\ Front(p) = Pos(u[1])
               /\ rcv[p].st # "copied" => u[1] = ptail[p]
               /\ ~split => Clean(Base(p), mem, chan[p], u)
               /\ InUse(p) = {Base(p) + x : x \in Words(chan[p], u)}
               /\ Words(chan[p], u) \subseteq 0 .. L - 1
  BY PlacedFront
<1>2. chan[p] \in Seq(Message) /\ ptail[p] \in 0 .. L
  BY DEF TypeOK
<1>3. \A x \in Words(chan[p], u) : mem'[Base(p) + x] = mem[Base(p) + x]
  BY <1>1 DEF Spared
<1>4. Lay(Base(p), mem', chan[p], ptail[p], phead[p], u)
  BY <1>1, <1>2, <1>3, LaySame
<1>5. ASSUME ~split'
      PROVE  Clean(Base(p), mem', chan[p], u)
  <2>1. \A x \in 0 .. L - 1 : mem'[Base(p) + x] = mem[Base(p) + x]
    BY <1>5 DEF Spared
  <2>2. Clean(Base(p), mem, chan[p], u)
    BY <1>1, <1>5
  <2>3. QED
    BY <2>1, <2>2 DEF Clean
<1>6. Placed(Base(p), mem', chan[p], ptail[p], phead[p], Front(p),
             rcv[p].st = "copied", split')
  BY <1>1, <1>4, <1>5 DEF Placed
<1>7. QED
  BY <1>6 DEF LaidOut

\* A step that does not touch a queue.
LEMMA Kept ==
    ASSUME TypeOK, NEW p \in Queue, QueueInv(p), split => split',
           valid'[p] = valid[p], lost'[p] = lost[p], rcv'[p] = rcv[p],
           chan'[p] = chan[p], ptail'[p] = ptail[p], phead'[p] = phead[p],
           \A x \in 0 .. L - 1 : mem'[Base(p) + x] = mem[Base(p) + x]
    PROVE  QueueInv(p)'
<1>1. split \in BOOLEAN
  BY DEF TypeOK
<1>2. Front(p)' = Front(p)
  BY DEF Front
<1>3. valid[p] /\ ~lost[p] => LaidOut(p)'
  <2>1. SUFFICES ASSUME valid[p] /\ ~lost[p]
                 PROVE  LaidOut(p)'
    OBVIOUS
  <2>2. LaidOut(p)
    BY <2>1 DEF QueueInv
  <2>3. QED
    BY <1>1, <1>2, <2>2, KeptLayout DEF Spared
<1>4. ~split' => Quiet(p)'
  <2>1. ~split' => Quiet(p)
    BY DEF QueueInv
  <2>2. Quiet(p) => Quiet(p)'
    BY DEF Quiet, Blank, Base
  <2>3. QED
    BY <2>1, <2>2
<1>5. QED
  BY <1>3, <1>4 DEF QueueInv

LEMMA RingStart == Init => RingInv
<1> SUFFICES ASSUME Init
             PROVE  RingInv
  OBVIOUS
<1>1. ASSUME NEW q \in Queue
      PROVE  QueueInv(q)
  <2>1. rcv[q] = Idle /\ lost[q] = FALSE /\ valid[q] = FALSE /\ mem = [a \in Address |-> 0]
    BY DEF Init
  <2>2. Idle.st = "idle"
    BY Receivers
  <2>3. Blank(q)
    BY <2>1, InAddress, QueueFacts DEF Blank
  <2>4. QED
    BY <2>1, <2>2, <2>3 DEF QueueInv, Quiet
<1>2. QED
  BY <1>1, TypeStart DEF RingInv

LEMMA CreateKeeps ==
    ASSUME RingInv, msg_create
    PROVE  \A p \in Queue : QueueInv(p)'
<1>1. PICK q \in Queue :
           /\ ~valid[q]
           /\ valid' = [valid EXCEPT ![q] = TRUE]
           /\ phead' = [phead EXCEPT ![q] = 0]
           /\ ptail' = [ptail EXCEPT ![q] = 0]
           /\ chan' = [chan EXCEPT ![q] = << >>]
           /\ lost' = [lost EXCEPT ![q] = FALSE]
           /\ UNCHANGED <<mem, rcv, split>>
  BY DEF msg_create
<1>2. ASSUME NEW p \in Queue, p # q
      PROVE  QueueInv(p)'
  <2>1. /\ valid'[p] = valid[p] /\ lost'[p] = lost[p] /\ rcv'[p] = rcv[p]
        /\ chan'[p] = chan[p] /\ ptail'[p] = ptail[p] /\ phead'[p] = phead[p]
        /\ mem' = mem /\ split' = split
    BY <1>1, <1>2 DEF RingInv, TypeOK
  <2>2. QED
    BY <2>1, Kept DEF RingInv
<1>3. QueueInv(q)'
  <2>1. /\ valid'[q] = TRUE /\ lost'[q] = FALSE /\ rcv'[q] = rcv[q]
        /\ chan'[q] = << >> /\ ptail'[q] = 0 /\ phead'[q] = 0
        /\ mem' = mem /\ split' = split
    BY <1>1 DEF RingInv, TypeOK
  <2>2. rcv[q] = Idle /\ Idle.st = "idle"
    BY <1>1, Receivers DEF RingInv, QueueInv
  <2>3. L \in Nat /\ L >= 5 /\ 0 \in Nat
    BY QueueFacts
  <2>4. PICK u : u = [i \in 1 .. 1 |-> 0]
    OBVIOUS
  <2>5. u[1] = 0 /\ u \in [1 .. 1 -> Nat]
    BY <2>4
  <2>6. Lay(Base(q), mem', << >>, 0, 0, u)
    <3>1. Len(<< >>) = 0 /\ Pos(0) = 0
      BY <2>3 DEF Pos
    <3>2. u \in [1 .. Len(<< >>) + 1 -> Nat] /\ u[Len(<< >>) + 1] = 0
      BY <2>5, <3>1
    <3>3. QED
      BY <2>3, <2>5, <3>1, <3>2 DEF Lay
  <2>7. ~split => Clean(Base(q), mem', << >>, u)
    <3>1. ~split => Blank(q)
      BY <1>1 DEF RingInv, QueueInv, Quiet
    <3>2. QED
      BY <2>1, <3>1 DEF Clean, Blank
  <2>8. Pos(u[1]) = 0
    BY <2>3, <2>5 DEF Pos
  <2>9. Placed(Base(q), mem', << >>, 0, 0, 0, FALSE, split)
    BY <2>5, <2>6, <2>7, <2>8 DEF Placed
  <2>10. Front(q)' = 0 /\ (rcv'[q].st = "copied") = FALSE
    BY <2>1, <2>2 DEF Front
  <2>11. LaidOut(q)'
    BY <2>1, <2>9, <2>10 DEF LaidOut, Base
  <2>12. Quiet(q)'
    BY <2>1, <2>2 DEF Quiet
  <2>13. QED
    BY <2>1, <2>11, <2>12 DEF QueueInv
<1>4. QED
  BY <1>2, <1>3

LEMMA DeleteKeeps ==
    ASSUME RingInv, NEW q \in Queue, msg_delete(q)
    PROVE  \A p \in Queue : QueueInv(p)'
<1>1. /\ valid[q] /\ rcv[q] = Idle
      /\ valid' = [valid EXCEPT ![q] = FALSE]
      /\ chan' = [chan EXCEPT ![q] = << >>]
      /\ split' = (split \/ chan[q] # << >>)
      /\ UNCHANGED <<phead, ptail, mem, rcv, lost>>
  BY DEF msg_delete
<1>2. ASSUME NEW p \in Queue, p # q
      PROVE  QueueInv(p)'
  <2>1. /\ valid'[p] = valid[p] /\ lost'[p] = lost[p] /\ rcv'[p] = rcv[p]
        /\ chan'[p] = chan[p] /\ ptail'[p] = ptail[p] /\ phead'[p] = phead[p]
        /\ mem' = mem /\ (split => split')
    BY <1>1, <1>2 DEF RingInv, TypeOK
  <2>2. QED
    BY <2>1, Kept DEF RingInv
<1>3. QueueInv(q)'
  <2>1. /\ valid'[q] = FALSE /\ lost'[q] = lost[q] /\ rcv'[q] = Idle
        /\ mem' = mem /\ Idle.st = "idle"
    BY <1>1, Receivers DEF RingInv, TypeOK
  <2>2. ASSUME ~split'
        PROVE  Blank(q)
    <3>1. ~split /\ chan[q] = << >> /\ ~lost[q]
      BY <1>1, <2>2 DEF RingInv, QueueInv
    <3>2. LaidOut(q)
      BY <1>1, <3>1 DEF RingInv, QueueInv
    <3>3. PICK u : Clean(Base(q), mem, << >>, u)
      BY <3>1, <3>2 DEF LaidOut, Placed
    <3>4. \A x : x \notin Words(<< >>, u)
      BY WordsAre
    <3>5. QED
      BY <3>3, <3>4 DEF Clean, Blank
  <2>3. ~split' => Quiet(q)'
    BY <2>1, <2>2 DEF Quiet, Blank, Base
  <2>4. lost[q] => split'
    BY <1>1 DEF RingInv, QueueInv
  <2>5. QED
    BY <2>1, <2>3, <2>4 DEF QueueInv
<1>4. QED
  BY <1>2, <1>3

\* A message that msg_send accepts lies behind the others, and covers none.
LEMMA SendLays ==
    ASSUME TypeOK, NEW q \in Queue, NEW m \in Message, msg_send(q, m), LaidOut(q), ~lost[q]
    PROVE  LaidOut(q)'
<1> DEFINE c == chan[q]
           n == Len(c)
           t == ptail[q]
<1>1. /\ mem' = Written(q, HeaderAt(phead[q]), m)
      /\ phead'[q] = EndOf(HeaderAt(phead[q]), m.len)
      /\ chan'[q] = Append(c, m) /\ ptail' = ptail /\ split' = split
      /\ msg_buf_avail(q) >= m.len + 4
      /\ rcv' = [rcv EXCEPT ![q] = Wake(rcv[q])]
  BY DEF msg_send, TypeOK
<1>2. c \in Seq(Message) /\ t \in 0 .. L /\ phead[q] \in 0 .. L /\ rcv[q] \in Receiver
  BY DEF TypeOK
<1>3. L \in Nat /\ L >= 5 /\ m.len \in Nat /\ t \in Nat /\ t <= L /\ m.len \in 1 .. L - 4
  BY <1>2, QueueFacts
<1>4. PICK u : /\ Lay(Base(q), mem, c, t, phead[q], u)
               /\ Front(q) = Pos(u[1])
               /\ rcv[q].st # "copied" => u[1] = t
               /\ ~split => Clean(Base(q), mem, c, u)
  BY <1>2, PlacedFront
<1>5. PICK v \in Nat : v = u[n + 1]
  <2>1. n + 1 \in 1 .. n + 1
    BY <1>2, <1>4, LayBounds
  <2>2. QED
    BY <1>2, <1>4, <2>1, LayBounds
<1>6. t <= v /\ v <= t + L - 1 /\ phead[q] = Pos(v)
  <2>1. n + 1 \in 1 .. n + 1
    BY <1>2, <1>4, LayBounds
  <2>2. t <= v
    BY <1>2, <1>4, <1>5, <2>1, LayBounds
  <2>3. QED
    BY <1>4, <1>5, <2>2 DEF Lay
<1>7. v + m.len + 4 <= t + L
  <2>1. msg_buf_avail(q) = L - (v - t)
    BY <1>3, <1>6 DEF msg_buf_avail, Pos
  <2>2. QED
    BY <1>1, <1>3, <2>1
<1>8. v <= 2 * L - 3 /\ Hd(v) \in Nat /\ v <= Hd(v) /\ Hd(v) <= v + 1
  BY <1>3, <1>7 DEF Hd
<1>9. Hd(v) + 2 + m.len <= 2 * L - 1 /\ Hd(v) + 2 + m.len <= t + L - 1
  BY <1>3, <1>7, <1>8
<1>10. /\ mem'[Base(q) + Mod(Hd(v))] = SIGN
       /\ mem'[Base(q) + Mod(Hd(v) + 1)] = m.len
       /\ \A k \in 1 .. m.len : mem'[Base(q) + Mod(Hd(v) + 1 + k)] = Word(m.tag, k)
       /\ \A x \in 0 .. L - 1 :
             (\A y \in Hd(v) .. Hd(v) + 1 + m.len : x # Mod(y))
               => mem'[Base(q) + x] = mem[Base(q) + x]
  BY <1>1, <1>6, <1>8, <1>9, SendWrites
<1>11. phead'[q] = Pos(Hd(v) + 2 + m.len)
  BY <1>1, <1>3, <1>6, <1>8, <1>9, Unwrapped
<1>12. ASSUME NEW x \in Words(c, u)
       PROVE  mem'[Base(q) + x] = mem[Base(q) + x]
  <2>1. PICK i \in 1 .. n : \E y \in Hd(u[i]) .. u[i + 1] - 1 : x = Mod(y)
    BY WordsAre
  <2>2. PICK y \in Hd(u[i]) .. u[i + 1] - 1 : x = Mod(y)
    BY <2>1
  <2>3. y \in 0 .. 2 * L - 1 /\ y \in u[1] .. v - 1 /\ x \in 0 .. L - 1
    BY <1>2, <1>4, <1>5, <2>2, WordsRange
  <2>4. t <= u[1] /\ u[1] \in Nat
    <3>1. 1 \in 1 .. n + 1
      BY <1>2, <1>4, LayBounds
    <3>2. QED
      BY <1>2, <1>4, <3>1, LayBounds
  <2>5. y \in Nat /\ t <= y /\ y < v
    BY <1>3, <2>3, <2>4
  <2>6. ASSUME NEW z \in Hd(v) .. Hd(v) + 1 + m.len
        PROVE  x # Mod(z)
    <3>1. z \in Nat /\ v <= z /\ z <= Hd(v) + 1 + m.len
      BY <1>3, <1>8
    <3>2. z < t + L /\ z \in 0 .. 2 * L - 1
      <4>1. \A a, b, d, e, f \in Nat : a <= b + 1 + d /\ b + 2 + d <= e + f - 1 /\ e <= f
              => a < e + f /\ a \in 0 .. 2 * f - 1
        OBVIOUS
      <4>2. QED
        BY <1>3, <1>8, <1>9, <3>1, <4>1
    <3>3. y # z /\ y < z + L /\ z < y + L
      BY <1>3, <2>5, <3>1, <3>2
    <3>4. QED
      BY <2>2, <2>3, <3>2, <3>3, ModApart
  <2>7. QED
    BY <1>10, <2>3, <2>6
<1>13. Lay(Base(q), mem', c, t, phead[q], u)
  BY <1>2, <1>4, <1>12, LaySame
<1>14. PICK w : /\ Lay(Base(q), mem', Append(c, m), t, Pos(Hd(v) + 2 + m.len), w)
                /\ w[1] = u[1]
                /\ Words(Append(c, m), w) =
                      Words(c, u) \cup {Mod(y) : y \in Hd(v) .. Hd(v) + 1 + m.len}
  <2>1. v = u[Len(c) + 1] /\ Fits(t, v, m) /\ Put(Base(q), mem', v, m)
    BY <1>5, <1>7, <1>10 DEF Fits, Put
  <2>2. Longer(Base(q), mem', c, t, u, v, m)
    BY <1>2, <1>13, <2>1, LayAppend
  <2>3. QED
    BY <2>2 DEF Longer
<1>15. ASSUME ~split
       PROVE  Clean(Base(q), mem', Append(c, m), w)
  <2>1. Clean(Base(q), mem, c, u)
    BY <1>4, <1>15
  <2>2. ASSUME NEW x \in 0 .. L - 1, mem'[Base(q) + x] # 0
        PROVE  x \in Words(Append(c, m), w)
    <3>1. CASE \A y \in Hd(v) .. Hd(v) + 1 + m.len : x # Mod(y)
      <4>1. mem[Base(q) + x] # 0
        BY <1>10, <2>2, <3>1
      <4>2. QED
        BY <1>14, <2>1, <4>1 DEF Clean
    <3>2. CASE ~ \A y \in Hd(v) .. Hd(v) + 1 + m.len : x # Mod(y)
      BY <1>14, <3>2
    <3>3. QED
      BY <3>1, <3>2
  <2>3. QED
    BY <2>2 DEF Clean
<1>16. rcv'[q] = Wake(rcv[q]) /\ rcv \in [Queue -> Receiver]
  BY <1>1 DEF TypeOK
<1>17. /\ rcv'[q].st = "copied" <=> rcv[q].st = "copied"
       /\ rcv[q].st = "copied" => rcv'[q] = rcv[q]
  BY <1>2, <1>16, Receivers DEF Wake
<1>18. Front(q)' = Front(q)
  BY <1>1, <1>17 DEF Front
<1>19. Placed(Base(q), mem', Append(c, m), t, Pos(Hd(v) + 2 + m.len), Front(q),
              rcv[q].st = "copied", split)
  BY <1>4, <1>14, <1>15 DEF Placed
<1>20. QED
  BY <1>1, <1>11, <1>17, <1>18, <1>19 DEF LaidOut, Base

LEMMA SendKeeps ==
    ASSUME RingInv, NEW q \in Queue, NEW m \in Message, msg_send(q, m)
    PROVE  \A p \in Queue : QueueInv(p)'
<1>1. /\ mem' = Written(q, HeaderAt(phead[q]), m)
      /\ phead' = [phead EXCEPT ![q] = EndOf(HeaderAt(phead[q]), m.len)]
      /\ rcv' = [rcv EXCEPT ![q] = Wake(@)]
      /\ chan' = [chan EXCEPT ![q] = IF lost[q] THEN @ ELSE Append(@, m)]
      /\ valid[q]
      /\ UNCHANGED <<valid, ptail, lost, split>>
  BY DEF msg_send
<1>2. TypeOK
  BY DEF RingInv
<1>3. ASSUME NEW p \in Queue, p # q, NEW x \in 0 .. L - 1
      PROVE  mem'[Base(p) + x] = mem[Base(p) + x]
  <2>1. phead[q] \in 0 .. L /\ L \in Nat /\ L >= 5 /\ phead[q] \in Nat
        /\ m.len \in 1 .. L - 4 /\ m.len \in Nat
    BY <1>2, QueueFacts DEF TypeOK
  <2>2. PICK v \in Nat : v = IF phead[q] <= L - 2 THEN phead[q] ELSE 0
    BY <2>1
  <2>3. HeaderAt(Pos(v)) = HeaderAt(phead[q]) /\ Hd(v) = v /\ v <= L - 2
    BY <2>1, <2>2 DEF HeaderAt, Pos, Hd
  <2>4. v <= 2 * L - 3 /\ Hd(v) + 2 + m.len <= 2 * L - 1
    BY <2>1, <2>3
  <2>5. QED
    BY <1>1, <1>3, <2>3, <2>4, SendWrites
<1>4. ASSUME NEW p \in Queue, p # q
      PROVE  QueueInv(p)'
  <2>1. /\ valid'[p] = valid[p] /\ lost'[p] = lost[p] /\ rcv'[p] = rcv[p]
        /\ chan'[p] = chan[p] /\ ptail'[p] = ptail[p] /\ phead'[p] = phead[p]
        /\ split' = split
    BY <1>1, <1>2, <1>4 DEF TypeOK
  <2>2. QED
    BY <1>2, <1>3, <1>4, <2>1, Kept DEF RingInv
<1>5. QueueInv(q)'
  <2>1. /\ valid'[q] = TRUE /\ lost'[q] = lost[q] /\ split' = split
        /\ rcv'[q] = Wake(rcv[q]) /\ rcv[q] \in Receiver
        /\ chan[q] \in Seq(Message)
    BY <1>1, <1>2 DEF TypeOK
  <2>2. ~lost[q] => LaidOut(q)'
    BY <1>1, <1>2, SendLays DEF RingInv, QueueInv
  <2>3. lost'[q] => split'
    BY <2>1 DEF RingInv, QueueInv
  <2>4. ASSUME ~split
        PROVE  Quiet(q)'
    <3>1. Quiet(q) /\ ~lost[q]
      BY <2>4 DEF RingInv, QueueInv
    <3>2. chan'[q] = Append(chan[q], m)
      BY <1>1, <1>2, <3>1 DEF TypeOK
    <3>3. chan'[q] # << >> /\ (chan[q] # << >> => Head(chan'[q]) = Head(chan[q]))
      BY <2>1, <3>2
    <3>4. /\ rcv'[q].st # "pend"
          /\ rcv'[q].st = "copying" => rcv'[q] = rcv[q]
      BY <2>1, Receivers DEF Wake
    <3>5. QED
      BY <2>1, <3>1, <3>3, <3>4 DEF Quiet
  <2>5. QED
    BY <2>1, <2>2, <2>3, <2>4 DEF QueueInv
<1>6. QED
  BY <1>4, <1>5

\* The receiver finds the first message, with its length.  Until a text was
\* torn it finds nothing in a buffer without messages.
LEMMA FrontFound ==
    ASSUME TypeOK, NEW q \in Queue, LaidOut(q), rcv[q].st # "copied"
    PROVE  /\ chan[q] # << >> => Found(q) /\ FoundLen(q) = Head(chan[q]).len
           /\ chan[q] = << >> /\ ~split => ~Found(q)
<1> DEFINE c == chan[q]
           h == HeaderAt(ptail[q])
<1>1. c \in Seq(Message) /\ ptail[q] \in 0 .. L /\ L \in Nat /\ L >= 5
  BY QueueFacts DEF TypeOK
<1>2. PICK u : /\ Lay(Base(q), mem, c, ptail[q], phead[q], u)
               /\ u[1] = ptail[q]
               /\ ~split => Clean(Base(q), mem, c, u)
  BY PlacedFront
<1>3. Pos(u[1]) = ptail[q]
  <2>1. \A x \in 0 .. L : Pos(x) = x
    BY <1>1 DEF Pos
  <2>2. QED
    BY <1>1, <1>2, <2>1
<1>4. h \in 0 .. L - 2
  <2>1. 0 \in 0 .. L
    BY <1>1
  <2>2. QED
    BY <1>1, <2>1, OffsetsTyped
<1>5. ASSUME c # << >>
      PROVE  Found(q) /\ FoundLen(q) = Head(c).len
  <2>1. Head(c) = c[1] /\ 1 \in 1 .. Len(c)
    BY <1>1, <1>2, <1>5, LayBounds
  <2>2. h = Mod(Hd(u[1])) /\ h + 1 = Mod(Hd(u[1]) + 1)
    BY <1>1, <1>2, <1>3, <2>1, LayAt
  <2>3. mem[Base(q) + Mod(Hd(u[1]))] = SIGN /\ mem[Base(q) + Mod(Hd(u[1]) + 1)] = c[1].len
    BY <1>2, <2>1 DEF Lay
  <2>4. mem[Base(q) + h] = SIGN /\ mem[Base(q) + (h + 1)] = c[1].len
    BY <2>2, <2>3
  <2>5. Base(q) + h + 1 = Base(q) + (h + 1)
    BY <1>4, InAddress
  <2>6. QED
    BY <2>1, <2>4, <2>5 DEF Found, FoundLen
<1>6. ASSUME c = << >>, ~split
      PROVE  ~Found(q)
  <2>1. Clean(Base(q), mem, c, u)
    BY <1>2, <1>6
  <2>2. \A x : x \notin Words(c, u)
    BY <1>6, WordsAre
  <2>3. h \in 0 .. L - 1
    BY <1>1, <1>4
  <2>4. mem[Base(q) + h] = 0
    BY <2>1, <2>2, <2>3 DEF Clean
  <2>5. SIGN # 0
    BY SMT DEF SIGN
  <2>6. QED
    BY <2>4, <2>5 DEF Found
<1>7. QED
  BY <1>5, <1>6

\* What receiving from queue q does to the others.
LEMMA ConsumeOther ==
    ASSUME TypeOK, NEW q \in Queue, NEW p \in Queue, p # q, NEW n \in 0 .. L, Consume(q, n)
    PROVE  /\ split => split'
           /\ lost[p] => lost'[p]
           /\ lost'[p] => lost[p] \/ split'
           /\ ~lost'[p] => chan'[p] = chan[p] /\ \A x \in 0 .. L - 1 : Spared(p, x)
           /\ ~split' => /\ lost'[p] = lost[p]
                         /\ \A x \in 0 .. L - 1 : mem'[Base(p) + x] = mem[Base(p) + x]
<1> DEFINE h == HeaderAt(ptail[q])
           beyond == IF Torn(h, n) THEN {Base(q) + L, Base(q) + L + 1} ELSE {}
<1>1. /\ mem' = Cleared(q, h, n)
      /\ split' = (split \/ Torn(h, n))
      /\ lost' = [r \in Queue |-> \/ lost[r]
                                  \/ r = q /\ (chan[q] = << >> \/ Head(chan[q]).len # n)
                                  \/ r = q + 1 /\ beyond \cap InUse(r) # {}]
      /\ chan' = [r \in Queue |-> IF lost'[r] THEN << >>
                                  ELSE IF r = q THEN Tail(chan[q]) ELSE chan[r]]
  BY DEF Consume
<1>2. ptail[q] \in 0 .. L /\ L \in Nat /\ lost[p] \in BOOLEAN /\ q \in Nat
      /\ split \in BOOLEAN
  BY QueueFacts DEF TypeOK
<1>3. h \in 0 .. L - 2
  BY <1>2, OffsetsTyped
<1> HIDE DEF h, beyond
<1>4. lost'[p] = (lost[p] \/ (p = q + 1 /\ beyond \cap InUse(p) # {}))
  BY <1>1
<1>5. ~lost'[p] => chan'[p] = chan[p]
  BY <1>1
<1>6. ~Torn(h, n) => beyond = {}
  BY DEF beyond
<1>7. ASSUME NEW x \in 0 .. L - 1
      PROVE  \/ mem'[Base(p) + x] = mem[Base(p) + x]
             \/ p = q + 1 /\ Torn(h, n) /\ Base(p) + x \in beyond
  <2>1. mem'[Base(p) + x] = IF p = q + 1 /\ Torn(h, n) /\ x \in {0, 1}
                            THEN 0 ELSE mem[Base(p) + x]
    BY <1>1, <1>3, ClearsAt
  <2>2. ASSUME p = q + 1, Torn(h, n), x \in {0, 1}
        PROVE  Base(p) + x \in beyond
    <3>1. Base(p) = Base(q) + L /\ Base(q) \in Nat
      BY <1>2, <2>2, InAddress DEF Base
    <3>2. Base(p) + x = Base(q) + L \/ Base(p) + x = Base(q) + L + 1
      BY <1>2, <2>2, <3>1
    <3>3. QED
      BY <2>2, <3>2 DEF beyond
  <2>3. QED
    BY <2>1, <2>2
<1>8. ASSUME ~lost'[p], NEW x \in 0 .. L - 1
      PROVE  Spared(p, x)
  <2>1. p = q + 1 => beyond \cap InUse(p) = {}
    BY <1>2, <1>4, <1>8
  <2>2. p = q + 1 /\ Base(p) + x \in beyond => Base(p) + x \notin InUse(p)
    BY <2>1
  <2>3. Torn(h, n) => split'
    BY <1>1
  <2>4. QED
    BY <1>7, <2>2, <2>3 DEF Spared
<1>9. ~split' => ~Torn(h, n)
  BY <1>1
<1>10. QED
  BY <1>1, <1>2, <1>4, <1>5, <1>6, <1>7, <1>8, <1>9

\* Receiving the first message from queue q leaves the others laid out.
LEMMA ConsumeSelf ==
    ASSUME TypeOK, NEW q \in Queue, LaidOut(q), rcv[q].st # "copied",
           NEW n \in 0 .. L, Consume(q, n), ~lost'[q]
    PROVE  /\ chan'[q] = Tail(chan[q])
           /\ \E w : /\ Lay(Base(q), mem', Tail(chan[q]), ptail[q], phead[q], w)
                     /\ FoundEnd(q, n) = Pos(w[1])
                     /\ ~split' => Clean(Base(q), mem', Tail(chan[q]), w)
<1> DEFINE c == chan[q]
           h == HeaderAt(ptail[q])
<1>1. /\ mem' = Cleared(q, h, n)
      /\ split' = (split \/ Torn(h, n))
      /\ c # << >> /\ Head(c).len = n
      /\ chan'[q] = Tail(c)
  <2>1. c # << >> /\ Head(c).len = n
    BY DEF Consume
  <2>2. chan'[q] = IF lost'[q] THEN << >> ELSE Tail(chan[q])
    BY DEF Consume
  <2>3. QED
    BY <2>1, <2>2 DEF Consume
<1>2. c \in Seq(Message) /\ ptail[q] \in 0 .. L /\ L \in Nat /\ L >= 5
  BY QueueFacts DEF TypeOK
<1>3. PICK u : /\ Lay(Base(q), mem, c, ptail[q], phead[q], u)
               /\ u[1] = ptail[q]
               /\ ~split => Clean(Base(q), mem, c, u)
  BY PlacedFront
<1>4. Pos(u[1]) = ptail[q]
  <2>1. \A x \in 0 .. L : Pos(x) = x
    BY <1>2 DEF Pos
  <2>2. QED
    BY <1>2, <1>3, <2>1
<1>5. c[1].len = n /\ 1 \in 1 .. Len(c) /\ 1 + 1 \in 1 .. Len(c) + 1
  BY <1>1, <1>2, <1>3, LayBounds
<1>6. PICK v \in Nat : v = u[1]
  BY <1>2, <1>3
<1>7. /\ EndOf(h, n) = Pos(u[2]) /\ u[2] = Hd(v) + 2 + n
      /\ h = HeaderAt(Pos(v))
  <2>1. EndOf(HeaderAt(Pos(u[1])), c[1].len) = Pos(u[1 + 1])
        /\ u[1 + 1] = Hd(u[1]) + 2 + c[1].len
    BY <1>2, <1>3, <1>5, LayAt
  <2>2. QED
    BY <1>4, <1>5, <1>6, <2>1
<1>8. v <= 2 * L - 3 /\ Hd(v) + 2 + n <= 2 * L - 1 /\ Hd(v) \in Nat /\ n \in Nat
  <2>1. v <= L
    BY <1>2, <1>3, <1>6
  <2>2. u[1 + 1] <= 2 * L - 1
    BY <1>2, <1>3, <1>5, LayBounds
  <2>3. Hd(v) \in Nat
    BY <1>2 DEF Hd
  <2>4. QED
    BY <1>2, <1>7, <2>1, <2>2, <2>3
<1>9. /\ \A x \in 0 .. L - 1 :
            (\A y \in Hd(v) .. Hd(v) + 1 + n : x # Mod(y))
              => mem'[Base(q) + x] = mem[Base(q) + x]
      /\ ~Torn(h, n) =>
            \A y \in Hd(v) .. Hd(v) + 1 + n : mem'[Base(q) + Mod(y)] = 0
  <2>1. PICK g : g = HeaderAt(Pos(v))
    OBVIOUS
  <2>2. /\ \A x \in 0 .. L - 1 :
              (\A y \in Hd(v) .. Hd(v) + 1 + n : x # Mod(y))
                => Cleared(q, g, n)[Base(q) + x] = mem[Base(q) + x]
        /\ ~Torn(g, n) =>
              \A y \in Hd(v) .. Hd(v) + 1 + n : Cleared(q, g, n)[Base(q) + Mod(y)] = 0
    BY <1>8, <2>1, ReceiveClears
  <2>3. mem' = Cleared(q, g, n) /\ h = g
    BY <1>1, <1>7, <2>1
  <2>4. QED
    BY <2>2, <2>3
<1>10. Hd(v) .. Hd(v) + 1 + n = Hd(u[1]) .. u[2] - 1
  BY <1>6, <1>7, <1>8
<1>11. PICK w : /\ Lay(Base(q), mem, Tail(c), ptail[q], phead[q], w)
                /\ w[1] = u[2]
                /\ Words(c, u) = Words(Tail(c), w) \cup {Mod(y) : y \in Hd(u[1]) .. u[2] - 1}
                /\ \A y \in Hd(u[1]) .. u[2] - 1 : Mod(y) \notin Words(Tail(c), w)
  BY <1>1, <1>2, <1>3, LayTail
<1>12. Tail(c) \in Seq(Message)
  BY <1>1, <1>2
<1>13. Words(Tail(c), w) \subseteq 0 .. L - 1
  BY <1>2, <1>11, <1>12, WordsRange
<1>14. \A x \in Words(Tail(c), w) : mem'[Base(q) + x] = mem[Base(q) + x]
  BY <1>9, <1>10, <1>11, <1>13
<1>15. Lay(Base(q), mem', Tail(c), ptail[q], phead[q], w)
  BY <1>2, <1>11, <1>12, <1>14, LaySame
<1>16. FoundEnd(q, n) = Pos(w[1])
  BY <1>7, <1>11 DEF FoundEnd
<1>17. ASSUME ~split'
       PROVE  Clean(Base(q), mem', Tail(c), w)
  <2>1. ~Torn(h, n) /\ Clean(Base(q), mem, c, u)
    BY <1>1, <1>3, <1>17
  <2>2. ASSUME NEW x \in 0 .. L - 1, mem'[Base(q) + x] # 0
        PROVE  x \in Words(Tail(c), w)
    <3>1. \A y \in Hd(v) .. Hd(v) + 1 + n : x # Mod(y)
      BY <1>9, <2>1, <2>2
    <3>2. mem[Base(q) + x] # 0
      BY <1>9, <2>2, <3>1
    <3>3. x \in Words(c, u)
      BY <2>1, <3>2 DEF Clean
    <3>4. x \notin {Mod(y) : y \in Hd(u[1]) .. u[2] - 1}
      BY <1>10, <3>1
    <3>5. QED
      BY <1>11, <3>3, <3>4
  <2>3. QED
    BY <2>2 DEF Clean
<1>18. QED
  BY <1>1, <1>15, <1>16, <1>17

\* A queue that another receiver may have cleared words of.
LEMMA OtherKept ==
    ASSUME TypeOK, NEW p \in Queue, QueueInv(p), split => split', lost[p] => lost'[p],
           lost'[p] => lost[p] \/ split',
           ~lost'[p] => chan'[p] = chan[p] /\ \A x \in 0 .. L - 1 : Spared(p, x),
           ~split' => lost'[p] = lost[p]
                      /\ \A x \in 0 .. L - 1 : mem'[Base(p) + x] = mem[Base(p) + x],
           valid'[p] = valid[p], rcv'[p] = rcv[p], ptail'[p] = ptail[p],
           phead'[p] = phead[p]
    PROVE  QueueInv(p)'
<1>1. split \in BOOLEAN
  BY DEF TypeOK
<1>2. Front(p)' = Front(p)
  BY DEF Front
<1>3. ASSUME valid[p], ~lost'[p]
      PROVE  LaidOut(p)'
  <2>1. LaidOut(p)
    BY <1>3 DEF QueueInv
  <2>2. QED
    BY <1>1, <1>2, <1>3, <2>1, KeptLayout
<1>4. ASSUME ~split'
      PROVE  Quiet(p)'
  <2>1. Quiet(p) /\ ~lost[p]
    BY <1>4 DEF QueueInv
  <2>2. chan'[p] = chan[p] /\ \A x \in 0 .. L - 1 : mem'[Base(p) + x] = mem[Base(p) + x]
    BY <1>4, <2>1
  <2>3. QED
    BY <2>1, <2>2 DEF Quiet, Blank, Base
<1>5. QED
  BY <1>3, <1>4 DEF QueueInv

\* Memory and history part when something else is received than the first
\* message.
LEMMA ConsumeLoses ==
    ASSUME TypeOK, NEW q \in Queue, NEW n, Consume(q, n),
           ~lost[q], chan[q] # << >>, n = Head(chan[q]).len
    PROVE  ~lost'[q]
<1>1. q # q + 1
  BY QueueFacts
<1>2. QED
  BY <1>1 DEF Consume

\* The messages lie as well from where the first of them starts.
LEMMA LayMoved ==
    ASSUME NEW c \in Seq(Message), NEW t \in 0 .. L, NEW B, NEW M, NEW h, NEW u,
           Lay(B, M, c, t, h, u), NEW s, ~s => Clean(B, M, c, u),
           NEW e, e = Pos(u[1])
    PROVE  Placed(B, M, c, e, h, e, FALSE, s)
<1>1. PICK w : /\ Lay(B, M, c, Pos(u[1]), h, w)
               /\ w[1] = Pos(u[1])
               /\ Words(c, w) = Words(c, u)
  BY LayShift
<1>2. 1 \in 1 .. Len(c) + 1
  BY LayBounds
<1>3. u[1] \in Nat /\ u[1] <= 2 * L - 1
  BY <1>2, LayBounds
<1>4. Pos(u[1]) <= L
  BY <1>3, QueueFacts DEF Pos
<1>5. Pos(e) = e
  BY <1>4 DEF Pos
<1>6. ~s => Clean(B, M, c, w)
  BY <1>1 DEF Clean
<1>7. Lay(B, M, c, e, h, w) /\ w[1] = e
  BY <1>1
<1>8. QED
  BY <1>5, <1>6, <1>7 DEF Placed

LEMMA ReceiveKeeps ==
    ASSUME RingInv, NEW q \in Queue, NEW b \in BufLens, msg_rcv(q, b)
    PROVE  \A p \in Queue : QueueInv(p)'
<1>1. TypeOK /\ valid[q] /\ rcv[q] = Idle /\ Idle.st = "idle"
  BY Receivers DEF RingInv, msg_rcv
<1>2. CASE Found(q)
  <2> DEFINE n == FoundLen(q)
  <2>1. /\ Consume(q, n)
        /\ ptail' = [ptail EXCEPT ![q] = FoundEnd(q, n)]
        /\ rcv' = rcv
        /\ n <= b
    BY <1>2 DEF msg_rcv
  <2>2. n \in 0 .. L
    BY <1>1, <2>1, FoundTyped, QueueFacts
  <2>3. valid' = valid /\ phead' = phead
    BY <2>1 DEF Consume
  <2> HIDE DEF n
  <2>4. ASSUME NEW p \in Queue, p # q
        PROVE  QueueInv(p)'
    <3>1. /\ split => split'
          /\ lost[p] => lost'[p]
          /\ lost'[p] => lost[p] \/ split'
          /\ ~lost'[p] => chan'[p] = chan[p] /\ \A x \in 0 .. L - 1 : Spared(p, x)
          /\ ~split' => /\ lost'[p] = lost[p]
                        /\ \A x \in 0 .. L - 1 : mem'[Base(p) + x] = mem[Base(p) + x]
      BY <1>1, <2>1, <2>2, <2>4, ConsumeOther
    <3>2. ptail'[p] = ptail[p] /\ rcv'[p] = rcv[p] /\ phead'[p] = phead[p]
          /\ valid'[p] = valid[p]
      BY <1>1, <2>1, <2>3, <2>4 DEF TypeOK
    <3>3. QED
      BY <1>1, <3>1, <3>2, OtherKept DEF RingInv
  <2>5. QueueInv(q)'
    <3>1. ptail'[q] = FoundEnd(q, n) /\ rcv'[q] = Idle /\ phead'[q] = phead[q]
          /\ valid'[q] = valid[q]
      BY <1>1, <2>1, <2>3 DEF TypeOK
    <3>2. ASSUME ~lost'[q]
          PROVE  LaidOut(q)'
      <4>1. ~lost[q]
        BY <2>1, <3>2 DEF Consume
      <4>2. LaidOut(q) /\ rcv[q].st # "copied"
        BY <1>1, <4>1 DEF RingInv, QueueInv
      <4>3. PICK w : /\ Lay(Base(q), mem', Tail(chan[q]), ptail[q], phead[q], w)
                     /\ FoundEnd(q, n) = Pos(w[1])
                     /\ ~split' => Clean(Base(q), mem', Tail(chan[q]), w)
        BY <1>1, <2>1, <2>2, <3>2, <4>2, ConsumeSelf
      <4>4. chan'[q] = Tail(chan[q])
        BY <1>1, <2>1, <2>2, <3>2, <4>2, ConsumeSelf
      <4>5. chan[q] # << >> /\ chan[q] \in Seq(Message) /\ ptail[q] \in 0 .. L
        BY <1>1, <2>1, <3>2 DEF Consume, TypeOK
      <4>6. Tail(chan[q]) \in Seq(Message)
        BY <4>5
      <4>7. Placed(Base(q), mem', Tail(chan[q]), FoundEnd(q, n), phead[q],
                   FoundEnd(q, n), FALSE, split')
        BY <4>3, <4>5, <4>6, LayMoved
      <4>8. Front(q)' = FoundEnd(q, n) /\ (rcv'[q].st = "copied") = FALSE
        BY <1>1, <3>1 DEF Front
      <4>9. QED
        BY <3>1, <4>4, <4>7, <4>8 DEF LaidOut, Base
    <3>3. lost'[q] => split'
      <4>1. SUFFICES ASSUME ~split'
                     PROVE  ~lost'[q]
        OBVIOUS
      <4>2. ~split /\ ~lost[q]
        BY <1>1, <2>1, <4>1 DEF Consume, RingInv, QueueInv
      <4>3. LaidOut(q)
        BY <1>1, <4>2 DEF RingInv, QueueInv
      <4>4. chan[q] # << >> /\ n = Head(chan[q]).len
        BY <1>1, <1>2, <4>2, <4>3, FrontFound DEF n
      <4>5. QED
        BY <1>1, <2>1, <4>2, <4>4, ConsumeLoses
    <3>4. Quiet(q)'
      BY <1>1, <3>1 DEF Quiet
    <3>5. QED
      BY <1>1, <3>1, <3>2, <3>3, <3>4 DEF QueueInv
  <2>6. QED
    BY <2>4, <2>5
<1>3. CASE ~Found(q)
  <2>1. rcv' = [rcv EXCEPT ![q] = Waiting(b)] /\ valid' = valid /\ phead' = phead
        /\ ptail' = ptail /\ mem' = mem /\ chan' = chan /\ lost' = lost /\ split' = split
    BY <1>3 DEF msg_rcv, bufVars
  <2>2. ASSUME NEW p \in Queue, p # q
        PROVE  QueueInv(p)'
    <3>1. rcv'[p] = rcv[p]
      BY <1>1, <2>1, <2>2 DEF TypeOK
    <3>2. QED
      BY <1>1, <2>1, <3>1, Kept DEF RingInv
  <2>3. QueueInv(q)'
    <3>1. rcv'[q] = Waiting(b) /\ Waiting(b).st = "pend"
      BY <1>1, <2>1, Receivers DEF TypeOK
    <3>2. ASSUME ~lost[q]
          PROVE  LaidOut(q)'
      <4>1. LaidOut(q)
        BY <1>1, <3>2 DEF RingInv, QueueInv
      <4>2. Front(q)' = Front(q)
        BY <1>1, <2>1, <3>1 DEF Front
      <4>3. split \in BOOLEAN
        BY <1>1 DEF TypeOK
      <4>4. QED
        BY <1>1, <2>1, <3>1, <4>1, <4>2, <4>3, KeptLayout DEF Spared
    <3>3. ASSUME ~split
          PROVE  Quiet(q)'
      <4>1. ~lost[q]
        BY <3>3 DEF RingInv, QueueInv
      <4>2. LaidOut(q)
        BY <1>1, <4>1 DEF RingInv, QueueInv
      <4>3. chan[q] = << >>
        BY <1>1, <1>3, <4>2, FrontFound
      <4>4. QED
        BY <1>1, <2>1, <3>1, <4>3 DEF Quiet
    <3>4. lost[q] => split
      BY DEF RingInv, QueueInv
    <3>5. QED
      BY <1>1, <2>1, <3>2, <3>3, <3>4 DEF QueueInv
  <2>4. QED
    BY <2>2, <2>3
<1>4. QED
  BY <1>2, <1>3

LEMMA LookKeeps ==
    ASSUME RingInv, NEW q \in Queue, Look(q)
    PROVE  \A p \in Queue : QueueInv(p)'
<1>1. TypeOK /\ rcv[q] \in Receiver /\ rcv[q].st = "woken"
  BY DEF RingInv, TypeOK, Look
<1>2. /\ rcv'[q] = IF Found(q) /\ FoundLen(q) <= rcv[q].len
                   THEN Copying(rcv[q].len, FoundLen(q)) ELSE Idle
      /\ \A p \in Queue : p # q => rcv'[p] = rcv[p]
      /\ valid' = valid /\ phead' = phead /\ ptail' = ptail /\ mem' = mem
      /\ chan' = chan /\ lost' = lost /\ split' = split
  BY <1>1 DEF Look, TypeOK, bufVars
<1>3. ASSUME NEW p \in Queue, p # q
      PROVE  QueueInv(p)'
  BY <1>1, <1>2, <1>3, Kept DEF RingInv
<1>4. QueueInv(q)'
  <2>1. /\ rcv'[q].st \in {"idle", "copying"}
        /\ rcv'[q].st = "copying" => rcv'[q].found = FoundLen(q)
                                     /\ FoundLen(q) <= rcv'[q].len
    BY <1>2, Receivers
  <2>2. rcv[q] # Idle /\ valid[q]
    BY <1>1, Receivers DEF RingInv, QueueInv
  <2>3. ASSUME ~lost[q]
        PROVE  LaidOut(q)'
    <3>1. LaidOut(q)
      BY <2>2, <2>3 DEF RingInv, QueueInv
    <3>2. Front(q)' = Front(q)
      BY <1>1, <1>2, <2>1 DEF Front
    <3>3. split \in BOOLEAN /\ (rcv'[q].st = "copied" <=> rcv[q].st = "copied")
      BY <1>1, <2>1 DEF TypeOK
    <3>4. QED
      BY <1>1, <1>2, <3>1, <3>2, <3>3, KeptLayout DEF Spared
  <2>4. ASSUME ~split
        PROVE  Quiet(q)'
    <3>1. ~lost[q] /\ chan[q] # << >>
      BY <1>1, <2>4 DEF RingInv, QueueInv, Quiet
    <3>2. LaidOut(q)
      BY <2>2, <3>1 DEF RingInv, QueueInv
    <3>3. FoundLen(q) = Head(chan[q]).len
      BY <1>1, <3>1, <3>2, FrontFound
    <3>4. QED
      BY <1>2, <2>1, <2>2, <3>1, <3>3 DEF Quiet
  <2>5. lost[q] => split
    BY DEF RingInv, QueueInv
  <2>6. QED
    BY <1>2, <2>2, <2>3, <2>4, <2>5 DEF QueueInv
<1>5. QED
  BY <1>3, <1>4

LEMMA CopyKeeps ==
    ASSUME RingInv, NEW q \in Queue, Copy(q)
    PROVE  \A p \in Queue : QueueInv(p)'
<1>1. TypeOK /\ rcv[q] \in Receiver /\ rcv[q].st = "copying"
  BY DEF RingInv, TypeOK, Copy
<1> DEFINE n == rcv[q].found
<1>2. /\ rcv'[q] = Copied(FoundEnd(q, n))
      /\ \A p \in Queue : p # q => rcv'[p] = rcv[p]
      /\ ptail' = ptail
      /\ Consume(q, n)
  BY <1>1 DEF Copy, TypeOK
<1>3. valid' = valid /\ phead' = phead
  BY <1>2 DEF Consume
<1>4. n \in 0 .. L
  BY <1>1, ReceiverIs
<1>5. ASSUME NEW p \in Queue, p # q
      PROVE  QueueInv(p)'
  <2>1. /\ split => split'
        /\ lost[p] => lost'[p]
        /\ lost'[p] => lost[p] \/ split'
        /\ ~lost'[p] => chan'[p] = chan[p] /\ \A x \in 0 .. L - 1 : Spared(p, x)
        /\ ~split' => /\ lost'[p] = lost[p]
                      /\ \A x \in 0 .. L - 1 : mem'[Base(p) + x] = mem[Base(p) + x]
    BY <1>1, <1>2, <1>4, <1>5, ConsumeOther
  <2>2. QED
    BY <1>1, <1>2, <1>3, <1>5, <2>1, OtherKept DEF RingInv
<1>6. QueueInv(q)'
  <2>1. rcv'[q].st = "copied" /\ rcv'[q].end = FoundEnd(q, n)
    BY <1>2, Receivers
  <2>2. rcv[q] # Idle /\ valid[q]
    BY <1>1, Receivers DEF RingInv, QueueInv
  <2>3. ASSUME ~lost'[q]
        PROVE  LaidOut(q)'
    <3>1. ~lost[q]
      BY <1>2, <2>3 DEF Consume
    <3>2. LaidOut(q) /\ rcv[q].st # "copied"
      BY <1>1, <2>2, <3>1 DEF RingInv, QueueInv
    <3>3. PICK w : /\ Lay(Base(q), mem', Tail(chan[q]), ptail[q], phead[q], w)
                   /\ FoundEnd(q, n) = Pos(w[1])
                   /\ ~split' => Clean(Base(q), mem', Tail(chan[q]), w)
      BY <1>1, <1>2, <1>4, <2>3, <3>2, ConsumeSelf
    <3>4. chan'[q] = Tail(chan[q])
      BY <1>1, <1>2, <1>4, <2>3, <3>2, ConsumeSelf
    <3>5. Placed(Base(q), mem', Tail(chan[q]), ptail[q], phead[q],
                 FoundEnd(q, n), TRUE, split')
      BY <3>3 DEF Placed
    <3>6. Front(q)' = FoundEnd(q, n)
      BY <2>1 DEF Front
    <3>7. QED
      BY <1>2, <1>3, <2>1, <3>4, <3>5, <3>6 DEF LaidOut, Base
  <2>4. lost'[q] => split'
    <3>1. SUFFICES ASSUME ~split'
                   PROVE  ~lost'[q]
      OBVIOUS
    <3>2. ~split /\ ~lost[q]
      BY <1>1, <1>2, <3>1 DEF Consume, RingInv, QueueInv
    <3>3. chan[q] # << >> /\ n = Head(chan[q]).len
      BY <1>1, <3>2 DEF RingInv, QueueInv, Quiet
    <3>4. QED
      BY <1>1, <1>2, <3>2, <3>3, ConsumeLoses
  <2>5. Quiet(q)'
    BY <1>3, <2>1, <2>2 DEF Quiet
  <2>6. QED
    BY <1>3, <2>2, <2>3, <2>4, <2>5 DEF QueueInv
<1>7. QED
  BY <1>5, <1>6

LEMMA MoveKeeps ==
    ASSUME RingInv, NEW q \in Queue, Move(q)
    PROVE  \A p \in Queue : QueueInv(p)'
<1>1. TypeOK /\ rcv[q] \in Receiver /\ rcv[q].st = "copied"
  BY DEF RingInv, TypeOK, Move
<1>2. /\ rcv'[q] = Idle /\ ptail'[q] = rcv[q].end
      /\ \A p \in Queue : p # q => rcv'[p] = rcv[p] /\ ptail'[p] = ptail[p]
      /\ valid' = valid /\ phead' = phead /\ mem' = mem
      /\ chan' = chan /\ lost' = lost /\ split' = split
  BY <1>1 DEF Move, TypeOK
<1>3. ASSUME NEW p \in Queue, p # q
      PROVE  QueueInv(p)'
  BY <1>1, <1>2, <1>3, Kept DEF RingInv
<1>4. QueueInv(q)'
  <2>1. Idle.st = "idle" /\ Front(q) = rcv[q].end
    BY <1>1, Receivers DEF Front
  <2>2. rcv[q] # Idle /\ valid[q]
    BY <1>1, Receivers DEF RingInv, QueueInv
  <2>3. ASSUME ~lost[q]
        PROVE  LaidOut(q)'
    <3>1. LaidOut(q)
      BY <2>2, <2>3 DEF RingInv, QueueInv
    <3>2. PICK u : /\ Lay(Base(q), mem, chan[q], ptail[q], phead[q], u)
                   /\ Front(q) = Pos(u[1])
                   /\ ~split => Clean(Base(q), mem, chan[q], u)
      BY <3>1 DEF LaidOut, Placed
    <3>3. chan[q] \in Seq(Message) /\ ptail[q] \in 0 .. L
      BY <1>1 DEF TypeOK
    <3>4. Placed(Base(q), mem, chan[q], Front(q), phead[q], Front(q), FALSE, split)
      BY <3>2, <3>3, LayMoved
    <3>5. Front(q)' = Front(q) /\ (rcv'[q].st = "copied") = FALSE
      BY <1>2, <2>1 DEF Front
    <3>6. QED
      BY <1>2, <2>1, <3>4, <3>5 DEF LaidOut, Base
  <2>4. ~split => Quiet(q)'
    BY <1>2, <2>1, <2>2 DEF Quiet
  <2>5. lost[q] => split
    BY DEF RingInv, QueueInv
  <2>6. QED
    BY <1>2, <2>3, <2>4, <2>5 DEF QueueInv
<1>5. QED
  BY <1>3, <1>4

LEMMA RingNext == RingInv /\ [Next]_vars => RingInv'
<1> SUFFICES ASSUME RingInv, [Next]_vars
             PROVE  RingInv'
  OBVIOUS
<1>1. TypeOK'
  BY TypeNext DEF RingInv
<1>2. ASSUME UNCHANGED vars
      PROVE  \A p \in Queue : QueueInv(p)'
  BY <1>2, Kept DEF RingInv, vars, bufVars
<1>3. \A p \in Queue : QueueInv(p)'
  BY <1>2, CreateKeeps, DeleteKeeps, SendKeeps, ReceiveKeeps, LookKeeps, CopyKeeps,
     MoveKeeps DEF Next
<1>4. QED
  BY <1>1, <1>3 DEF RingInv, Queue

LEMMA RingIsIntact == RingInv => Intact
<1> SUFFICES ASSUME RingInv, NEW q \in Queue
             PROVE  /\ valid[q] /\ ~lost[q] => Whole(q) /\ RoomCounted(q)
                    /\ lost[q] => split
  BY DEF Intact
<1>1. TypeOK /\ (lost[q] => split)
  BY DEF RingInv, QueueInv
<1>2. ASSUME valid[q], ~lost[q]
      PROVE  Whole(q) /\ RoomCounted(q)
  <2>1. LaidOut(q)
    BY <1>2 DEF RingInv, QueueInv
  <2>2. PICK u : /\ Lay(Base(q), mem, chan[q], ptail[q], phead[q], u)
                 /\ Front(q) = Pos(u[1])
                 /\ rcv[q].st # "copied" => u[1] = ptail[q]
    BY <2>1 DEF LaidOut, Placed
  <2>3. chan[q] \in Seq(Message) /\ ptail[q] \in 0 .. L
    BY <1>1 DEF TypeOK
  <2>4. Whole(q)
    BY <2>2, <2>3, LayWhole
  <2>5. rcv[q].st # "copied" => L - Cardinality(InUse(q)) - msg_buf_avail(q) \in {0, 1}
    BY <1>1, <2>2, LayRoom
  <2>6. QED
    BY <2>4, <2>5 DEF RoomCounted
<1>3. QED
  BY <1>1, <1>2

(* As long as memory and history have not parted, the unread messages of a  *)
(* queue lie in its buffer whole, in the order sent, and all other words    *)
(* but one count as free; they part only after a torn message or a deletion *)
(* of unread ones.  For every number of queues, buffer size of at least     *)
(* five words and set of lengths that leave room for header and reserve.    *)
THEOREM RingIntact == Spec => []Intact
<1>1. Init => RingInv
  BY RingStart
<1>2. RingInv /\ [Next]_vars => RingInv'
  BY RingNext
<1>3. RingInv => Intact
  BY RingIsIntact
<1>4. QED
  BY <1>1, <1>2, <1>3, PTL DEF Spec

-----------------------------------------------------------------------------
(* The refinement: what is read from the buffer is what the channel holds. *)

LEMMA WordIs ==
    ASSUME NEW a \in Nat, NEW b \in Nat, Word(a, 1) = Word(b, 1)
    PROVE  a = b
<1>1. L \in Nat /\ L >= 5
  BY QueueFacts
<1>2. a * L \in Nat /\ b * L \in Nat
  BY <1>1
<1>3. a * L = b * L
  BY <1>1, <1>2 DEF Word
<1>4. ASSUME NEW x \in Nat, NEW y \in Nat, x < y
      PROVE  x * L < y * L
  <2>1. PICK d \in Nat : y = x + 1 + d
    <3>1. y - x - 1 \in Nat /\ y = x + 1 + (y - x - 1)
      BY <1>4
    <3>2. QED
      BY <3>1
  <2>2. y * L = x * L + L + d * L /\ d * L \in Nat /\ x * L \in Nat
    BY <1>1, <2>1
  <2>3. QED
    BY <1>1, <2>2
<1>5. a < b => a * L < b * L
  BY <1>4
<1>6. b < a => b * L < a * L
  BY <1>4
<1>7. QED
  BY <1>2, <1>3, <1>5, <1>6

\* A message takes at least three words.
LEMMA LayShort ==
    ASSUME NEW c \in Seq(Message), NEW t \in 0 .. L, NEW B, NEW M, NEW h, NEW u,
           Lay(B, M, c, t, h, u)
    PROVE  3 * Len(c) <= L - 1
<1> DEFINE n == Len(c)
           Bad == {i \in 0 .. n : u[i + 1] < u[1] + 3 * i}
<1>1. n \in Nat /\ L \in Nat /\ t \in Nat
  BY LayBounds, QueueFacts
<1>2. \A i \in 0 .. n : i + 1 \in 1 .. n + 1 /\ u[i + 1] \in Nat
  <2>1. \A i \in 0 .. n : i + 1 \in 1 .. n + 1
    BY <1>1
  <2>2. QED
    BY <2>1, LayBounds
<1>3. \A i \in 1 .. n : u[i] + 3 <= u[i + 1]
  BY LayBounds
<1>4. Bad = {}
  <2>1. SUFFICES ASSUME Bad # {}
                 PROVE  FALSE
    OBVIOUS
  <2>2. PICK i \in Bad : \A j \in Bad : i <= j
    <3>1. Bad \in SUBSET Nat
      BY <1>1
    <3> HIDE DEF Bad
    <3>2. QED
      BY <2>1, <3>1, LeastNat
  <2>3. i \in 0 .. n /\ u[i + 1] < u[1] + 3 * i
    OBVIOUS
  <2>4. u[1] \in Nat /\ u[0 + 1] = u[1]
    BY <1>1, <1>2
  <2>5. i # 0
    BY <2>3, <2>4
  <2>6. PICK k \in Nat : k = i - 1
    BY <1>1, <2>3, <2>5
  <2>7. k \in 0 .. n /\ i \in 1 .. n /\ k + 1 = i /\ i \in Nat /\ ~ (i <= k)
    BY <1>1, <2>3, <2>5, <2>6
  <2>a. k \notin Bad
    <3> HIDE DEF Bad
    <3>1. QED
      BY <2>2, <2>7
  <2>b. ~ (u[i] < u[1] + 3 * (i - 1))
    BY <2>6, <2>7, <2>a
  <2>8. u[i] \in Nat /\ u[i + 1] \in Nat
    BY <1>2, <2>3, <2>7
  <2>9. u[i] + 3 <= u[i + 1] /\ ~ (u[i] < u[1] + 3 * (i - 1))
    BY <1>3, <2>7, <2>b
  <2>10. \A a, b, d, e \in Nat : a + 3 <= b /\ ~ (a < d + 3 * (e - 1)) => ~ (b < d + 3 * e)
    OBVIOUS
  <2>11. QED
    BY <2>3, <2>4, <2>7, <2>8, <2>9, <2>10
<1>5. ~ (u[n + 1] < u[1] + 3 * n)
  <2>1. n \in 0 .. n /\ n \notin Bad
    BY <1>1, <1>4
  <2>2. QED
    BY <2>1
<1>6. t <= u[1] /\ u[n + 1] <= t + L - 1 /\ u[n + 1] <= u[1] + L - 1
  <2>1. t <= u[1] /\ u[n + 1] <= t + L - 1
    BY DEF Lay
  <2>2. u[1] \in Nat /\ u[n + 1] \in Nat
    <3>1. 0 \in 0 .. n /\ n \in 0 .. n /\ u[0 + 1] = u[1]
      BY <1>1
    <3>2. QED
      BY <1>2, <3>1
  <2>3. QED
    BY <1>1, <2>1, <2>2
<1>7. u[1] \in Nat /\ u[n + 1] \in Nat
  <2>1. 0 \in 0 .. n /\ n \in 0 .. n /\ u[0 + 1] = u[1]
    BY <1>1
  <2>2. QED
    BY <1>2, <2>1
<1>8. \A a, b, k, l \in Nat : ~ (b < a + 3 * k) /\ b <= a + l - 1 => 3 * k <= l - 1
  OBVIOUS
<1>9. QED
  BY <1>1, <1>5, <1>6, <1>7, <1>8

LEMMA PosApart ==
    ASSUME NEW x \in Nat, NEW y \in Nat, x < y, y <= x + L - 1, y <= 2 * L - 1
    PROVE  Pos(x) # Pos(y) /\ Pos(x) \in 0 .. L /\ Pos(y) \in 0 .. L
BY QueueFacts DEF Pos

\* A reader at a message reads it, and goes on to the next.
LEMMA ReadsMessage ==
    ASSUME NEW q \in Queue, chan[q] \in Seq(Message), NEW t \in 0 .. L, NEW u,
           Lay(Base(q), mem, chan[q], t, phead[q], u), NEW i \in 1 .. Len(chan[q])
    PROVE  /\ Pos(u[i]) \in 0 .. L
           /\ ~Ends(q, Pos(u[i]))
           /\ EndOf(HeaderAt(Pos(u[i])), mem[Base(q) + HeaderAt(Pos(u[i])) + 1])
                = Pos(u[i + 1])
           /\ ReadAt(q, Pos(u[i])) = chan[q][i]
<1> DEFINE c == chan[q]
           n == Len(c)
<1>1. /\ u[i] \in Nat /\ u[n + 1] \in Nat /\ u[i] < u[n + 1]
      /\ u[n + 1] <= u[i] + L - 1 /\ u[n + 1] <= 2 * L - 1
  <2>1. n \in Nat /\ i \in 1 .. n + 1 /\ i + 1 \in 1 .. n + 1 /\ n + 1 \in 1 .. n + 1
    BY LayBounds
  <2>2. u[i] \in Nat /\ u[i + 1] \in Nat /\ u[n + 1] \in Nat
    BY <2>1, LayBounds
  <2>3. u[i] + 3 <= u[i + 1]
    BY LayBounds
  <2>4. u[i + 1] <= u[n + 1] /\ t <= u[i] /\ u[n + 1] <= 2 * L - 1
    BY <2>1, LayBounds
  <2>5. u[n + 1] <= t + L - 1
    BY DEF Lay
  <2>6. t \in Nat /\ L \in Nat
    BY QueueFacts
  <2>7. \A a, b, d, e, l \in Nat :
           a + 3 <= b /\ b <= d /\ e <= a /\ d <= e + l - 1 => a < d /\ d <= a + l - 1
    OBVIOUS
  <2>8. u[i] < u[n + 1] /\ u[n + 1] <= u[i] + L - 1
    BY <2>2, <2>3, <2>4, <2>5, <2>6, <2>7
  <2>9. QED
    BY <2>2, <2>4, <2>8
<1>2. Pos(u[i]) # Pos(u[n + 1]) /\ Pos(u[i]) \in 0 .. L
  BY <1>1, PosApart
<1>3. phead[q] = Pos(u[n + 1])
  BY DEF Lay
<1> DEFINE h == HeaderAt(Pos(u[i]))
<1>4. /\ h = Mod(Hd(u[i])) /\ h + 1 = Mod(Hd(u[i]) + 1)
      /\ \A k \in 1 .. c[i].len : TextAt(h, k) = Mod(Hd(u[i]) + 1 + k)
      /\ EndOf(h, c[i].len) = Pos(u[i + 1])
  <2>1. h = Mod(Hd(u[i]))
    BY LayAt
  <2>2. h + 1 = Mod(Hd(u[i]) + 1)
    BY LayAt
  <2>3. \A k \in 1 .. c[i].len : TextAt(h, k) = Mod(Hd(u[i]) + 1 + k)
    BY LayAt
  <2>4. EndOf(h, c[i].len) = Pos(u[i + 1])
    BY LayAt
  <2>5. QED
    BY <2>1, <2>2, <2>3, <2>4
<1>5. /\ mem[Base(q) + Mod(Hd(u[i]))] = SIGN
      /\ mem[Base(q) + Mod(Hd(u[i]) + 1)] = c[i].len
      /\ \A k \in 1 .. c[i].len : mem[Base(q) + Mod(Hd(u[i]) + 1 + k)] = Word(c[i].tag, k)
  BY DEF Lay
<1>6. c[i] \in Message /\ c[i].len \in 1 .. L - 4
  BY LayBounds
<1>7. 1 \in 1 .. c[i].len /\ c[i].tag \in Tags
  <2>1. L \in Nat
    BY QueueFacts
  <2>2. 1 \in 1 .. c[i].len
    BY <1>6, <2>1
  <2>3. c[i].tag \in Tags
    BY <1>6 DEF Message
  <2>4. QED
    BY <2>2, <2>3
<1>8. h \in 0 .. L - 2
  <2>1. L \in Nat /\ 0 \in 0 .. L
    BY QueueFacts
  <2>2. QED
    BY <1>2, <2>1, OffsetsTyped
<1> HIDE DEF h
<1>9. Base(q) + h + 1 = Base(q) + (h + 1)
  BY <1>8, InAddress
<1>10. mem[Base(q) + h] = SIGN /\ mem[Base(q) + h + 1] = c[i].len
  BY <1>4, <1>5, <1>9
<1>11. mem[Base(q) + TextAt(h, 1)] = Word(c[i].tag, 1)
  <2>1. TextAt(h, 1) = Mod(Hd(u[i]) + 1 + 1)
    BY <1>4, <1>7
  <2>2. mem[Base(q) + Mod(Hd(u[i]) + 1 + 1)] = Word(c[i].tag, 1)
    BY <1>5, <1>7
  <2>3. QED
    BY <2>1, <2>2
<1>12. (CHOOSE tag \in Tags : mem[Base(q) + TextAt(h, 1)] = Word(tag, 1)) = c[i].tag
  <2>1. \A tag \in Tags : tag \in Nat
    BY MsgRingAssumption
  <2>2. \A tag \in Tags : mem[Base(q) + TextAt(h, 1)] = Word(tag, 1) => tag = c[i].tag
    BY <1>7, <1>11, <2>1, WordIs
  <2>3. QED
    BY <1>7, <1>11, <2>2
<1>13. c[i] = [tag |-> c[i].tag, len |-> c[i].len]
  BY <1>6 DEF Message
<1>14. ReadAt(q, Pos(u[i])) = c[i]
  BY <1>10, <1>12, <1>13 DEF ReadAt, h
<1>15. ~Ends(q, Pos(u[i]))
  BY <1>2, <1>3, <1>10 DEF Ends, h
<1>16. QED
  BY <1>2, <1>4, <1>10, <1>14, <1>15 DEF h

\* Read from its front, a laid out buffer holds the messages of the channel.
LEMMA LayRead ==
    ASSUME NEW q \in Queue, chan[q] \in Seq(Message), NEW t \in 0 .. L, NEW u,
           Lay(Base(q), mem, chan[q], t, phead[q], u), Front(q) = Pos(u[1])
    PROVE  ReadFrom(q) = chan[q]
<1> DEFINE c == chan[q]
           n == Len(c)
           K == L \div 3
           Stop(i) == IF i <= n + 1 THEN i ELSE n + 1
           w == [i \in 1 .. K |-> Pos(u[Stop(i)])]
           next == [p \in 0 .. L |->
                      IF Ends(q, p) THEN p
                      ELSE EndOf(HeaderAt(p), mem[Base(q) + HeaderAt(p) + 1])]
           Is(f) == f = [i \in 1 .. K |-> IF i = 1 THEN Front(q) ELSE next[f[i - 1]]]
           at == CHOOSE f : Is(f)
           Count == {i \in 1 .. K : ~Ends(q, at[i])}
<1>1. n \in Nat /\ L \in Nat /\ L >= 5 /\ 3 * n <= L - 1 /\ n + 1 \in 1 .. n + 1
  BY LayBounds, LayShort, QueueFacts
<1>2. K \in Nat /\ n <= K
  BY <1>1
<1> HIDE DEF K
<1>3. ASSUME NEW i \in 1 .. n
      PROVE  /\ ~Ends(q, Pos(u[i])) /\ ReadAt(q, Pos(u[i])) = c[i]
             /\ next[Pos(u[i])] = Pos(u[i + 1])
  BY <1>3, ReadsMessage
<1>4. Ends(q, Pos(u[n + 1])) /\ next[Pos(u[n + 1])] = Pos(u[n + 1])
  <2>1. phead[q] = Pos(u[n + 1])
    BY DEF Lay
  <2>2. Ends(q, Pos(u[n + 1]))
    BY <2>1 DEF Ends
  <2>3. u[n + 1] \in Nat /\ u[n + 1] <= 2 * L - 1
    BY <1>1, LayBounds
  <2>4. Pos(u[n + 1]) \in 0 .. L
    BY <1>1, <2>3 DEF Pos
  <2>5. QED
    BY <2>2, <2>4
<1> HIDE DEF next
<1>5. ASSUME NEW i \in 1 .. K
      PROVE  w[i] = IF i = 1 THEN Front(q) ELSE next[w[i - 1]]
  <2>1. w[i] = Pos(u[Stop(i)])
    OBVIOUS
  <2>2. CASE i = 1
    <3>1. Stop(i) = 1
      BY <1>1, <2>2
    <3>2. QED
      BY <2>1, <2>2, <3>1
  <2>3. CASE i # 1
    <3>1. PICK j \in 1 .. K : j = i - 1 /\ i = j + 1
      BY <1>2, <2>3
    <3>2. w[j] = Pos(u[Stop(j)])
      OBVIOUS
    <3>3. CASE j <= n
      <4>1. j \in 1 .. n /\ Stop(j) = j /\ Stop(i) = j + 1
        BY <1>1, <1>2, <3>1, <3>3
      <4>2. next[w[j]] = w[i]
        BY <1>3, <2>1, <3>2, <4>1
      <4>3. QED
        BY <2>3, <3>1, <4>2
    <3>4. CASE ~ (j <= n)
      <4>1. Stop(j) = n + 1 /\ Stop(i) = n + 1
        BY <1>1, <1>2, <3>1, <3>4
      <4>2. next[w[j]] = w[i]
        BY <1>4, <2>1, <3>2, <4>1
      <4>3. QED
        BY <2>3, <3>1, <4>2
    <3>5. QED
      BY <3>3, <3>4
  <2>4. QED
    BY <2>2, <2>3
<1>6. Is(w)
  <2>1. w = [i \in 1 .. K |-> w[i]]
    OBVIOUS
  <2> HIDE DEF w
  <2>2. QED
    BY <1>5, <2>1
<1> HIDE DEF w, Is
<1>7. Is(at)
  BY <1>6
<1> HIDE DEF at
<1>8. \A i \in 1 .. K : at[i] = IF i = 1 THEN Front(q) ELSE next[at[i - 1]]
  BY <1>7 DEF Is
<1>9. \A i \in 1 .. K : at[i] = w[i]
  <2> DEFINE Bad == {i \in 1 .. K : at[i] # w[i]}
  <2>1. SUFFICES ASSUME Bad # {}
                 PROVE  FALSE
    OBVIOUS
  <2>2. PICK i \in Bad : \A j \in Bad : i <= j
    <3>1. Bad \in SUBSET Nat
      BY <1>2
    <3> HIDE DEF Bad
    <3>2. QED
      BY <2>1, <3>1, LeastNat
  <2>3. i \in 1 .. K /\ at[i] # w[i]
    OBVIOUS
  <2>4. i # 1
    BY <1>5, <1>8, <2>3
  <2>5. PICK j \in 1 .. K : j = i - 1 /\ ~ (i <= j)
    BY <1>2, <2>3, <2>4
  <2>6. j \notin Bad
    <3> HIDE DEF Bad
    <3>1. QED
      BY <2>2, <2>5
  <2>7. at[j] = w[j]
    BY <2>6
  <2>8. QED
    BY <1>5, <1>8, <2>3, <2>4, <2>5, <2>7
<1>10. /\ \A i \in 1 .. n : i \in 1 .. K /\ at[i] = Pos(u[i])
       /\ \A i \in 1 .. K : i > n => at[i] = Pos(u[n + 1])
  <2>1. \A i \in 1 .. n : i \in 1 .. K /\ Stop(i) = i
    BY <1>1, <1>2
  <2>2. \A i \in 1 .. K : i > n => Stop(i) = n + 1
    BY <1>1, <1>2
  <2>3. \A i \in 1 .. K : at[i] = Pos(u[Stop(i)])
    BY <1>9 DEF w
  <2>4. QED
    BY <2>1, <2>2, <2>3
<1>11. Count = 1 .. n
  <2>1. \A i \in 1 .. n : i \in Count
    BY <1>3, <1>10
  <2>2. \A i \in Count : i \in 1 .. K /\ ~ (i > n)
    BY <1>4, <1>10
  <2>3. \A i \in Count : i \in 1 .. n
    BY <1>1, <1>2, <2>2
  <2> HIDE DEF Count
  <2>4. QED
    BY <2>1, <2>3
<1>12. Cardinality(Count) = n
  <2>1. PICK N \in Nat : N = n
    BY <1>1
  <2>2. 1 \in Int /\ N \in Int
    OBVIOUS
  <2>3. Cardinality(1 .. N) = IF 1 > N THEN 0 ELSE N - 1 + 1
    BY <2>2, FS_Interval
  <2>4. Cardinality(1 .. N) = N
    BY <2>3
  <2>5. QED
    BY <1>11, <2>1, <2>4
<1>13. ReadFrom(q) = [i \in 1 .. Cardinality(Count) |-> ReadAt(q, at[i])]
  BY DEF ReadFrom, at, Is, next, K
<1>14. [i \in 1 .. n |-> ReadAt(q, at[i])] = [i \in 1 .. n |-> c[i]]
  BY <1>3, <1>10
<1>15. c = [i \in 1 .. n |-> c[i]]
  OBVIOUS
<1>16. QED
  BY <1>12, <1>13, <1>14, <1>15

Reads == \A q \in Queue : valid[q] /\ ~split => ReadFrom(q) = chan[q]

LEMMA RingReads == RingInv => Reads
<1> SUFFICES ASSUME RingInv, NEW q \in Queue, valid[q], ~split
             PROVE  ReadFrom(q) = chan[q]
  BY DEF Reads
<1>1. TypeOK /\ LaidOut(q)
  BY DEF RingInv, QueueInv
<1>2. PICK u : /\ Lay(Base(q), mem, chan[q], ptail[q], phead[q], u)
               /\ Front(q) = Pos(u[1])
  BY <1>1 DEF LaidOut, Placed
<1>3. chan[q] \in Seq(Message) /\ ptail[q] \in 0 .. L
  BY <1>1 DEF TypeOK
<1>4. QED
  BY <1>2, <1>3, LayRead

LEMMA SeenIs ==
    /\ Seen(Idle) = Idle
    /\ \A b : Seen(Waiting(b)) = Waiting(b) /\ Seen(Woken(b)) = Woken(b)
    /\ \A b, n : Seen(Copying(b, n)) = Woken(b)
    /\ \A p : Seen(Copied(p)) = Idle
BY DEF Seen, Idle, Waiting, Woken, Copying, Copied

LEMMA SeenWake ==
    ASSUME NEW r \in Receiver
    PROVE  Seen(Wake(r)) = IF Seen(r).st = "pend" THEN Woken(Seen(r).len) ELSE Seen(r)
<1>1. CASE r = Idle
  BY <1>1, SeenIs, Receivers DEF Wake
<1>2. ASSUME NEW b \in BufLens, r = Waiting(b)
      PROVE  Seen(Wake(r)) = IF Seen(r).st = "pend" THEN Woken(Seen(r).len) ELSE Seen(r)
  BY <1>2, SeenIs, Receivers DEF Wake
<1>3. ASSUME NEW b \in BufLens, r = Woken(b)
      PROVE  Seen(Wake(r)) = IF Seen(r).st = "pend" THEN Woken(Seen(r).len) ELSE Seen(r)
  BY <1>3, SeenIs, Receivers DEF Wake
<1>4. ASSUME NEW b \in BufLens, NEW n \in 0 .. L, r = Copying(b, n)
      PROVE  Seen(Wake(r)) = IF Seen(r).st = "pend" THEN Woken(Seen(r).len) ELSE Seen(r)
  BY <1>4, SeenIs, Receivers DEF Wake
<1>5. ASSUME NEW p \in 0 .. L, r = Copied(p)
      PROVE  Seen(Wake(r)) = IF Seen(r).st = "pend" THEN Woken(Seen(r).len) ELSE Seen(r)
  BY <1>5, SeenIs, Receivers DEF Wake
<1>6. QED
  BY <1>1, <1>2, <1>3, <1>4, <1>5 DEF Receiver

\* One queue changes.
LEMMA OneChanges ==
    ASSUME NEW f, NEW g, f = [p \in Queue |-> f[p]], g = [p \in Queue |-> g[p]],
           NEW q \in Queue, NEW v, g[q] = v, \A p \in Queue : p # q => g[p] = f[p]
    PROVE  g = [f EXCEPT ![q] = v]
<1>1. [f EXCEPT ![q] = v] = [p \in Queue |-> IF p = q THEN v ELSE f[p]]
  OBVIOUS
<1>2. [p \in Queue |-> g[p]] = [p \in Queue |-> IF p = q THEN v ELSE f[p]]
  OBVIOUS
<1>3. QED
  BY <1>1, <1>2

LEMMA NoneChanges ==
    ASSUME NEW f, NEW g, f = [p \in Queue |-> f[p]], g = [p \in Queue |-> g[p]],
           \A p \in Queue : g[p] = f[p]
    PROVE  g = f
OBVIOUS

\* What the channel sees, before and after a step that tears nothing.
LEMMA ChannelSees ==
    ASSUME RingInv, Reads, Reads', split => split', ~split'
    PROVE  /\ Unread = [p \in Queue |-> Unread[p]] /\ Unread' = [p \in Queue |-> Unread'[p]]
           /\ Receiving = [p \in Queue |-> Receiving[p]]
           /\ Receiving' = [p \in Queue |-> Receiving'[p]]
           /\ \A p \in Queue :
                 /\ Unread[p] = IF valid[p] THEN chan[p] ELSE << >>
                 /\ Unread'[p] = IF valid'[p] THEN chan'[p] ELSE << >>
                 /\ Receiving[p] = Seen(rcv[p]) /\ Receiving'[p] = Seen(rcv'[p])
<1>1. Unread = [p \in Queue |-> Unread[p]] /\ Unread' = [p \in Queue |-> Unread'[p]]
  BY DEF Unread
<1>2. Receiving = [p \in Queue |-> Receiving[p]]
      /\ Receiving' = [p \in Queue |-> Receiving'[p]]
  BY DEF Receiving
<1>3. ASSUME NEW p \in Queue
      PROVE  /\ Unread[p] = IF valid[p] THEN chan[p] ELSE << >>
             /\ Unread'[p] = IF valid'[p] THEN chan'[p] ELSE << >>
  <2>1. Unread[p] = IF valid[p] THEN ReadFrom(p) ELSE << >>
    BY DEF Unread
  <2>2. Unread'[p] = IF valid'[p] THEN ReadFrom(p)' ELSE << >>
    BY DEF Unread, Queue
  <2>3. valid[p] => ReadFrom(p) = chan[p]
    BY DEF Reads
  <2>4. valid'[p] => ReadFrom(p)' = chan'[p]
    BY DEF Reads, Queue
  <2>5. QED
    BY <2>1, <2>2, <2>3, <2>4
<1>4. \A p \in Queue : Receiving[p] = Seen(rcv[p]) /\ Receiving'[p] = Seen(rcv'[p])
  BY DEF Receiving
<1>5. QED
  BY <1>1, <1>2, <1>3, <1>4

LEMMA CreateImplements ==
    ASSUME RingInv, Reads, Reads', msg_create, ~split'
    PROVE  C!Next
<1>1. PICK q \in Queue :
           /\ ~valid[q]
           /\ valid' = [valid EXCEPT ![q] = TRUE]
           /\ chan' = [chan EXCEPT ![q] = << >>]
           /\ rcv' = rcv /\ split' = split
  BY DEF msg_create
<1>2. /\ valid'[q] = TRUE /\ chan'[q] = << >>
      /\ \A p \in Queue : p # q => valid'[p] = valid[p] /\ chan'[p] = chan[p]
  BY <1>1 DEF RingInv, TypeOK
<1>3. \A p \in Queue : Unread'[p] = Unread[p] /\ Receiving'[p] = Receiving[p]
  BY <1>1, <1>2, ChannelSees
<1>4. Unread' = Unread /\ Receiving' = Receiving
  BY <1>1, <1>3, ChannelSees, NoneChanges
<1>5. C!Create(q)
  BY <1>1, <1>4 DEF C!Create
<1>6. QED
  BY <1>5 DEF C!Next

LEMMA DeleteImplements ==
    ASSUME RingInv, Reads, Reads', NEW q \in Queue, msg_delete(q), ~split'
    PROVE  C!Next
<1>1. /\ valid[q] /\ rcv[q] = Idle
      /\ valid' = [valid EXCEPT ![q] = FALSE]
      /\ chan' = [chan EXCEPT ![q] = << >>]
      /\ rcv' = rcv /\ (split => split')
  BY DEF msg_delete
<1>2. /\ valid'[q] = FALSE
      /\ \A p \in Queue : p # q => valid'[p] = valid[p] /\ chan'[p] = chan[p]
  BY <1>1 DEF RingInv, TypeOK
<1>3. /\ Unread'[q] = << >>
      /\ \A p \in Queue : /\ p # q => Unread'[p] = Unread[p]
                          /\ Receiving'[p] = Receiving[p]
  BY <1>1, <1>2, ChannelSees
<1>4. Receiving' = Receiving
  BY <1>1, <1>3, ChannelSees, NoneChanges
<1>5. Unread' = [Unread EXCEPT ![q] = << >>]
  BY <1>1, <1>3, ChannelSees, OneChanges
<1>6. Receiving[q] = C!Idle
  BY <1>1, SeenIs, ChannelSees DEF C!Idle, Idle
<1>7. C!Delete(q)
  BY <1>1, <1>4, <1>5, <1>6 DEF C!Delete
<1>8. QED
  BY <1>7 DEF C!Next

LEMMA SendImplements ==
    ASSUME RingInv, Reads, Reads', NEW q \in Queue, NEW m \in Message, msg_send(q, m),
           ~split'
    PROVE  C!Next
<1>1. /\ valid[q] /\ valid' = valid /\ split' = split
      /\ rcv' = [rcv EXCEPT ![q] = Wake(@)]
      /\ chan' = [chan EXCEPT ![q] = IF lost[q] THEN @ ELSE Append(@, m)]
  BY DEF msg_send
<1>2. ~lost[q]
  BY <1>1 DEF RingInv, QueueInv
<1>3. /\ chan'[q] = Append(chan[q], m) /\ rcv'[q] = Wake(rcv[q]) /\ rcv[q] \in Receiver
      /\ \A p \in Queue : p # q => chan'[p] = chan[p] /\ rcv'[p] = rcv[p]
  BY <1>1, <1>2 DEF RingInv, TypeOK
<1> DEFINE r == IF Receiving[q].st = "pend" THEN Woken(Receiving[q].len) ELSE Receiving[q]
<1>4. /\ Unread'[q] = Append(Unread[q], m)
      /\ Receiving'[q] = Seen(Wake(rcv[q])) /\ Receiving[q] = Seen(rcv[q])
      /\ \A p \in Queue : p # q => Unread'[p] = Unread[p] /\ Receiving'[p] = Receiving[p]
  <2>1. \A p \in Queue :
           /\ Unread[p] = IF valid[p] THEN chan[p] ELSE << >>
           /\ Unread'[p] = IF valid[p] THEN chan'[p] ELSE << >>
           /\ Receiving[p] = Seen(rcv[p]) /\ Receiving'[p] = Seen(rcv'[p])
    BY <1>1, ChannelSees
  <2>2. Unread'[q] = Append(Unread[q], m)
    BY <1>1, <1>3, <2>1
  <2>3. Receiving'[q] = Seen(Wake(rcv[q])) /\ Receiving[q] = Seen(rcv[q])
    BY <1>3, <2>1
  <2>4. ASSUME NEW p \in Queue, p # q
        PROVE  Unread'[p] = Unread[p] /\ Receiving'[p] = Receiving[p]
    BY <1>3, <2>1, <2>4
  <2>5. QED
    BY <2>2, <2>3, <2>4
<1>5. Receiving'[q] = r
  BY <1>3, <1>4, SeenWake
<1> HIDE DEF r
<1>6. Receiving' = [Receiving EXCEPT ![q] = r]
  BY <1>1, <1>4, <1>5, ChannelSees, OneChanges
<1>7. Unread' = [Unread EXCEPT ![q] = Append(Unread[q], m)]
  BY <1>1, <1>4, ChannelSees, OneChanges
<1>8. r = IF Receiving[q].st = "pend" THEN C!Woken(Receiving[q].len) ELSE Receiving[q]
  BY DEF r, C!Woken, Woken
<1>9. C!Send(q, m)
  BY <1>1, <1>6, <1>7, <1>8 DEF C!Send
<1>10. QED
  BY <1>9 DEF C!Next

\* The first message is received, and memory and history go together.
LEMMA Consumed ==
    ASSUME RingInv, NEW q \in Queue, NEW n, Consume(q, n), ~split',
           chan[q] # << >>, Head(chan[q]).len = n
    PROVE  /\ chan'[q] = Tail(chan[q])
           /\ \A p \in Queue : p # q => chan'[p] = chan[p]
<1>1. /\ \A p \in Queue : ~lost[p]
      /\ ~Torn(HeaderAt(ptail[q]), n)
  BY DEF Consume, RingInv, QueueInv
<1>2. \A p \in Queue : ~lost'[p]
  BY <1>1 DEF Consume
<1>3. QED
  BY <1>2 DEF Consume

LEMMA ReceiveImplements ==
    ASSUME RingInv, Reads, Reads', NEW q \in Queue, NEW b \in BufLens, msg_rcv(q, b),
           ~split'
    PROVE  C!Next
<1>1. /\ TypeOK /\ valid[q] /\ rcv[q] = Idle /\ Idle.st = "idle"
      /\ valid' = valid /\ (split => split') /\ ~split
  BY Receivers DEF RingInv, msg_rcv, Consume, bufVars
<1>2. LaidOut(q)
  BY <1>1 DEF RingInv, QueueInv
<1>3. Receiving[q] = C!Idle /\ Unread[q] = chan[q]
  BY <1>1, SeenIs, ChannelSees DEF C!Idle, Idle
<1>4. CASE Found(q)
  <2>1. /\ FoundLen(q) <= b
        /\ Consume(q, FoundLen(q))
        /\ rcv' = rcv
    BY <1>4 DEF msg_rcv
  <2>2. chan[q] # << >> /\ FoundLen(q) = Head(chan[q]).len
    BY <1>1, <1>2, <1>4, FrontFound
  <2>3. /\ chan'[q] = Tail(chan[q])
        /\ \A p \in Queue : p # q => chan'[p] = chan[p]
    BY <2>1, <2>2, Consumed
  <2>4. /\ Unread'[q] = Tail(Unread[q])
        /\ \A p \in Queue : /\ p # q => Unread'[p] = Unread[p]
                            /\ Receiving'[p] = Receiving[p]
    BY <1>1, <2>1, <2>3, ChannelSees
  <2>5. Receiving' = Receiving
    BY <1>1, <2>4, ChannelSees, NoneChanges
  <2>6. Unread' = [Unread EXCEPT ![q] = Tail(Unread[q])]
    BY <1>1, <2>4, ChannelSees, OneChanges
  <2>7. C!Receive(q, b)
    BY <1>1, <1>3, <2>1, <2>2, <2>5, <2>6 DEF C!Receive, C!Take
  <2>8. QED
    BY <2>7 DEF C!Next
<1>5. CASE ~Found(q)
  <2>1. rcv' = [rcv EXCEPT ![q] = Waiting(b)] /\ chan' = chan
    BY <1>5 DEF msg_rcv
  <2>2. chan[q] = << >>
    BY <1>1, <1>2, <1>5, FrontFound
  <2>3. /\ rcv'[q] = Waiting(b)
        /\ \A p \in Queue : p # q => rcv'[p] = rcv[p]
    BY <1>1, <2>1 DEF TypeOK
  <2>4. /\ Receiving'[q] = Waiting(b)
        /\ \A p \in Queue : /\ p # q => Receiving'[p] = Receiving[p]
                            /\ Unread'[p] = Unread[p]
    BY <1>1, <2>1, <2>3, SeenIs, ChannelSees
  <2>5. Unread' = Unread
    BY <1>1, <2>4, ChannelSees, NoneChanges
  <2>6. Receiving' = [Receiving EXCEPT ![q] = C!Waiting(b)]
    <3>1. Receiving'[q] = C!Waiting(b)
      BY <2>4 DEF C!Waiting, Waiting
    <3>2. QED
      BY <1>1, <2>4, <3>1, ChannelSees, OneChanges
  <2>7. C!Block(q, b)
    BY <1>1, <1>3, <2>2, <2>5, <2>6 DEF C!Block
  <2>8. QED
    BY <2>7 DEF C!Next
<1>6. QED
  BY <1>4, <1>5

LEMMA LookImplements ==
    ASSUME RingInv, Reads, Reads', NEW q \in Queue, Look(q), ~split'
    PROVE  C!Next \/ UNCHANGED C!vars
<1>1. TypeOK /\ rcv[q] \in Receiver /\ rcv[q].st = "woken"
  BY DEF RingInv, TypeOK, Look
<1>2. /\ rcv'[q] = IF Found(q) /\ FoundLen(q) <= rcv[q].len
                   THEN Copying(rcv[q].len, FoundLen(q)) ELSE Idle
      /\ \A p \in Queue : p # q => rcv'[p] = rcv[p]
      /\ valid' = valid /\ chan' = chan /\ split' = split
  BY <1>1 DEF Look, TypeOK, bufVars
<1>3. \A p \in Queue :
         /\ Unread[p] = IF valid[p] THEN chan[p] ELSE << >>
         /\ Unread'[p] = IF valid'[p] THEN chan'[p] ELSE << >>
         /\ Receiving[p] = Seen(rcv[p]) /\ Receiving'[p] = Seen(rcv'[p])
  BY <1>2, ChannelSees
<1>4. Unread' = Unread
  <2>1. \A p \in Queue : Unread'[p] = Unread[p]
    BY <1>2, <1>3
  <2>2. QED
    BY <1>2, <2>1, ChannelSees, NoneChanges
<1>5. \A p \in Queue : p # q => Receiving'[p] = Receiving[p]
  BY <1>2, <1>3
<1>6. rcv[q] = Woken(rcv[q].len) /\ Receiving[q] = Woken(rcv[q].len)
  BY <1>1, <1>3, ReceiverIs, SeenIs
<1>7. CASE Found(q) /\ FoundLen(q) <= rcv[q].len
  <2>1. Receiving'[q] = Receiving[q]
    BY <1>2, <1>3, <1>6, <1>7, SeenIs
  <2>2. \A p \in Queue : Receiving'[p] = Receiving[p]
    BY <1>5, <2>1
  <2>3. Receiving' = Receiving
    BY <1>2, <2>2, ChannelSees, NoneChanges
  <2>4. QED
    BY <1>2, <1>4, <2>3 DEF C!vars
<1>8. CASE ~ (Found(q) /\ FoundLen(q) <= rcv[q].len)
  <2>1. Receiving'[q] = C!Idle
    BY <1>2, <1>3, <1>8, SeenIs DEF C!Idle, Idle
  <2>2. valid[q] /\ ~lost[q] /\ chan[q] # << >>
    BY <1>1, <1>2, Receivers DEF RingInv, QueueInv, Quiet
  <2>3. Found(q) /\ FoundLen(q) = Head(chan[q]).len
    BY <1>1, <2>2, FrontFound DEF RingInv, QueueInv
  <2>4. FoundLen(q) \in Nat /\ rcv[q].len \in Nat
    BY <1>1, FoundTyped, ReceiverIs, QueueFacts
  <2>5. Head(chan[q]).len > rcv[q].len
    BY <1>8, <2>3, <2>4
  <2>6. Receiving' = [Receiving EXCEPT ![q] = C!Idle]
    BY <1>2, <1>5, <2>1, ChannelSees, OneChanges
  <2>7. Receiving[q].st = "woken" /\ Receiving[q].len = rcv[q].len /\ Unread[q] = chan[q]
    BY <1>3, <1>6, <2>2, Receivers
  <2>8. C!Resume(q)
    BY <1>2, <1>4, <2>2, <2>5, <2>6, <2>7 DEF C!Resume
  <2>9. QED
    BY <2>8 DEF C!Next
<1>9. QED
  BY <1>7, <1>8

LEMMA CopyImplements ==
    ASSUME RingInv, Reads, Reads', NEW q \in Queue, Copy(q), ~split'
    PROVE  C!Next
<1>1. TypeOK /\ rcv[q] \in Receiver /\ rcv[q].st = "copying"
  BY DEF RingInv, TypeOK, Copy
<1> DEFINE n == rcv[q].found
<1>2. /\ rcv'[q] = Copied(FoundEnd(q, n))
      /\ \A p \in Queue : p # q => rcv'[p] = rcv[p]
      /\ Consume(q, n)
  BY <1>1 DEF Copy, TypeOK
<1>3. valid' = valid /\ (split => split') /\ ~split
  BY <1>2 DEF Consume
<1>4. /\ valid[q] /\ chan[q] # << >> /\ Head(chan[q]).len = n /\ n <= rcv[q].len
  BY <1>1, <1>3, Receivers DEF RingInv, QueueInv, Quiet
<1>5. /\ chan'[q] = Tail(chan[q])
      /\ \A p \in Queue : p # q => chan'[p] = chan[p]
  BY <1>2, <1>4, Consumed
<1>6. \A p \in Queue :
         /\ Unread[p] = IF valid[p] THEN chan[p] ELSE << >>
         /\ Unread'[p] = IF valid'[p] THEN chan'[p] ELSE << >>
         /\ Receiving[p] = Seen(rcv[p]) /\ Receiving'[p] = Seen(rcv'[p])
  BY <1>3, ChannelSees
<1>7. rcv[q] = Copying(rcv[q].len, n) /\ Receiving[q] = Woken(rcv[q].len)
  BY <1>1, <1>6, ReceiverIs, SeenIs
<1>8. Receiving'[q] = C!Idle
  BY <1>2, <1>6, SeenIs DEF C!Idle, Idle
<1>9. \A p \in Queue : p # q => Receiving'[p] = Receiving[p] /\ Unread'[p] = Unread[p]
  BY <1>2, <1>3, <1>5, <1>6
<1>10. Receiving' = [Receiving EXCEPT ![q] = C!Idle]
  BY <1>3, <1>8, <1>9, ChannelSees, OneChanges
<1>11. Unread[q] = chan[q] /\ Unread'[q] = Tail(Unread[q])
  BY <1>3, <1>4, <1>5, <1>6
<1>12. Unread' = [Unread EXCEPT ![q] = Tail(Unread[q])]
  BY <1>3, <1>9, <1>11, ChannelSees, OneChanges
<1>13. Receiving[q].st = "woken" /\ Receiving[q].len = rcv[q].len
  BY <1>7, Receivers
<1>14. C!Resume(q)
  BY <1>3, <1>4, <1>10, <1>11, <1>12, <1>13 DEF C!Resume, C!Take
<1>15. QED
  BY <1>14 DEF C!Next

LEMMA MoveImplements ==
    ASSUME RingInv, Reads, Reads', NEW q \in Queue, Move(q), ~split'
    PROVE  UNCHANGED C!vars
<1>1. TypeOK /\ rcv[q] \in Receiver /\ rcv[q].st = "copied"
  BY DEF RingInv, TypeOK, Move
<1>2. /\ rcv'[q] = Idle
      /\ \A p \in Queue : p # q => rcv'[p] = rcv[p]
      /\ valid' = valid /\ chan' = chan /\ split' = split
  BY <1>1 DEF Move, TypeOK
<1>3. \A p \in Queue :
         /\ Unread[p] = IF valid[p] THEN chan[p] ELSE << >>
         /\ Unread'[p] = IF valid'[p] THEN chan'[p] ELSE << >>
         /\ Receiving[p] = Seen(rcv[p]) /\ Receiving'[p] = Seen(rcv'[p])
  BY <1>2, ChannelSees
<1>4. Receiving'[q] = Receiving[q]
  BY <1>1, <1>2, <1>3, ReceiverIs, SeenIs
<1>5. \A p \in Queue : Unread'[p] = Unread[p] /\ Receiving'[p] = Receiving[p]
  BY <1>2, <1>3, <1>4
<1>6. Unread' = Unread /\ Receiving' = Receiving
  BY <1>2, <1>5, ChannelSees, NoneChanges
<1>7. QED
  BY <1>2, <1>6 DEF C!vars

LEMMA RingStep ==
    RingInv /\ Reads /\ Reads' /\ [Next]_vars => [split' \/ C!Next]_(C!vars)
<1> SUFFICES ASSUME RingInv, Reads, Reads', [Next]_vars, ~split'
             PROVE  C!Next \/ UNCHANGED C!vars
  OBVIOUS
<1>1. CASE UNCHANGED vars
  <2>1. valid' = valid /\ chan' = chan /\ rcv' = rcv /\ split' = split
    BY <1>1 DEF vars, bufVars
  <2>2. \A p \in Queue : Unread'[p] = Unread[p] /\ Receiving'[p] = Receiving[p]
    BY <2>1, ChannelSees
  <2>3. Unread' = Unread /\ Receiving' = Receiving
    BY <2>1, <2>2, ChannelSees, NoneChanges
  <2>4. QED
    BY <2>1, <2>3 DEF C!vars
<1>2. CASE Next
  BY <1>2, CreateImplements, DeleteImplements, SendImplements, ReceiveImplements,
     LookImplements, CopyImplements, MoveImplements DEF Next
<1>3. QED
  BY <1>1, <1>2

LEMMA RingInit == Init => C!Init
<1> SUFFICES ASSUME Init
             PROVE  C!Init
  OBVIOUS
<1>1. Unread = [q \in Queue |-> << >>]
  BY DEF Init, Unread
<1>2. \A q \in Queue : Seen(rcv[q]) = C!Idle
  BY SeenIs DEF Init, C!Idle, Idle
<1>3. Receiving = [q \in Queue |-> C!Idle]
  BY <1>2 DEF Receiving
<1>4. QED
  BY <1>1, <1>3 DEF C!Init, Init

(* Until a text is torn, the buffers are the channel: every message is      *)
(* received once, whole and in order, a receiver blocks only at an empty    *)
(* buffer, and a woken one finds a message.                                 *)
THEOREM RingImplementsChannel == Spec => ImplementsChannel
<1>1. Init => RingInv
  BY RingStart
<1>2. RingInv /\ [Next]_vars => RingInv'
  BY RingNext
<1>3. RingInv => Reads
  BY RingReads
<1>4. RingInv /\ Reads /\ Reads' /\ [Next]_vars => [split' \/ C!Next]_(C!vars)
  BY RingStep
<1>5. Init => C!Init
  BY RingInit
<1>6. QED
  BY <1>1, <1>2, <1>3, <1>4, <1>5, PTL DEF Spec, ImplementsChannel

LEMMA RingFinds == RingInv => (~split => WokenFinds)
<1> SUFFICES ASSUME RingInv, ~split, NEW q \in Queue, rcv[q].st = "woken"
             PROVE  Found(q)
  BY DEF WokenFinds
<1>1. TypeOK /\ rcv[q] # Idle
  BY Receivers DEF RingInv
<1>2. valid[q] /\ ~lost[q] /\ chan[q] # << >>
  BY <1>1 DEF RingInv, QueueInv, Quiet
<1>3. QED
  BY <1>1, <1>2, FrontFound DEF RingInv, QueueInv

(* The return that the code marks with "should not go here" is not reached  *)
(* before a text was torn: what msg_ring_tail shows takes such a text.      *)
THEOREM WokenFindsUntilTorn == Spec => [](~split => WokenFinds)
<1>1. Init => RingInv
  BY RingStart
<1>2. RingInv /\ [Next]_vars => RingInv'
  BY RingNext
<1>3. RingInv => (~split => WokenFinds)
  BY RingFinds
<1>4. QED
  BY <1>1, <1>2, <1>3, PTL DEF Spec
=============================================================================
