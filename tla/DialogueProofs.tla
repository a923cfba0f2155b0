--------------------------- MODULE DialogueProofs ---------------------------
(***************************************************************************)
(* Proofs about Dialogue, for any lines, any room in the two queues and    *)
(* any number of lines typed: its types, with what they say of a task that *)
(* is woken in msg_rcv, that the console is a user of Kernel, and that the *)
(* replies follow the lines.  As Dialogue does, they stop at the first     *)
(* text that is received in two pieces and where msg_send(NULL) faults.    *)
(*                                                                         *)
(* ConsoleInv adds to the invariant of Kernel what ties its wait lists to  *)
(* the two programs (WaitsOK): each task waits only for its own queue,     *)
(* only inside msg_rcv and without a timeout, and is off the list only     *)
(* with a message in the queue.  This is why a task that runs again finds  *)
(* one: the clock wakes nobody who waits, and nobody else receives.        *)
(*                                                                         *)
(* The replies need two sequences more.  The lines heard are those taken   *)
(* and then those in the queue (HeardOK); the texts shown, held, queued    *)
(* and yet to be said, read as one (Flow), hold the replies to the lines   *)
(* taken (AnswersOK).  Most steps move a text from one part of Flow to the *)
(* next, so that nothing changes; the only step that adds a reply is the   *)
(* one that takes a line.  Talk and RepliesIn are recursive functions;     *)
(* what they are of a sequence with one element more (TalkAppend,          *)
(* RepliesAppend) and of two in a row (RepliesConcat) is all that is used. *)
(***************************************************************************)
EXTENDS Dialogue, KernelProofs, SequenceTheorems

-----------------------------------------------------------------------------
(* What a dialogue leads to, and the replies among texts, one line and one  *)
(* text after the other.                                                    *)

Greeted == [state |-> "GREETING", replies |-> << >>]

\* The first n steps of Talk(s), as the function talk.
Talking(s, n, f) ==
    f = [k \in 0 .. n |-> IF k = 0 THEN Greeted ELSE Answered(f[k - 1], s[k])]

LEMMA TalkingStep ==
    ASSUME NEW s, NEW n \in Nat, NEW f, Talking(s, n, f)
    PROVE  /\ f[0] = Greeted
           /\ \A k \in 1 .. n : f[k] = Answered(f[k - 1], s[k])
<1>1. f = [k \in 0 .. n |-> IF k = 0 THEN Greeted ELSE Answered(f[k - 1], s[k])]
  BY DEF Talking
<1>2. 0 \in 0 .. n /\ \A k \in 1 .. n : k \in 0 .. n /\ k # 0
  OBVIOUS
<1>3. QED
  BY <1>1, <1>2

LEMMA TalkingExists ==
    ASSUME NEW s, NEW n \in Nat
    PROVE  \E f : Talking(s, n, f)
<1> DEFINE Bad == {k \in Nat : ~ \E f : Talking(s, k, f)}
<1> SUFFICES Bad = {}
  OBVIOUS
<1>1. SUFFICES ASSUME Bad # {}
               PROVE  FALSE
  OBVIOUS
<1>2. PICK k \in Bad : \A j \in Bad : k <= j
  <2>1. Bad \in SUBSET Nat
    OBVIOUS
  <2> HIDE DEF Bad
  <2>2. QED
    BY <1>1, <2>1, LeastNat
<1>3. k # 0
  <2>1. Talking(s, 0, [j \in 0 .. 0 |-> Greeted])
    BY DEF Talking
  <2>2. QED
    BY <1>2, <2>1
<1>4. PICK m \in Nat : k = m + 1
  <2>1. k \in Nat
    BY <1>2
  <2>2. k - 1 \in Nat /\ k = (k - 1) + 1
    BY <1>3, <2>1
  <2>3. QED
    BY <2>2
<1>5. PICK f : Talking(s, m, f)
  <2>1. m \notin Bad
    <3>1. ~ (k <= m)
      BY <1>4
    <3> HIDE DEF Bad
    <3>2. QED
      BY <1>2, <3>1
  <2>2. QED
    BY <2>1
<1> DEFINE g == [j \in 0 .. k |-> IF j = k THEN Answered(f[m], s[k]) ELSE f[j]]
<1>6. Talking(s, k, g)
  <2>1. ASSUME NEW j \in 0 .. k
        PROVE  g[j] = IF j = 0 THEN Greeted ELSE Answered(g[j - 1], s[j])
    <3>1. CASE j = k
      <4>1. j # 0 /\ j - 1 = m /\ m \in 0 .. k /\ m # k
        BY <1>4, <3>1
      <4>2. g[m] = f[m]
        BY <4>1
      <4>3. QED
        BY <3>1, <4>1, <4>2
    <3>2. CASE j # k /\ j # 0
      <4>1. j \in 1 .. m /\ j - 1 \in 0 .. k /\ j - 1 # k
        BY <1>4, <3>2
      <4>2. g[j] = f[j] /\ g[j - 1] = f[j - 1]
        BY <3>2, <4>1
      <4>3. QED
        BY <1>5, <3>2, <4>1, <4>2, TalkingStep
    <3>3. CASE j # k /\ j = 0
      <4>1. g[j] = f[0]
        BY <3>3
      <4>2. QED
        BY <1>5, <3>3, <4>1, TalkingStep
    <3>4. QED
      BY <3>1, <3>2, <3>3
  <2> HIDE DEF g
  <2>2. g = [j \in 0 .. k |-> g[j]]
    BY DEF g
  <2>3. QED
    BY <2>1, <2>2 DEF Talking
<1>7. QED
  BY <1>2, <1>6

\* Two runs over sequences that begin alike are alike.
LEMMA TalkingSame ==
    ASSUME NEW s, NEW t, NEW n \in Nat, NEW m \in Nat, n <= m, NEW f, NEW g,
           Talking(s, n, f), Talking(t, m, g), \A k \in 1 .. n : s[k] = t[k]
    PROVE  f[n] = g[n]
<1> DEFINE Bad == {k \in 0 .. n : f[k] # g[k]}
<1>1. SUFFICES ASSUME Bad # {}
               PROVE  FALSE
  <2>1. n \in 0 .. n
    OBVIOUS
  <2>2. QED
    BY <2>1
<1>2. PICK k \in Bad : \A j \in Bad : k <= j
  <2>1. Bad \in SUBSET Nat
    OBVIOUS
  <2> HIDE DEF Bad
  <2>2. QED
    BY <1>1, <2>1, LeastNat
<1>3. k \in 0 .. n /\ f[k] # g[k]
  BY <1>2
<1>4. k # 0
  BY <1>3, TalkingStep
<1>5. k \in 1 .. n /\ k \in 1 .. m /\ k - 1 \in 0 .. n /\ ~ (k <= k - 1)
  BY <1>3, <1>4
<1>6. f[k - 1] = g[k - 1]
  <2>1. k - 1 \notin Bad
    <3> HIDE DEF Bad
    <3>1. QED
      BY <1>2, <1>5
  <2>2. QED
    BY <1>5, <2>1
<1>7. f[k] = Answered(f[k - 1], s[k])
  BY <1>5, TalkingStep
<1>8. g[k] = Answered(g[k - 1], t[k])
  BY <1>5, TalkingStep
<1>9. QED
  BY <1>3, <1>5, <1>6, <1>7, <1>8

LEMMA TalkIs ==
    ASSUME NEW s, Len(s) \in Nat
    PROVE  \E f : Talking(s, Len(s), f) /\ Talk(s) = f[Len(s)]
<1> DEFINE f == CHOOSE f : Talking(s, Len(s), f)
<1>1. Talking(s, Len(s), f)
  BY TalkingExists
<1>2. Talk(s) = f[Len(s)]
  BY DEF Talk, Talking, Greeted
<1>3. QED
  BY <1>1, <1>2

LEMMA TalkAppend ==
    ASSUME NEW S, NEW s \in Seq(S), NEW l \in S
    PROVE  Talk(Append(s, l)) = Answered(Talk(s), l)
<1> DEFINE t == Append(s, l)
           n == Len(s)
<1>1. n \in Nat /\ Len(t) = n + 1 /\ t[n + 1] = l /\ \A k \in 1 .. n : t[k] = s[k]
  BY AppendProperties, LenProperties
<1> HIDE DEF t, n
<1>2. PICK f : Talking(s, n, f) /\ Talk(s) = f[n]
  BY <1>1, TalkIs DEF n
<1>3. PICK g : Talking(t, n + 1, g) /\ Talk(t) = g[n + 1]
  BY <1>1, TalkIs
<1>4. n + 1 \in Nat /\ n <= n + 1 /\ n + 1 \in 1 .. n + 1 /\ (n + 1) - 1 = n
  BY <1>1
<1>5. f[n] = g[n]
  BY <1>1, <1>2, <1>3, <1>4, TalkingSame
<1>6. g[n + 1] = Answered(g[n], l)
  BY <1>1, <1>3, <1>4, TalkingStep
<1>7. QED
  BY <1>2, <1>3, <1>5, <1>6 DEF t

LEMMA TalkEmpty == Talk(<< >>) = Greeted
<1>1. Len(<< >>) = 0
  OBVIOUS
<1>2. PICK f : Talking(<< >>, 0, f) /\ Talk(<< >>) = f[0]
  BY <1>1, TalkIs
<1>3. QED
  BY <1>2, TalkingStep

\* The same of RepliesIn.
Choosing(s, n, f) ==
    f = [k \in 0 .. n |-> IF k = 0 THEN << >> ELSE Chosen(f[k - 1], s[k])]

LEMMA ChoosingStep ==
    ASSUME NEW s, NEW n \in Nat, NEW f, Choosing(s, n, f)
    PROVE  /\ f[0] = << >>
           /\ \A k \in 1 .. n : f[k] = Chosen(f[k - 1], s[k])
<1>1. f = [k \in 0 .. n |-> IF k = 0 THEN << >> ELSE Chosen(f[k - 1], s[k])]
  BY DEF Choosing
<1>2. 0 \in 0 .. n /\ \A k \in 1 .. n : k \in 0 .. n /\ k # 0
  OBVIOUS
<1>3. QED
  BY <1>1, <1>2

LEMMA ChoosingExists ==
    ASSUME NEW s, NEW n \in Nat
    PROVE  \E f : Choosing(s, n, f)
<1> DEFINE Bad == {k \in Nat : ~ \E f : Choosing(s, k, f)}
<1> SUFFICES Bad = {}
  OBVIOUS
<1>1. SUFFICES ASSUME Bad # {}
               PROVE  FALSE
  OBVIOUS
<1>2. PICK k \in Bad : \A j \in Bad : k <= j
  <2>1. Bad \in SUBSET Nat
    OBVIOUS
  <2> HIDE DEF Bad
  <2>2. QED
    BY <1>1, <2>1, LeastNat
<1>3. k # 0
  <2>1. Choosing(s, 0, [j \in 0 .. 0 |-> << >>])
    BY DEF Choosing
  <2>2. QED
    BY <1>2, <2>1
<1>4. PICK m \in Nat : k = m + 1
  <2>1. k \in Nat
    BY <1>2
  <2>2. k - 1 \in Nat /\ k = (k - 1) + 1
    BY <1>3, <2>1
  <2>3. QED
    BY <2>2
<1>5. PICK f : Choosing(s, m, f)
  <2>1. m \notin Bad
    <3>1. ~ (k <= m)
      BY <1>4
    <3> HIDE DEF Bad
    <3>2. QED
      BY <1>2, <3>1
  <2>2. QED
    BY <2>1
<1> DEFINE g == [j \in 0 .. k |-> IF j = k THEN Chosen(f[m], s[k]) ELSE f[j]]
<1>6. Choosing(s, k, g)
  <2>1. ASSUME NEW j \in 0 .. k
        PROVE  g[j] = IF j = 0 THEN << >> ELSE Chosen(g[j - 1], s[j])
    <3>1. CASE j = k
      <4>1. j # 0 /\ j - 1 = m /\ m \in 0 .. k /\ m # k
        BY <1>4, <3>1
      <4>2. g[m] = f[m]
        BY <4>1
      <4>3. QED
        BY <3>1, <4>1, <4>2
    <3>2. CASE j # k /\ j # 0
      <4>1. j \in 1 .. m /\ j - 1 \in 0 .. k /\ j - 1 # k
        BY <1>4, <3>2
      <4>2. g[j] = f[j] /\ g[j - 1] = f[j - 1]
        BY <3>2, <4>1
      <4>3. QED
        BY <1>5, <3>2, <4>1, <4>2, ChoosingStep
    <3>3. CASE j # k /\ j = 0
      <4>1. g[j] = f[0]
        BY <3>3
      <4>2. QED
        BY <1>5, <3>3, <4>1, ChoosingStep
    <3>4. QED
      BY <3>1, <3>2, <3>3
  <2> HIDE DEF g
  <2>2. g = [j \in 0 .. k |-> g[j]]
    BY DEF g
  <2>3. QED
    BY <2>1, <2>2 DEF Choosing
<1>7. QED
  BY <1>2, <1>6

LEMMA ChoosingSame ==
    ASSUME NEW s, NEW t, NEW n \in Nat, NEW m \in Nat, n <= m, NEW f, NEW g,
           Choosing(s, n, f), Choosing(t, m, g), \A k \in 1 .. n : s[k] = t[k]
    PROVE  f[n] = g[n]
<1> DEFINE Bad == {k \in 0 .. n : f[k] # g[k]}
<1>1. SUFFICES ASSUME Bad # {}
               PROVE  FALSE
  <2>1. n \in 0 .. n
    OBVIOUS
  <2>2. QED
    BY <2>1
<1>2. PICK k \in Bad : \A j \in Bad : k <= j
  <2>1. Bad \in SUBSET Nat
    OBVIOUS
  <2> HIDE DEF Bad
  <2>2. QED
    BY <1>1, <2>1, LeastNat
<1>3. k \in 0 .. n /\ f[k] # g[k]
  BY <1>2
<1>4. k # 0
  BY <1>3, ChoosingStep
<1>5. k \in 1 .. n /\ k \in 1 .. m /\ k - 1 \in 0 .. n /\ ~ (k <= k - 1)
  BY <1>3, <1>4
<1>6. f[k - 1] = g[k - 1]
  <2>1. k - 1 \notin Bad
    <3> HIDE DEF Bad
    <3>1. QED
      BY <1>2, <1>5
  <2>2. QED
    BY <1>5, <2>1
<1>7. f[k] = Chosen(f[k - 1], s[k])
  BY <1>5, ChoosingStep
<1>8. g[k] = Chosen(g[k - 1], t[k])
  BY <1>5, ChoosingStep
<1>9. QED
  BY <1>3, <1>5, <1>6, <1>7, <1>8

LEMMA RepliesInIs ==
    ASSUME NEW s, Len(s) \in Nat
    PROVE  \E f : Choosing(s, Len(s), f) /\ RepliesIn(s) = f[Len(s)]
<1> DEFINE f == CHOOSE f : Choosing(s, Len(s), f)
<1>1. Choosing(s, Len(s), f)
  BY ChoosingExists
<1>2. RepliesIn(s) = f[Len(s)]
  BY DEF RepliesIn, Choosing
<1>3. QED
  BY <1>1, <1>2

LEMMA RepliesAppend ==
    ASSUME NEW S, NEW s \in Seq(S), NEW l \in S
    PROVE  RepliesIn(Append(s, l)) = Chosen(RepliesIn(s), l)
<1> DEFINE t == Append(s, l)
           n == Len(s)
<1>1. n \in Nat /\ Len(t) = n + 1 /\ t[n + 1] = l /\ \A k \in 1 .. n : t[k] = s[k]
  BY AppendProperties, LenProperties
<1> HIDE DEF t, n
<1>2. PICK f : Choosing(s, n, f) /\ RepliesIn(s) = f[n]
  BY <1>1, RepliesInIs DEF n
<1>3. PICK g : Choosing(t, n + 1, g) /\ RepliesIn(t) = g[n + 1]
  BY <1>1, RepliesInIs
<1>4. n + 1 \in Nat /\ n <= n + 1 /\ n + 1 \in 1 .. n + 1 /\ (n + 1) - 1 = n
  BY <1>1
<1>5. f[n] = g[n]
  BY <1>1, <1>2, <1>3, <1>4, ChoosingSame
<1>6. g[n + 1] = Chosen(g[n], l)
  BY <1>1, <1>3, <1>4, ChoosingStep
<1>7. QED
  BY <1>2, <1>3, <1>5, <1>6 DEF t

LEMMA RepliesEmpty == RepliesIn(<< >>) = << >>
<1>1. Len(<< >>) = 0
  OBVIOUS
<1>2. PICK f : Choosing(<< >>, 0, f) /\ RepliesIn(<< >>) = f[0]
  BY <1>1, RepliesInIs
<1>3. QED
  BY <1>2, ChoosingStep

LEMMA RepliesInType ==
    ASSUME NEW S, NEW s \in Seq(S)
    PROVE  RepliesIn(s) \in Seq(Replies)
<1> DEFINE n == Len(s)
<1>1. n \in Nat
  BY LenProperties
<1> HIDE DEF n
<1>2. PICK f : Choosing(s, n, f) /\ RepliesIn(s) = f[n]
  BY <1>1, RepliesInIs DEF n
<1> DEFINE Bad == {k \in 0 .. n : f[k] \notin Seq(Replies)}
<1>3. SUFFICES ASSUME Bad # {}
               PROVE  FALSE
  <2>1. n \in 0 .. n
    BY <1>1
  <2>2. QED
    BY <1>2, <2>1
<1>4. PICK k \in Bad : \A j \in Bad : k <= j
  <2>1. Bad \in SUBSET Nat
    BY <1>1
  <2> HIDE DEF Bad
  <2>2. QED
    BY <1>3, <2>1, LeastNat
<1>5. k \in 0 .. n /\ f[k] \notin Seq(Replies)
  BY <1>4
<1>6. k # 0
  <2>1. f[0] = << >> /\ << >> \in Seq(Replies)
    BY <1>1, <1>2, ChoosingStep
  <2>2. QED
    BY <1>5, <2>1
<1>7. k \in 1 .. n /\ k - 1 \in 0 .. n /\ ~ (k <= k - 1)
  BY <1>1, <1>5, <1>6
<1>8. f[k - 1] \in Seq(Replies)
  <2>1. k - 1 \notin Bad
    <3> HIDE DEF Bad
    <3>1. QED
      BY <1>4, <1>7
  <2>2. QED
    BY <1>7, <2>1
<1>9. f[k] = Chosen(f[k - 1], s[k])
  BY <1>1, <1>2, <1>7, ChoosingStep
<1>10. QED
  BY <1>5, <1>8, <1>9, AppendProperties DEF Chosen

\* The replies among texts that are put together.
LEMMA RepliesConcat ==
    ASSUME NEW S, NEW s \in Seq(S), NEW t \in Seq(S)
    PROVE  RepliesIn(s \o t) = RepliesIn(s) \o RepliesIn(t)
<1> DEFINE P(k) == RepliesIn(s \o SubSeq(t, 1, k)) = RepliesIn(s) \o RepliesIn(SubSeq(t, 1, k))
           Bad == {k \in 0 .. Len(t) : ~ P(k)}
<1>1. Len(t) \in Nat
  BY LenProperties
<1>2. P(Len(t)) => RepliesIn(s \o t) = RepliesIn(s) \o RepliesIn(t)
  BY SubSeqFull
<1>3. SUFFICES ASSUME Bad # {}
               PROVE  FALSE
  <2>1. Len(t) \in 0 .. Len(t)
    BY <1>1
  <2>2. QED
    BY <1>2, <2>1
<1>4. PICK k \in Bad : \A j \in Bad : k <= j
  <2>1. Bad \in SUBSET Nat
    BY <1>1
  <2> HIDE DEF Bad
  <2>2. QED
    BY <1>3, <2>1, LeastNat
<1>5. k \in 0 .. Len(t) /\ ~ P(k)
  BY <1>4
<1>6. RepliesIn(s) \in Seq(Replies)
  BY RepliesInType
<1>7. k # 0
  <2>1. SUFFICES ASSUME k = 0
                 PROVE  FALSE
    OBVIOUS
  <2>2. SubSeq(t, 1, 0) = << >>
    BY SubSeqEmpty, <1>1
  <2>3. s \o << >> = s /\ RepliesIn(s) \o << >> = RepliesIn(s)
    BY <1>6, ConcatEmptySeq
  <2>4. QED
    BY <1>5, <2>1, <2>2, <2>3, RepliesEmpty
<1>8. PICK j \in Nat : k = j + 1
  <2>1. k - 1 \in Nat /\ k = (k - 1) + 1
    BY <1>1, <1>5, <1>7
  <2>2. QED
    BY <2>1
<1>9. P(j)
  <2>1. j \notin Bad
    <3>1. ~ (k <= j)
      BY <1>8
    <3> HIDE DEF Bad
    <3>2. QED
      BY <1>4, <3>1
  <2>2. j \in 0 .. Len(t)
    BY <1>1, <1>5, <1>8
  <2>3. QED
    BY <2>1, <2>2
<1> DEFINE u == SubSeq(t, 1, j)
           x == t[k]
<1>10. u \in Seq(S) /\ x \in S /\ SubSeq(t, 1, k) = Append(u, x)
  <2>1. k \in 1 .. Len(t) /\ 1 <= k /\ j = k - 1
    BY <1>1, <1>5, <1>7, <1>8
  <2>2. x \in S
    BY <2>1, ElementOfSeq
  <2>3. SubSeq(t, 1, k) = Append(SubSeq(t, 1, k - 1), t[k])
    BY <1>1, <2>1, SubSeqRecursiveSecond
  <2>4. u \in Seq(S)
    BY <1>1, <2>1, SubSeqProperties
  <2>5. QED
    BY <2>1, <2>2, <2>3, <2>4
<1> HIDE DEF u, x
<1>11. RepliesIn(u) \in Seq(Replies) /\ s \o u \in Seq(S)
  BY <1>10, RepliesInType, ConcatProperties
<1>12. s \o Append(u, x) = Append(s \o u, x)
  BY <1>10
<1>13. RepliesIn(s \o Append(u, x)) = Chosen(RepliesIn(s) \o RepliesIn(u), x)
  BY <1>9, <1>10, <1>11, <1>12, RepliesAppend DEF u
<1>14. RepliesIn(Append(u, x)) = Chosen(RepliesIn(u), x)
  BY <1>10, RepliesAppend
<1>15. Chosen(RepliesIn(s) \o RepliesIn(u), x) = RepliesIn(s) \o Chosen(RepliesIn(u), x)
  <2>1. \A a, b \in Seq(Replies) : \A y \in Replies : Append(a \o b, y) = a \o Append(b, y)
    <3>1. SUFFICES ASSUME NEW a \in Seq(Replies), NEW b \in Seq(Replies), NEW y \in Replies
                   PROVE  Append(a \o b, y) = a \o Append(b, y)
      OBVIOUS
    <3>2. <<y>> \in Seq(Replies) /\ a \o b \in Seq(Replies)
      BY ConcatProperties
    <3>3. Append(a \o b, y) = (a \o b) \o <<y>> /\ Append(b, y) = b \o <<y>>
      BY <3>2, AppendIsConcat
    <3>4. QED
      BY <3>2, <3>3, ConcatAssociative
  <2>2. CASE x \in Replies
    BY <1>6, <1>11, <2>1, <2>2 DEF Chosen
  <2>3. CASE x \notin Replies
    BY <2>3 DEF Chosen
  <2>4. QED
    BY <2>2, <2>3
<1>16. QED
  BY <1>5, <1>10, <1>13, <1>14, <1>15

-----------------------------------------------------------------------------
(* The invariant. *)

Console == {print_task, ltai}
QueueOf(t) == IF t = print_task THEN Prints ELSE Lines

\* What the queues hold, and where the tasks are.
QueuesOK ==
    /\ made \subseteq Obj
    /\ chan \in [Obj -> Seq(Line \cup Text)]
    /\ chan[Lines] \in Seq(Line) /\ Len(chan[Lines]) <= LineRoom
    /\ chan[Prints] \in Seq(Text) /\ Len(chan[Prints]) <= TextRoom
    /\ \A q \in Obj \ made : chan[q] = << >>

PlacesOK ==
    /\ pc \in [Console -> {"start", "receive", "waiting", "delay", "show", "banner", "answer"}]
    /\ pc[print_task] \in {"start", "receive", "waiting", "delay", "show"}
    /\ pc[ltai] \in {"start", "banner", "receive", "waiting", "answer"}

TextsOK ==
    /\ todo \in Seq(Text)
    /\ ltai_cur_state \in State
    /\ shown \in Seq(Text \cup {NotStarted})
    /\ pc[print_task] \in {"delay", "show"} => msg_buf \in Text
    /\ pc[ltai] \notin {"banner", "answer"} => todo = << >>

\* A task waits without a timeout, only on its own queue and only inside
\* msg_rcv; taken off the list, it has a message to look for.
WaitsOK ==
    /\ \A t \in Console :
          /\ pc[t] = "waiting" => /\ task_sleeptime[t] = 0
                                  /\ wait_id[t] = NULL => chan[QueueOf(t)] # << >>
          /\ wait_id[t] # NULL => pc[t] = "waiting" /\ wait_id[t] = QueueOf(t)
    /\ \A t \in Slot \ Console : wait_id[t] = NULL

\* In ltprintf ltai has a text to send.
MarksOK ==
    /\ looked \in BOOLEAN /\ (looked => todo # << >>)
    /\ ended \in {"no", "torn", "fault"}

ConsoleInv == Inv /\ QueuesOK /\ PlacesOK /\ TextsOK /\ MarksOK /\ WaitsOK

LEMMA ConsoleFacts ==
    /\ Obj = {Lines, Prints} /\ Lines # Prints /\ Lines # NULL /\ Prints # NULL
    /\ Slot = {0, 1, 2} /\ Console = {1, 2} /\ print_task = 1 /\ ltai = 2 /\ Idle = 0
    /\ 0 \in Delay /\ 1 \in Delay
    /\ LineRoom \in Nat \ {0} /\ TextRoom \in Nat \ {0}
    /\ Banner \in Text /\ Prompt \in Text
<1>1. Obj = {Lines, Prints} /\ Lines # Prints /\ Lines # NULL /\ Prints # NULL
  BY DialogueAssumption, KernelAssumption DEF Lines, Prints
<1>2. 0 .. 3 - 1 = {0, 1, 2}
  OBVIOUS
<1>3. Slot = {0, 1, 2} /\ Console = {1, 2} /\ print_task = 1 /\ ltai = 2 /\ Idle = 0
  BY <1>2, DialogueAssumption DEF Slot, Console, print_task, ltai, Idle
<1>4. 0 \in Delay /\ 1 \in Delay /\ LineRoom \in Nat \ {0} /\ TextRoom \in Nat \ {0}
  BY DialogueAssumption
<1>5. QED
  BY <1>1, <1>3, <1>4 DEF Text

\* The running task waits for nothing.
LEMMA RunnerFree ==
    ASSUME ConsoleInv, NEW t \in Console, task_cur = t
    PROVE  wait_id[t] = NULL /\ (pc[t] = "waiting" => chan[QueueOf(t)] # << >>)
<1>1. t # Idle /\ t \in Slot
  BY ConsoleFacts
<1>2. task_state[t] = RUN
  BY <1>1 DEF ConsoleInv, Inv, OneRunning
<1>3. wait_id[t] = NULL
  BY <1>1, <1>2 DEF ConsoleInv, Inv, WaitingIsPending, RUN, PEND
<1>4. QED
  BY <1>3 DEF ConsoleInv, WaitsOK

LEMMA ConsoleTypes == ConsoleInv => DialogueTypeOK
<1> SUFFICES ASSUME ConsoleInv
             PROVE  DialogueTypeOK
  OBVIOUS
<1>1. task_cur = print_task /\ pc[print_task] = "waiting" => chan[Prints] # << >>
  BY RunnerFree DEF Console, QueueOf
<1>2. task_cur = ltai /\ pc[ltai] = "waiting" => chan[Lines] # << >>
  BY RunnerFree, ConsoleFacts DEF Console, QueueOf
<1>3. QED
  BY <1>1, <1>2 DEF ConsoleInv, QueuesOK, PlacesOK, TextsOK, MarksOK, DialogueTypeOK

LEMMA ConsoleStart == DialogueInit => ConsoleInv
<1> SUFFICES ASSUME DialogueInit
             PROVE  ConsoleInv
  OBVIOUS
<1>1. Inv /\ wait_id = [t \in Slot |-> NULL] /\ task_sleeptime = [t \in Slot |-> 0]
  BY InitInv DEF DialogueInit, Init, TaskInit
<1>2. made = {} /\ chan = [q \in Obj |-> << >>] /\ pc = [t \in Console |-> "start"]
  BY DEF DialogueInit, Console
<1>3. QueuesOK
  <2>1. << >> \in Seq(Line) /\ << >> \in Seq(Text) /\ << >> \in Seq(Line \cup Text) /\ Len(<< >>) = 0
    OBVIOUS
  <2>2. QED
    BY <1>2, <2>1, ConsoleFacts DEF QueuesOK
<1>4. PlacesOK
  BY <1>2, ConsoleFacts DEF PlacesOK
<1>5. TextsOK
  <2>1. << >> \in Seq(Text) /\ << >> \in Seq(Text \cup {NotStarted})
    OBVIOUS
  <2>2. "GREETING" \in State
    BY DEF State, ltai_state
  <2>3. pc[print_task] = "start"
    BY <1>2, ConsoleFacts
  <2>4. QED
    BY <2>1, <2>2, <2>3 DEF DialogueInit, TextsOK
<1>6. WaitsOK
  BY <1>1, <1>2, ConsoleFacts DEF WaitsOK
<1>7. MarksOK
  BY DEF DialogueInit, MarksOK
<1>8. QED
  BY <1>1, <1>3, <1>4, <1>5, <1>6, <1>7 DEF ConsoleInv

-----------------------------------------------------------------------------
(* What the steps do to the waits of the two tasks. *)

\* A message that is accepted wakes its receiver, if there is one.
LEMMA SendEffect ==
    ASSUME ConsoleInv, NEW q \in Obj, NEW m, msg_send(q, m)
    PROVE  /\ [Next]_vars
           /\ chan' = IF Accepts(q) THEN [chan EXCEPT ![q] = Append(@, m)] ELSE chan
           /\ \A t \in Slot : task_sleeptime[t] = 0 => task_sleeptime'[t] = 0
           /\ \A t \in Slot : \/ wait_id'[t] = wait_id[t]
                              \/ wait_id'[t] = NULL /\ wait_id[t] = q /\ Accepts(q)
<1>1. CASE ~ Accepts(q) \/ Waiters(q) = {}
  <2>1. UNCHANGED vars /\ chan' = IF Accepts(q) THEN [chan EXCEPT ![q] = Append(@, m)] ELSE chan
    BY <1>1 DEF msg_send, WakeFor
  <2>2. QED
    BY <2>1 DEF vars, taskVars, listVars
<1>2. CASE Accepts(q) /\ Waiters(q) # {}
  <2>1. Signal(q) /\ chan' = [chan EXCEPT ![q] = Append(@, m)]
    BY <1>2 DEF msg_send, WakeFor
  <2>2. PICK u \in Waiters(q) : ReadyTask(u) /\ Unlink({u})
    BY <2>1 DEF Signal
  <2>3. u \in Slot /\ wait_id[u] = q
    BY <2>2 DEF Waiters
  <2>4. /\ task_sleeptime' = [task_sleeptime EXCEPT ![u] = 0]
        /\ wait_id' = [t \in Slot |-> IF t \in {u} THEN NULL ELSE wait_id[t]]
    BY <2>2 DEF ReadyTask, Unlink
  <2>5. task_sleeptime \in [Slot -> Nat]
    BY DEF ConsoleInv, Inv, TypeOK, TaskTypeOK
  <2>6. \A t \in Slot : task_sleeptime[t] = 0 => task_sleeptime'[t] = 0
    BY <2>3, <2>4, <2>5
  <2>7. \A t \in Slot : wait_id'[t] = wait_id[t] \/ (wait_id'[t] = NULL /\ wait_id[t] = q)
    BY <2>3, <2>4
  <2>8. QED
    BY <1>2, <2>1, <2>6, <2>7 DEF Next
<1>3. QED
  BY <1>1, <1>2

\* Nothing but the end of a wait on a queue with a message in it.
LEMMA WaitsKept ==
    ASSUME ConsoleInv, pc' = pc,
           \A t \in Slot : task_sleeptime[t] = 0 => task_sleeptime'[t] = 0,
           \A t \in Slot : \/ wait_id'[t] = wait_id[t]
                           \/ wait_id'[t] = NULL /\ chan'[wait_id[t]] # << >>,
           \A q \in Obj : chan[q] # << >> => chan'[q] # << >>
    PROVE  WaitsOK'
<1>1. ASSUME NEW t \in Console
      PROVE  /\ pc'[t] = "waiting" => /\ task_sleeptime'[t] = 0
                                      /\ wait_id'[t] = NULL => chan'[QueueOf(t)] # << >>
             /\ wait_id'[t] # NULL => pc'[t] = "waiting" /\ wait_id'[t] = QueueOf(t)
  <2>1. t \in Slot /\ QueueOf(t) \in Obj
    BY ConsoleFacts DEF QueueOf
  <2>2. /\ pc[t] = "waiting" => /\ task_sleeptime[t] = 0
                                /\ wait_id[t] = NULL => chan[QueueOf(t)] # << >>
        /\ wait_id[t] # NULL => pc[t] = "waiting" /\ wait_id[t] = QueueOf(t)
    BY DEF ConsoleInv, WaitsOK
  <2>3. QED
    BY <2>1, <2>2
<1>2. ASSUME NEW t \in Slot \ Console
      PROVE  wait_id'[t] = NULL
  BY DEF ConsoleInv, WaitsOK
<1>3. QED
  BY <1>1, <1>2 DEF WaitsOK, QueueOf, Console

\* A step of the running task that does not begin a wait.
LEMMA WaitsMoved ==
    ASSUME ConsoleInv, NEW t \in Console, task_cur = t, NEW l, l # "waiting",
           pc' = [pc EXCEPT ![t] = l], wait_id' = wait_id,
           \A u \in Slot \ {t} : task_sleeptime'[u] = task_sleeptime[u],
           \A q \in Obj \ {QueueOf(t)} : chan'[q] = chan[q]
    PROVE  WaitsOK'
<1>1. wait_id[t] = NULL
  BY RunnerFree
<1>2. ASSUME NEW u \in Console
      PROVE  /\ pc'[u] = "waiting" => /\ task_sleeptime'[u] = 0
                                      /\ wait_id'[u] = NULL => chan'[QueueOf(u)] # << >>
             /\ wait_id'[u] # NULL => pc'[u] = "waiting" /\ wait_id'[u] = QueueOf(u)
  <2>1. CASE u = t
    <3>1. pc'[u] = l /\ wait_id'[u] = NULL
      BY <1>1, <2>1 DEF ConsoleInv, PlacesOK
    <3>2. QED
      BY <3>1
  <2>2. CASE u # t
    <3>1. pc'[u] = pc[u] /\ u \in Slot \ {t}
      BY <2>2, ConsoleFacts DEF ConsoleInv, PlacesOK
    <3>2. QueueOf(u) \in Obj \ {QueueOf(t)}
      BY <2>2, ConsoleFacts DEF QueueOf
    <3>3. QED
      BY <3>1, <3>2 DEF ConsoleInv, WaitsOK
  <2>3. QED
    BY <2>1, <2>2
<1>3. ASSUME NEW u \in Slot \ Console
      PROVE  wait_id'[u] = NULL
  BY DEF ConsoleInv, WaitsOK
<1>4. QED
  BY <1>2, <1>3 DEF WaitsOK, QueueOf, Console

\* A message that is sent leaves the queues in order.
LEMMA QueuesSent ==
    ASSUME ConsoleInv, NEW q \in Obj, NEW m,
           m \in IF q = Lines THEN Line ELSE Text, made' = made,
           chan' = IF Accepts(q) THEN [chan EXCEPT ![q] = Append(@, m)] ELSE chan
    PROVE  QueuesOK' /\ \A p \in Obj : chan[p] # << >> => chan'[p] # << >>
<1>1. CASE ~ Accepts(q)
  BY <1>1 DEF ConsoleInv, QueuesOK
<1>2. CASE Accepts(q) /\ q = Lines
  <2>1. q \in made /\ Len(chan[q]) < LineRoom /\ chan' = [chan EXCEPT ![q] = Append(@, m)]
    BY <1>2 DEF Accepts, Room
  <2>2. /\ chan \in [Obj -> Seq(Line \cup Text)] /\ chan[q] \in Seq(Line)
        /\ chan[Prints] \in Seq(Text) /\ Len(chan[Prints]) <= TextRoom
    BY <1>2 DEF ConsoleInv, QueuesOK
  <2>3. /\ Append(chan[q], m) \in Seq(Line) /\ Append(chan[q], m) \in Seq(Line \cup Text)
        /\ Append(chan[q], m) # << >> /\ Len(Append(chan[q], m)) = Len(chan[q]) + 1
    BY <1>2, <2>2, AppendProperties
  <2>4. Len(Append(chan[q], m)) <= LineRoom
    <3>1. Len(chan[q]) \in Nat /\ LineRoom \in Nat
      BY <2>2, ConsoleFacts, LenProperties
    <3>2. QED
      BY <2>1, <2>3, <3>1
  <2>5. chan'[q] = Append(chan[q], m) /\ \A p \in Obj \ {q} : chan'[p] = chan[p]
    BY <2>1, <2>2
  <2>6. chan' \in [Obj -> Seq(Line \cup Text)]
    BY <2>1, <2>2, <2>3
  <2>7. QED
    BY <1>2, <2>1, <2>3, <2>4, <2>5, <2>6, ConsoleFacts DEF ConsoleInv, QueuesOK
<1>3. CASE Accepts(q) /\ q # Lines
  <2>0. q = Prints
    BY <1>3, ConsoleFacts
  <2>1. q \in made /\ Len(chan[q]) < TextRoom /\ chan' = [chan EXCEPT ![q] = Append(@, m)]
    BY <1>3 DEF Accepts, Room
  <2>2. /\ chan \in [Obj -> Seq(Line \cup Text)] /\ chan[q] \in Seq(Text)
        /\ chan[Lines] \in Seq(Line) /\ Len(chan[Lines]) <= LineRoom
    BY <2>0 DEF ConsoleInv, QueuesOK
  <2>3. /\ Append(chan[q], m) \in Seq(Text) /\ Append(chan[q], m) \in Seq(Line \cup Text)
        /\ Append(chan[q], m) # << >> /\ Len(Append(chan[q], m)) = Len(chan[q]) + 1
    BY <1>3, <2>2, AppendProperties
  <2>4. Len(Append(chan[q], m)) <= TextRoom
    <3>1. Len(chan[q]) \in Nat /\ TextRoom \in Nat
      BY <2>2, ConsoleFacts, LenProperties
    <3>2. QED
      BY <2>1, <2>3, <3>1
  <2>5. chan'[q] = Append(chan[q], m) /\ \A p \in Obj \ {q} : chan'[p] = chan[p]
    BY <2>1, <2>2
  <2>6. chan' \in [Obj -> Seq(Line \cup Text)]
    BY <2>1, <2>2, <2>3
  <2>7. QED
    BY <2>0, <2>1, <2>2, <2>3, <2>4, <2>5, <2>6, ConsoleFacts DEF ConsoleInv, QueuesOK
<1>4. QED
  BY <1>1, <1>2, <1>3

\* So does one that is received, or left where it is.
LEMMA QueuesReceived ==
    ASSUME ConsoleInv, NEW q \in Obj, chan[q] # << >>, made' = made,
           chan' = chan \/ chan' = [chan EXCEPT ![q] = Tail(@)]
    PROVE  /\ QueuesOK'
           /\ \A p \in Obj \ {q} : chan'[p] = chan[p]
           /\ Head(chan[q]) \in IF q = Lines THEN Line ELSE Text
<1>0. chan[q] \in Seq(IF q = Lines THEN Line ELSE Text) /\ chan[q] \in Seq(Line \cup Text)
  BY ConsoleFacts DEF ConsoleInv, QueuesOK
<1>1. /\ Head(chan[q]) \in IF q = Lines THEN Line ELSE Text
      /\ Tail(chan[q]) \in Seq(IF q = Lines THEN Line ELSE Text)
      /\ Tail(chan[q]) \in Seq(Line \cup Text)
      /\ Len(Tail(chan[q])) = Len(chan[q]) - 1
      /\ Len(chan[q]) \in Nat
  BY <1>0, HeadTailProperties, LenProperties
<1>2. CASE chan' = chan
  BY <1>1, <1>2 DEF ConsoleInv, QueuesOK
<1>3. CASE chan' = [chan EXCEPT ![q] = Tail(@)]
  <2>1. /\ chan \in [Obj -> Seq(Line \cup Text)] /\ chan[Lines] \in Seq(Line)
        /\ chan[Prints] \in Seq(Text) /\ Len(chan[Lines]) <= LineRoom
        /\ Len(chan[Prints]) <= TextRoom /\ q \in made
        /\ \A p \in Obj \ made : chan[p] = << >>
    BY DEF ConsoleInv, QueuesOK
  <2>2. chan'[q] = Tail(chan[q]) /\ \A p \in Obj \ {q} : chan'[p] = chan[p]
    BY <1>3, <2>1
  <2>3. chan' \in [Obj -> Seq(Line \cup Text)]
    BY <1>1, <1>3, <2>1
  <2>4. Len(chan'[Lines]) <= LineRoom /\ Len(chan'[Prints]) <= TextRoom
    <3>1. CASE q = Lines
      <4>1. Len(chan'[q]) <= LineRoom
        <5>1. \A a, b, c \in Nat : b = a - 1 /\ a <= c => b <= c
          OBVIOUS
        <5>2. Len(chan'[q]) \in Nat /\ LineRoom \in Nat
          BY <1>1, <2>2, ConsoleFacts, LenProperties
        <5>3. QED
          BY <1>1, <2>1, <2>2, <3>1, <5>1, <5>2
      <4>2. QED
        BY <2>1, <2>2, <3>1, <4>1, ConsoleFacts
    <3>2. CASE q = Prints
      <4>1. Len(chan'[q]) <= TextRoom
        <5>1. \A a, b, c \in Nat : b = a - 1 /\ a <= c => b <= c
          OBVIOUS
        <5>2. Len(chan'[q]) \in Nat /\ TextRoom \in Nat
          BY <1>1, <2>2, ConsoleFacts, LenProperties
        <5>3. QED
          BY <1>1, <2>1, <2>2, <3>2, <5>1, <5>2
      <4>2. QED
        BY <2>1, <2>2, <3>2, <4>1, ConsoleFacts
    <3>3. QED
      BY <3>1, <3>2, ConsoleFacts
  <2>5. chan'[Lines] \in Seq(Line) /\ chan'[Prints] \in Seq(Text)
    <3>1. CASE q = Lines
      BY <1>1, <2>1, <2>2, <3>1, ConsoleFacts
    <3>2. CASE q = Prints
      <4>1. Lines \in Obj \ {q} /\ q # Lines
        BY <3>2, ConsoleFacts
      <4>2. Tail(chan[q]) \in Seq(Text)
        BY <1>1, <4>1
      <4>3. QED
        BY <2>1, <2>2, <3>2, <4>1, <4>2
    <3>3. QED
      BY <3>1, <3>2, ConsoleFacts
  <2>6. \A p \in Obj \ made' : chan'[p] = << >>
    BY <2>1, <2>2
  <2>7. made' \subseteq Obj
    BY DEF ConsoleInv, QueuesOK
  <2>8. QueuesOK'
    BY <2>3, <2>4, <2>5, <2>6, <2>7 DEF QueuesOK
  <2>9. QED
    BY <1>1, <2>2, <2>8
<1>4. QED
  BY <1>2, <1>3

-----------------------------------------------------------------------------
(* Each step is one of Kernel, or none, and keeps the invariant.            *)

Kept == [Next]_vars /\ QueuesOK' /\ PlacesOK' /\ TextsOK' /\ WaitsOK'

LEMMA PlacesMoved ==
    ASSUME ConsoleInv, NEW t \in Console, NEW l, pc' = [pc EXCEPT ![t] = l],
           l \in IF t = print_task THEN {"start", "receive", "waiting", "delay", "show"}
                 ELSE {"start", "banner", "receive", "waiting", "answer"}
    PROVE  PlacesOK' /\ pc'[t] = l /\ \A u \in Console \ {t} : pc'[u] = pc[u]
BY ConsoleFacts DEF ConsoleInv, PlacesOK

LEMMA StartsKeep ==
    ASSUME ConsoleInv, PrintStart \/ LtaiStart
    PROVE  Kept
<1>1. PICK t \in Console, q \in Obj, l \in {"receive", "banner"} :
          /\ t = print_task => l = "receive" /\ UNCHANGED todo
          /\ t = ltai => l = "banner" /\ todo' = <<Banner, Banner, Banner, Prompt>>
          /\ task_cur = t /\ pc' = [pc EXCEPT ![t] = l]
          /\ made' = made \cup {q}
          /\ UNCHANGED <<vars, chan, msg_buf, shown, ltai_cur_state>>
  <2>1. CASE PrintStart
    <3>1. /\ task_cur = print_task /\ pc' = [pc EXCEPT ![print_task] = "receive"]
          /\ made' = made \cup {Prints}
          /\ UNCHANGED <<vars, chan, msg_buf, shown, ltai_cur_state, todo>>
      BY <2>1 DEF PrintStart, msg_create, At, Goto, ltaiVars, printVars
    <3>2. print_task \in Console /\ print_task # ltai /\ Prints \in Obj
      BY ConsoleFacts
    <3>3. QED
      BY <3>1, <3>2
  <2>2. CASE LtaiStart
    <3>1. /\ task_cur = ltai /\ pc' = [pc EXCEPT ![ltai] = "banner"]
          /\ made' = made \cup {Lines} /\ todo' = <<Banner, Banner, Banner, Prompt>>
          /\ UNCHANGED <<vars, chan, msg_buf, shown, ltai_cur_state>>
      BY <2>2 DEF LtaiStart, msg_create, At, Goto, ltaiVars, printVars
    <3>2. ltai \in Console /\ print_task # ltai /\ Lines \in Obj
      BY ConsoleFacts
    <3>3. QED
      BY <3>1, <3>2
  <2>3. QED
    BY <2>1, <2>2
<1>2. PlacesOK' /\ pc'[t] = l /\ \A u \in Console \ {t} : pc'[u] = pc[u]
  BY <1>1, PlacesMoved, ConsoleFacts
<1>3. QueuesOK'
  BY <1>1 DEF ConsoleInv, QueuesOK
<1>4. UNCHANGED <<task_sleeptime, wait_id>>
  BY <1>1 DEF vars, taskVars, listVars
<1>5. WaitsOK'
  BY <1>1, <1>4, WaitsMoved
<1>6. TextsOK'
  <2>1. todo' \in Seq(Text)
    <3>1. <<Banner, Banner, Banner, Prompt>> \in Seq(Text)
      BY ConsoleFacts
    <3>2. QED
      BY <1>1, <3>1, ConsoleFacts DEF ConsoleInv, TextsOK
  <2>2. CASE t = print_task
    BY <1>1, <1>2, <2>1, <2>2, ConsoleFacts DEF ConsoleInv, TextsOK
  <2>3. CASE t = ltai
    BY <1>1, <1>2, <2>1, <2>3, ConsoleFacts DEF ConsoleInv, TextsOK
  <2>4. QED
    BY <2>2, <2>3, ConsoleFacts
<1>7. QED
  BY <1>1, <1>2, <1>3, <1>5, <1>6 DEF Kept

LEMMA BlockKeeps ==
    ASSUME ConsoleInv, NEW t \in Console, Block(t, QueueOf(t))
    PROVE  Kept
<1> DEFINE q == QueueOf(t)
<1>1. /\ task_cur = t /\ pc[t] = "receive" /\ chan[q] = << >> /\ Wait(q, 0)
      /\ pc' = [pc EXCEPT ![t] = "waiting"]
      /\ UNCHANGED <<made, chan, msg_buf, shown, todo, ltai_cur_state>>
  BY DEF Block, At, Goto, printVars, ltaiVars
<1>2. q \in Obj /\ 0 \in Delay /\ t \in Slot
  BY ConsoleFacts DEF QueueOf
<1>3. /\ [Next]_vars
      /\ wait_id' = [wait_id EXCEPT ![t] = q]
      /\ task_sleeptime' = [task_sleeptime EXCEPT ![t] = 0]
  BY <1>1, <1>2 DEF Next, Wait, BlockCur
<1>4. PlacesOK' /\ pc'[t] = "waiting" /\ \A u \in Console \ {t} : pc'[u] = pc[u]
  BY <1>1, PlacesMoved, ConsoleFacts
<1>5. QueuesOK'
  BY <1>1 DEF ConsoleInv, QueuesOK
<1>6. TextsOK'
  <2>1. CASE t = print_task
    BY <1>1, <1>4, <2>1, ConsoleFacts DEF ConsoleInv, TextsOK
  <2>2. CASE t = ltai
    BY <1>1, <1>4, <2>2, ConsoleFacts DEF ConsoleInv, TextsOK
  <2>3. QED
    BY <2>1, <2>2, ConsoleFacts
<1>7. WaitsOK'
  <2>1. ASSUME NEW u \in Console
        PROVE  /\ pc'[u] = "waiting" => /\ task_sleeptime'[u] = 0
                                        /\ wait_id'[u] = NULL => chan'[QueueOf(u)] # << >>
               /\ wait_id'[u] # NULL => pc'[u] = "waiting" /\ wait_id'[u] = QueueOf(u)
    <3>1. u \in Slot /\ task_sleeptime \in [Slot -> Nat] /\ wait_id \in [Slot -> Obj \cup {NULL}]
          /\ q # NULL
      BY <1>2, ConsoleFacts DEF ConsoleInv, Inv, TypeOK, TaskTypeOK
    <3>2. CASE u = t
      <4>1. task_sleeptime'[u] = 0 /\ wait_id'[u] = q
        BY <1>3, <3>1, <3>2
      <4>2. QED
        BY <1>4, <3>1, <3>2, <4>1
    <3>3. CASE u # t
      <4>1. task_sleeptime'[u] = task_sleeptime[u] /\ wait_id'[u] = wait_id[u]
        BY <1>3, <3>1, <3>3
      <4>2. QED
        BY <1>1, <1>4, <3>3, <4>1 DEF ConsoleInv, WaitsOK
    <3>4. QED
      BY <3>2, <3>3
  <2>2. ASSUME NEW u \in Slot \ Console
        PROVE  wait_id'[u] = NULL
    <3>1. u # t /\ wait_id[u] = NULL /\ wait_id \in [Slot -> Obj \cup {NULL}]
      BY DEF ConsoleInv, WaitsOK, Inv, TypeOK
    <3>2. QED
      BY <1>3, <3>1
  <2>3. QED
    BY <2>1, <2>2 DEF WaitsOK, QueueOf, Console
<1>8. QED
  BY <1>3, <1>4, <1>5, <1>6, <1>7 DEF Kept

\* The receiver gets past msg_rcv, with or without the message.
LEMMA ReturnEffect ==
    ASSUME ConsoleInv, NEW t \in Console, NEW buf, NEW bufn, NEW l, l # "waiting",
           l \in IF t = print_task THEN {"start", "receive", "waiting", "delay", "show"}
                 ELSE {"start", "banner", "receive", "waiting", "answer"},
           At(t, "waiting") \/ (At(t, "receive") /\ chan[QueueOf(t)] # << >>),
           IF chan[QueueOf(t)] # << >> /\ Fits(QueueOf(t), Head(chan[QueueOf(t)]))
              THEN bufn = Head(chan[QueueOf(t)])
                   /\ chan' = [chan EXCEPT ![QueueOf(t)] = Tail(@)]
              ELSE bufn = buf /\ UNCHANGED chan,
           Goto(t, l), UNCHANGED <<vars, made>>
    PROVE  /\ Kept \/ ~ TextsOK'
           /\ pc'[t] = l /\ \A u \in Console \ {t} : pc'[u] = pc[u]
           /\ chan[QueueOf(t)] # << >>
           /\ t = print_task => bufn \in Text
<1> DEFINE q == QueueOf(t)
<1>1. task_cur = t /\ q \in Obj /\ pc' = [pc EXCEPT ![t] = l]
  BY ConsoleFacts DEF At, Goto, QueueOf
<1>2. chan[q] # << >>
  BY <1>1, RunnerFree DEF At
<1>3. chan' = chan \/ chan' = [chan EXCEPT ![q] = Tail(@)]
  OBVIOUS
<1>4. /\ QueuesOK' /\ \A p \in Obj \ {q} : chan'[p] = chan[p]
      /\ Head(chan[q]) \in IF q = Lines THEN Line ELSE Text
  <2> HIDE DEF q
  <2>1. QED
    BY <1>1, <1>2, <1>3, QueuesReceived
<1>5. PlacesOK' /\ pc'[t] = l /\ \A u \in Console \ {t} : pc'[u] = pc[u]
  BY <1>1, PlacesMoved
<1>6. UNCHANGED vars /\ UNCHANGED <<task_sleeptime, wait_id>>
  BY DEF vars, taskVars, listVars
<1>7. WaitsOK'
  BY <1>1, <1>4, <1>6, WaitsMoved
<1>8. t = print_task => bufn \in Text
  <2>1. SUFFICES ASSUME t = print_task
                 PROVE  bufn \in Text
    OBVIOUS
  <2>2. q = Prints /\ q # Lines
    BY <2>1, ConsoleFacts DEF QueueOf
  <2>3. Fits(q, Head(chan[q]))
    BY <2>2 DEF Fits
  <2>4. QED
    BY <1>2, <1>4, <2>2, <2>3
<1>9. QED
  BY <1>2, <1>4, <1>5, <1>6, <1>7, <1>8 DEF Kept

LEMMA PrintReceiveKeeps ==
    ASSUME ConsoleInv, PrintReceive
    PROVE  Kept
<1>1. /\ At(print_task, "waiting") \/ (At(print_task, "receive") /\ chan[Prints] # << >>)
      /\ IF chan[Prints] # << >> /\ Fits(Prints, Head(chan[Prints]))
            THEN msg_buf' = Head(chan[Prints]) /\ chan' = [chan EXCEPT ![Prints] = Tail(@)]
            ELSE msg_buf' = msg_buf /\ UNCHANGED chan
      /\ Goto(print_task, "delay")
      /\ UNCHANGED <<vars, made>>
      /\ UNCHANGED <<shown, todo, ltai_cur_state>>
  BY DEF PrintReceive, Return, ltaiVars
<1>2. print_task \in Console /\ QueueOf(print_task) = Prints
  BY ConsoleFacts DEF QueueOf
<1>3. /\ Kept \/ ~ TextsOK'
      /\ pc'[print_task] = "delay" /\ \A u \in Console \ {print_task} : pc'[u] = pc[u]
      /\ msg_buf' \in Text
  BY <1>1, <1>2, ReturnEffect
<1>4. TextsOK'
  BY <1>1, <1>3, ConsoleFacts DEF ConsoleInv, TextsOK
<1>5. QED
  BY <1>3, <1>4

LEMMA ReplyType ==
    ASSUME NEW s \in State, NEW l
    PROVE  Reply(s, l) \in Replies /\ NextState(s, l) \in State /\ Reply(s, l) \in Text
<1>1. (l = ltai_state[s].in_msg) \in BOOLEAN
  OBVIOUS
<1>2. Reply(s, l) \in Replies
  BY <1>1 DEF Reply, Replies
<1>3. NextState(s, l) \in State
  BY DEF NextState, State, ltai_state
<1>4. QED
  BY <1>2, <1>3 DEF Text

LEMMA LtaiReceiveKeeps ==
    ASSUME ConsoleInv, LtaiReceive
    PROVE  Kept
<1>1. /\ At(ltai, "waiting") \/ (At(ltai, "receive") /\ chan[Lines] # << >>)
      /\ IF chan[Lines] # << >> /\ Fits(Lines, Head(chan[Lines]))
            THEN rcv_buf' = Head(chan[Lines]) /\ chan' = [chan EXCEPT ![Lines] = Tail(@)]
            ELSE rcv_buf' = rcv_buf /\ UNCHANGED chan
      /\ Goto(ltai, "answer")
      /\ UNCHANGED <<vars, made>>
      /\ todo' = <<Reply(ltai_cur_state, rcv_buf'), Prompt>>
      /\ UNCHANGED <<shown, msg_buf, ltai_cur_state>>
  BY DEF LtaiReceive, Return, printVars
<1>2. ltai \in Console /\ QueueOf(ltai) = Lines /\ ltai # print_task
  BY ConsoleFacts DEF QueueOf
<1>3. /\ Kept \/ ~ TextsOK'
      /\ pc'[ltai] = "answer" /\ \A u \in Console \ {ltai} : pc'[u] = pc[u]
  BY <1>1, <1>2, ReturnEffect
<1>4. todo' \in Seq(Text)
  <2>1. Reply(ltai_cur_state, rcv_buf') \in Text
    BY ReplyType DEF ConsoleInv, TextsOK
  <2>2. QED
    BY <1>1, <2>1, ConsoleFacts
<1>5. TextsOK'
  BY <1>1, <1>3, <1>4, ConsoleFacts DEF ConsoleInv, TextsOK
<1>6. QED
  BY <1>3, <1>5

LEMMA PrintDelayKeeps ==
    ASSUME ConsoleInv, PrintDelay
    PROVE  Kept
<1>1. /\ task_cur = print_task /\ pc[print_task] = "delay" /\ Sleep(1)
      /\ pc' = [pc EXCEPT ![print_task] = "show"]
      /\ UNCHANGED <<made, chan, msg_buf, shown, todo, ltai_cur_state>>
  BY DEF PrintDelay, At, Goto, printVars, ltaiVars
<1>2. print_task \in Console /\ print_task # ltai /\ 1 \in Delay /\ print_task \in Slot
  BY ConsoleFacts
<1>3. /\ [Next]_vars /\ wait_id' = wait_id
      /\ task_sleeptime' = [task_sleeptime EXCEPT ![print_task] = 1]
  BY <1>1, <1>2 DEF Next, Sleep, task_delay, BlockCur, listVars
<1>4. PlacesOK' /\ pc'[print_task] = "show" /\ \A u \in Console \ {print_task} : pc'[u] = pc[u]
  BY <1>1, <1>2, PlacesMoved
<1>5. \A u \in Slot \ {print_task} : task_sleeptime'[u] = task_sleeptime[u]
  BY <1>3 DEF ConsoleInv, Inv, TypeOK, TaskTypeOK
<1>6. WaitsOK'
  BY <1>1, <1>2, <1>3, <1>5, WaitsMoved
<1>7. QueuesOK'
  BY <1>1 DEF ConsoleInv, QueuesOK
<1>8. TextsOK'
  BY <1>1, <1>4, ConsoleFacts DEF ConsoleInv, TextsOK
<1>9. QED
  BY <1>3, <1>4, <1>6, <1>7, <1>8 DEF Kept

LEMMA PrintShowKeeps ==
    ASSUME ConsoleInv, PrintShow
    PROVE  Kept
<1>1. /\ task_cur = print_task /\ pc[print_task] = "show"
      /\ shown' = Append(shown, msg_buf)
      /\ pc' = [pc EXCEPT ![print_task] = "receive"]
      /\ UNCHANGED <<vars, made, chan, todo, ltai_cur_state>>
  BY DEF PrintShow, At, Goto, ltaiVars
<1>2. print_task \in Console /\ print_task # ltai
  BY ConsoleFacts
<1>3. PlacesOK' /\ pc'[print_task] = "receive" /\ \A u \in Console \ {print_task} : pc'[u] = pc[u]
  BY <1>1, <1>2, PlacesMoved
<1>4. UNCHANGED <<task_sleeptime, wait_id>>
  BY <1>1 DEF vars, taskVars, listVars
<1>5. WaitsOK'
  BY <1>1, <1>2, <1>4, WaitsMoved
<1>6. QueuesOK'
  BY <1>1 DEF ConsoleInv, QueuesOK
<1>7. shown' \in Seq(Text \cup {NotStarted})
  <2>1. msg_buf \in Text \cup {NotStarted} /\ shown \in Seq(Text \cup {NotStarted})
    BY <1>1 DEF ConsoleInv, TextsOK
  <2>2. QED
    BY <1>1, <2>1, AppendProperties
<1>8. TextsOK'
  BY <1>1, <1>3, <1>7, ConsoleFacts DEF ConsoleInv, TextsOK
<1>9. QED
  BY <1>1, <1>3, <1>5, <1>6, <1>8 DEF Kept
LEMMA LtaiSaidKeeps ==
    ASSUME ConsoleInv, LtaiSaid
    PROVE  Kept
<1>1. /\ task_cur = ltai /\ todo = << >>
      /\ ltai_cur_state' = ltai_cur_state
         \/ ltai_cur_state' = NextState(ltai_cur_state, rcv_buf)
      /\ pc' = [pc EXCEPT ![ltai] = "receive"]
      /\ UNCHANGED <<vars, made, chan, msg_buf, shown, todo>>
  BY DEF LtaiSaid, At, Goto, printVars
<1>2. ltai \in Console /\ print_task # ltai
  BY ConsoleFacts
<1>3. PlacesOK' /\ pc'[ltai] = "receive" /\ \A u \in Console \ {ltai} : pc'[u] = pc[u]
  BY <1>1, <1>2, PlacesMoved
<1>4. UNCHANGED <<task_sleeptime, wait_id>>
  BY <1>1 DEF vars, taskVars, listVars
<1>5. WaitsOK'
  BY <1>1, <1>2, <1>4, WaitsMoved
<1>6. QueuesOK'
  BY <1>1 DEF ConsoleInv, QueuesOK
<1>7. ltai_cur_state' \in State
  BY <1>1, ReplyType DEF ConsoleInv, TextsOK
<1>8. TextsOK'
  BY <1>1, <1>3, <1>7, ConsoleFacts DEF ConsoleInv, TextsOK
<1>9. QED
  BY <1>1, <1>3, <1>5, <1>6, <1>8 DEF Kept

\* A message that is sent, whoever sends it.
LEMMA SendKeeps ==
    ASSUME ConsoleInv, NEW q \in Obj, NEW m, m \in IF q = Lines THEN Line ELSE Text,
           msg_send(q, m), made' = made, pc' = pc
    PROVE  [Next]_vars /\ QueuesOK' /\ PlacesOK' /\ WaitsOK'
<1>1. /\ [Next]_vars
      /\ chan' = IF Accepts(q) THEN [chan EXCEPT ![q] = Append(@, m)] ELSE chan
      /\ \A t \in Slot : task_sleeptime[t] = 0 => task_sleeptime'[t] = 0
      /\ \A t \in Slot : \/ wait_id'[t] = wait_id[t]
                         \/ wait_id'[t] = NULL /\ wait_id[t] = q /\ Accepts(q)
  BY SendEffect
<1>2. QueuesOK' /\ \A p \in Obj : chan[p] # << >> => chan'[p] # << >>
  BY <1>1, QueuesSent
<1>3. Accepts(q) => chan'[q] # << >>
  <2>1. chan \in [Obj -> Seq(Line \cup Text)] /\ m \in Line \cup Text
    BY DEF ConsoleInv, QueuesOK
  <2>2. Append(chan[q], m) # << >>
    BY <2>1, AppendProperties
  <2>3. QED
    BY <1>1, <2>1, <2>2
<1>4. WaitsOK'
  BY <1>1, <1>2, <1>3, WaitsKept
<1>5. PlacesOK'
  BY DEF ConsoleInv, PlacesOK
<1>6. QED
  BY <1>1, <1>2, <1>4, <1>5

LEMMA LtaiSayKeeps ==
    ASSUME ConsoleInv, LtaiSay
    PROVE  Kept
<1>1. /\ looked /\ msg_send(Prints, Head(todo)) /\ todo' = Tail(todo)
      /\ pc[ltai] \in {"banner", "answer"}
      /\ UNCHANGED <<made, pc, msg_buf, shown, ltai_cur_state>>
  BY DEF LtaiSay, SendText, At, printVars
<1>2. Head(todo) \in Text /\ todo' \in Seq(Text)
  BY <1>1, HeadTailProperties DEF ConsoleInv, TextsOK, MarksOK
<1>3. Prints \in Obj /\ Prints # Lines
  BY ConsoleFacts
<1>4. [Next]_vars /\ QueuesOK' /\ PlacesOK' /\ WaitsOK'
  BY <1>1, <1>2, <1>3, SendKeeps
<1>5. TextsOK'
  BY <1>1, <1>2 DEF ConsoleInv, TextsOK
<1>6. QED
  BY <1>4, <1>5 DEF Kept

\* What ltprintf shows itself is a text.
LEMMA NotifyType ==
    ASSUME ConsoleInv, NotifyUnstarted
    PROVE  shown' \in Seq(Text \cup {NotStarted})
<1>1. shown \in Seq(Text \cup {NotStarted}) /\ NotStarted \in Text \cup {NotStarted}
  BY DEF ConsoleInv, TextsOK
<1>2. Append(shown, NotStarted) \in Seq(Text \cup {NotStarted})
  BY <1>1, AppendProperties
<1>3. QED
  BY <1>1, <1>2 DEF NotifyUnstarted

LEMMA LtaiLookKeeps ==
    ASSUME ConsoleInv, LtaiLook
    PROVE  Kept
<1>1. /\ shown' \in Seq(Text \cup {NotStarted})
      /\ UNCHANGED <<vars, made, chan, pc, msg_buf, todo, ltai_cur_state>>
  BY NotifyType DEF LtaiLook
<1>2. /\ [Next]_vars /\ wait_id' = wait_id
      /\ \A t \in Slot : task_sleeptime[t] = 0 => task_sleeptime'[t] = 0
  BY <1>1 DEF vars, taskVars, listVars
<1>3. WaitsOK'
  BY <1>1, <1>2, WaitsKept
<1>4. QueuesOK' /\ PlacesOK'
  BY <1>1 DEF ConsoleInv, QueuesOK, PlacesOK
<1>5. TextsOK'
  BY <1>1 DEF ConsoleInv, TextsOK
<1>6. QED
  BY <1>2, <1>3, <1>4, <1>5 DEF Kept

LEMMA EnterKeeps ==
    ASSUME ConsoleInv, NEW l \in Line, Enter(l)
    PROVE  Kept
<1>1. /\ msg_send(Lines, l)
      /\ UNCHANGED <<made, pc, msg_buf, shown, todo, ltai_cur_state>>
  BY DEF Enter, printVars, ltaiVars
<1>2. Lines \in Obj
  BY ConsoleFacts
<1>3. [Next]_vars /\ QueuesOK' /\ PlacesOK' /\ WaitsOK'
  BY <1>1, <1>2, SendKeeps
<1>4. TextsOK'
  BY <1>1 DEF ConsoleInv, TextsOK
<1>5. QED
  BY <1>3, <1>4 DEF Kept

LEMMA EnterEmptyKeeps ==
    ASSUME ConsoleInv, EnterEmpty
    PROVE  Kept
<1>1. /\ msg_send(Prints, Prompt) /\ NotifyUnstarted
      /\ UNCHANGED <<made, pc, msg_buf, todo, ltai_cur_state>>
  BY DEF EnterEmpty, SendText, ltaiVars
<1>2. Prints \in Obj /\ Prints # Lines /\ Prompt \in Text
  BY ConsoleFacts
<1>3. [Next]_vars /\ QueuesOK' /\ PlacesOK' /\ WaitsOK'
  BY <1>1, <1>2, SendKeeps
<1>4. shown' \in Seq(Text \cup {NotStarted})
  BY <1>1, NotifyType
<1>5. TextsOK'
  BY <1>1, <1>4 DEF ConsoleInv, TextsOK
<1>6. QED
  BY <1>3, <1>5 DEF Kept

\* Boot and the timer leave the queues and the two programs alone.
LEMMA BelowKeeps ==
    ASSUME ConsoleInv, [Next]_vars, pc' = pc,
           UNCHANGED <<made, chan, msg_buf, shown, todo, ltai_cur_state>>,
           \A t \in Slot : task_sleeptime[t] = 0 => task_sleeptime'[t] = 0,
           wait_id' = wait_id
    PROVE  Kept
<1>1. WaitsOK'
  BY WaitsKept
<1>2. QueuesOK' /\ PlacesOK' /\ TextsOK'
  BY DEF ConsoleInv, QueuesOK, PlacesOK, TextsOK
<1>3. QED
  BY <1>1, <1>2 DEF Kept

LEMMA BootKeeps ==
    ASSUME ConsoleInv, Boot
    PROVE  Kept
<1>1. Create /\ UNCHANGED <<made, chan, pc, msg_buf, shown, todo, ltai_cur_state>>
  BY DEF Boot, Below, printVars, ltaiVars
<1>2. [Next]_vars /\ wait_id' = wait_id
      /\ task_sleeptime' = [task_sleeptime EXCEPT ![ntask] = 0]
  BY <1>1 DEF Next, Create, task_create, listVars
<1>3. \A t \in Slot : task_sleeptime[t] = 0 => task_sleeptime'[t] = 0
  BY <1>2 DEF ConsoleInv, Inv, TypeOK, TaskTypeOK
<1>4. QED
  BY <1>1, <1>2, <1>3, BelowKeeps

LEMMA TickKeeps ==
    ASSUME ConsoleInv, Below(Tick)
    PROVE  Kept
<1>1. Tick /\ UNCHANGED <<made, chan, pc, msg_buf, shown, todo, ltai_cur_state>>
  BY DEF Below, printVars, ltaiVars
<1>2. [Next]_vars
      /\ wait_id' = [t \in Slot |-> IF t \in Due THEN NULL ELSE wait_id[t]]
      /\ task_sleeptime' = [t \in Slot |-> IF t \in Sleeping THEN task_sleeptime[t] - 1
                                                             ELSE task_sleeptime[t]]
  BY <1>1 DEF Next, Tick, TickTasks, Unlink
<1>3. \A t \in Slot : task_sleeptime[t] = 0 => task_sleeptime'[t] = 0
  BY <1>2 DEF Sleeping
<1>4. ASSUME NEW t \in Due, t \in Slot
      PROVE  wait_id[t] = NULL
  <2>1. task_sleeptime[t] # 0
    BY DEF Due
  <2>2. CASE t \in Console
    <3>1. wait_id[t] # NULL => pc[t] = "waiting"
      BY <2>2 DEF ConsoleInv, WaitsOK
    <3>2. pc[t] = "waiting" => task_sleeptime[t] = 0
      BY <2>2 DEF ConsoleInv, WaitsOK
    <3>3. QED
      BY <2>1, <3>1, <3>2
  <2>3. CASE t \in Slot \ Console
    BY <2>3 DEF ConsoleInv, WaitsOK
  <2>4. QED
    BY <1>4, <2>2, <2>3
<1>5. wait_id' = wait_id
  <2>1. wait_id \in [Slot -> Obj \cup {NULL}]
    BY DEF ConsoleInv, Inv, TypeOK
  <2>2. QED
    BY <1>2, <1>4, <2>1
<1>6. QED
  BY <1>1, <1>2, <1>3, <1>5, BelowKeeps

LEMMA ConsoleStep == ConsoleInv /\ [DialogueNext]_allVars => Kept
<1> SUFFICES ASSUME ConsoleInv, [DialogueNext]_allVars
             PROVE  Kept
  OBVIOUS
<1>1. CASE Boot
  BY <1>1, BootKeeps
<1>2. CASE TaskStep(print_task)
  <2>1. PrintStart \/ Block(print_task, Prints) \/ PrintReceive \/ PrintDelay \/ PrintShow
    BY <1>2 DEF TaskStep
  <2>2. print_task \in Console /\ QueueOf(print_task) = Prints
    BY ConsoleFacts DEF QueueOf
  <2>3. QED
    BY <2>1, <2>2, StartsKeep, BlockKeeps, PrintReceiveKeeps, PrintDelayKeeps, PrintShowKeeps
<1>3. CASE TaskStep(ltai)
  <2>1. LtaiStart \/ Block(ltai, Lines) \/ LtaiReceive \/ LtaiLook \/ LtaiSay \/ LtaiSaid
    BY <1>3, ConsoleFacts DEF TaskStep
  <2>2. ltai \in Console /\ QueueOf(ltai) = Lines
    BY ConsoleFacts DEF QueueOf
  <2>3. QED
    BY <2>1, <2>2, StartsKeep, BlockKeeps, LtaiReceiveKeeps, LtaiLookKeeps, LtaiSayKeeps,
       LtaiSaidKeeps
<1>4. CASE \E l \in Line : Enter(l)
  BY <1>4, EnterKeeps
<1>5. CASE EnterEmpty
  BY <1>5, EnterEmptyKeeps
<1>6. CASE Below(Tick)
  BY <1>6, TickKeeps
<1>7. CASE UNCHANGED allVars
  <2>1. UNCHANGED <<vars, task_sleeptime, wait_id, made, chan, pc, msg_buf, shown, todo, ltai_cur_state>>
    BY <1>7 DEF allVars, vars, taskVars, listVars, printVars, ltaiVars
  <2>2. QED
    BY <2>1, BelowKeeps
<1>8. QED
  BY <1>1, <1>2, <1>3, <1>4, <1>5, <1>6, <1>7 DEF DialogueNext

\* The step that clears todo is not taken inside ltprintf.
LEMMA MarksKept ==
    ASSUME ConsoleInv, [DialogueNext]_allVars
    PROVE  MarksOK'
<1>0. MarksOK
  BY DEF ConsoleInv
<1>1. CASE LtaiStart
  BY <1>0, <1>1 DEF MarksOK, LtaiStart, msg_create
<1>2. CASE LtaiReceive
  BY <1>0, <1>2 DEF MarksOK, LtaiReceive, Return
<1>3. CASE LtaiLook
  BY <1>0, <1>3 DEF MarksOK, LtaiLook
<1>4. CASE LtaiSay
  BY <1>0, <1>4 DEF MarksOK, LtaiSay, SendText
<1>5. CASE PrintReceive
  BY <1>0, <1>5 DEF MarksOK, PrintReceive, Return, ltaiVars
<1>6. CASE EnterEmpty
  BY <1>0, <1>6 DEF MarksOK, EnterEmpty, SendText, ltaiVars
<1>7. CASE \E l \in Line : Enter(l)
  BY <1>0, <1>7 DEF MarksOK, Enter, ltaiVars
<1>8. CASE PrintStart \/ PrintDelay \/ PrintShow \/ LtaiSaid
  BY <1>0, <1>8 DEF MarksOK, PrintStart, msg_create, PrintDelay, PrintShow, LtaiSaid, ltaiVars
<1>9. CASE Block(print_task, Prints) \/ Block(ltai, Lines)
  BY <1>0, <1>9 DEF MarksOK, Block, ltaiVars
<1>10. CASE Boot \/ Below(Tick) \/ UNCHANGED allVars
  BY <1>0, <1>10 DEF MarksOK, Boot, Below, allVars, ltaiVars
<1>11. QED
  BY <1>1, <1>2, <1>3, <1>4, <1>5, <1>6, <1>7, <1>8, <1>9, <1>10 DEF DialogueNext, TaskStep

LEMMA ConsoleNext == ConsoleInv /\ [DialogueNext]_allVars => ConsoleInv'
<1>1. ConsoleInv /\ [DialogueNext]_allVars => Inv /\ Kept
  BY ConsoleStep DEF ConsoleInv
<1>2. Inv /\ [Next]_vars => Inv'
  BY NextInv
<1>3. QED
  BY <1>1, <1>2, MarksKept DEF Kept, ConsoleInv

LEMMA ConsoleInvariance == DialogueSpec => []ConsoleInv
BY ConsoleStart, ConsoleNext, PTL DEF DialogueSpec

\* What the queues of the console hold, and where its two tasks are.  Up to the
\* first text that is received in two pieces and up to a fault in msg_send(NULL),
\* which is where Dialogue ends, neither task, made ready in msg_rcv, finds its
\* queue empty: each is the one receiver of its queue and sets no timeout.
THEOREM DialogueTypeCorrect == DialogueSpec => []DialogueTypeOK
BY ConsoleInvariance, ConsoleTypes, PTL

\* The tasks of the console, the interrupts and the boot code do nothing to the
\* scheduler and the wait lists that Kernel does not allow: what is proved of
\* Kernel holds of the console.
THEOREM ConsoleUsesKernel == DialogueSpec => Spec
<1>1. DialogueInit => Init
  BY DEF DialogueInit
<1>2. ConsoleInv /\ [DialogueNext]_allVars => [Next]_vars
  BY ConsoleStep DEF Kept
<1>3. QED
  BY <1>1, <1>2, ConsoleInvariance, PTL DEF DialogueSpec, Spec
-----------------------------------------------------------------------------
(* The replies.  heard is what ltai has taken and what is still in its      *)
(* queue; the texts on their way from ltai to the screen, in one sequence,  *)
(* hold the replies to what was taken; and the state of the dialogue is the *)
(* one the lines taken lead to, or is about to be.                          *)

Shown == Text \cup {NotStarted}
Flow == shown \o Held \o chan[Prints] \o todo

HeardOK ==
    /\ heard \in Seq(Line)
    /\ Taken \in Seq(Line)
    /\ heard = Taken \o chan[Lines]

StateAfter == IF pc[ltai] = "answer" THEN NextState(ltai_cur_state, rcv_buf)
                                     ELSE ltai_cur_state

AnswersOK ==
    /\ ~ lost => RepliesIn(Flow) = Talk(Taken).replies
    /\ StateAfter = Talk(Taken).state

FollowInv == ConsoleInv /\ HeardOK /\ (ShortLines => AnswersOK)

LEMMA NotReplies == Banner \notin Replies /\ Prompt \notin Replies /\ NotStarted \notin Replies
BY DEF Banner, Prompt, NotStarted, Replies, State, ltai_state

LEMMA FollowImplies == FollowInv => RepliesFollow
BY DEF FollowInv, AnswersOK, RepliesFollow, StateAfter, Flow

\* What was taken is what is in front of what is in the queue.
LEMMA TakenIs ==
    ASSUME NEW u \in Seq(Line), NEW c \in Seq(Line)
    PROVE  SubSeq(u \o c, 1, Len(u \o c) - Len(c)) = u
<1>1. Len(u) \in Nat /\ Len(c) \in Nat /\ Len(u \o c) = Len(u) + Len(c)
  BY ConcatProperties, LenProperties
<1>2. Len(u \o c) - Len(c) = Len(u)
  BY <1>1
<1>3. CASE Len(u) = 0
  <2>1. u = << >> /\ SubSeq(u \o c, 1, 0) = << >>
    BY <1>3, SubSeqEmpty, EmptySeq
  <2>2. QED
    BY <1>2, <1>3, <2>1
<1>4. CASE Len(u) # 0
  <2>1. 1 \in 1 .. Len(u) /\ Len(u) \in 1 .. Len(u)
    BY <1>1, <1>4
  <2>2. SubSeq(u \o c, 1, Len(u)) = SubSeq(u, 1, Len(u))
    BY <2>1, SubSeqOfConcat1
  <2>3. QED
    BY <1>2, <2>2, SubSeqFull
<1>5. QED
  BY <1>3, <1>4

LEMMA HeardSplit ==
    ASSUME NEW u \in Seq(Line), chan'[Lines] \in Seq(Line), heard' = u \o chan'[Lines]
    PROVE  HeardOK' /\ Taken' = u
<1>1. Taken' = u
  BY TakenIs DEF Taken
<1>2. heard' \in Seq(Line)
  BY ConcatProperties
<1>3. QED
  BY <1>1, <1>2 DEF HeardOK

\* Four sequences of texts in a row.
InParts(a, b, c, d) ==
    /\ RepliesIn(a \o b \o c \o d)
          = RepliesIn(a) \o RepliesIn(b) \o RepliesIn(c) \o RepliesIn(d)
    /\ a \o b \o c \o d = (a \o b) \o (c \o d)

LEMMA FlowParts ==
    ASSUME NEW S, NEW a \in Seq(S), NEW b \in Seq(S), NEW c \in Seq(S), NEW d \in Seq(S)
    PROVE  InParts(a, b, c, d)
<1>1. a \o b \in Seq(S) /\ (a \o b) \o c \in Seq(S)
  BY ConcatProperties
<1>2. /\ RepliesIn(a \o b) = RepliesIn(a) \o RepliesIn(b)
      /\ RepliesIn((a \o b) \o c) = RepliesIn(a \o b) \o RepliesIn(c)
      /\ RepliesIn(((a \o b) \o c) \o d) = RepliesIn((a \o b) \o c) \o RepliesIn(d)
  BY <1>1, RepliesConcat
<1>3. ((a \o b) \o c) \o d = (a \o b) \o (c \o d)
  <2> DEFINE e == a \o b
  <2>1. e \in Seq(S)
    BY <1>1
  <2> HIDE DEF e
  <2>2. (e \o c) \o d = e \o (c \o d)
    BY <2>1, ConcatAssociative
  <2>3. QED
    BY <2>2 DEF e
<1>4. QED
  BY <1>2, <1>3 DEF InParts

\* A text moved from the front of one sequence to the end of the one before.
LEMMA HeadMoved ==
    ASSUME NEW S, NEW a \in Seq(S), NEW b \in Seq(S), b # << >>
    PROVE  Append(a, Head(b)) \o Tail(b) = a \o b
<1>1. Head(b) \in S /\ Tail(b) \in Seq(S) /\ <<Head(b)>> \in Seq(S)
  BY HeadTailProperties
<1>2. Append(a, Head(b)) = a \o <<Head(b)>>
  BY <1>1, AppendIsConcat
<1>3. (a \o <<Head(b)>>) \o Tail(b) = a \o (<<Head(b)>> \o Tail(b))
  BY <1>1, ConcatAssociative
<1>4. b = <<Head(b)>> \o Tail(b)
  <2>1. Len(b) \in Nat /\ Len(b) # 0
    BY EmptySeq, LenProperties
  <2>2. 1 \in 1 .. Len(b) /\ Len(b) \in 1 .. Len(b)
    BY <2>1
  <2>3. SubSeq(b, 1, Len(b)) = <<b[1]>> \o SubSeq(b, 1 + 1, Len(b))
    BY <2>2, SubSeqRecursiveFirst
  <2>4. Tail(b) = SubSeq(b, 2, Len(b)) /\ SubSeq(b, 1, Len(b)) = b
    BY TailIsSubSeq, SubSeqFull
  <2>5. Head(b) = b[1] /\ 1 + 1 = 2
    OBVIOUS
  <2>6. SubSeq(b, 1 + 1, Len(b)) = SubSeq(b, 2, Len(b))
    BY <2>5
  <2>7. QED
    BY <2>3, <2>4, <2>5, <2>6
<1>5. QED
  BY <1>2, <1>3, <1>4

LEMMA FollowTypes ==
    ASSUME ConsoleInv
    PROVE  /\ shown \in Seq(Shown) /\ Held \in Seq(Shown) /\ chan[Prints] \in Seq(Shown)
           /\ todo \in Seq(Shown) /\ chan[Lines] \in Seq(Line)
           /\ chan[Prints] \in Seq(Text) /\ todo \in Seq(Text)
<1>1. shown \in Seq(Shown) /\ todo \in Seq(Text) /\ chan[Prints] \in Seq(Text)
      /\ chan[Lines] \in Seq(Line)
  BY DEF ConsoleInv, TextsOK, QueuesOK, Shown
<1>2. \A s \in Seq(Text) : s \in Seq(Shown)
  <2>1. Text \subseteq Shown
    BY DEF Shown
  <2>2. QED
    BY <2>1
<1>3. Held \in Seq(Shown)
  <2>1. CASE pc[print_task] \in {"delay", "show"}
    <3>1. msg_buf \in Shown
      BY <2>1 DEF ConsoleInv, TextsOK, Shown
    <3>2. QED
      BY <2>1, <3>1 DEF Held
  <2>2. CASE pc[print_task] \notin {"delay", "show"}
    BY <2>2 DEF Held
  <2>3. QED
    BY <2>1, <2>2
<1>4. QED
  BY <1>1, <1>2, <1>3
\* Nothing happens to the lines, nor to what the texts say.
LEMMA FollowSame ==
    ASSUME FollowInv, heard' = heard, chan'[Lines] = chan[Lines],
           ~ lost' => ~ lost /\ RepliesIn(Flow') = RepliesIn(Flow),
           StateAfter' = StateAfter
    PROVE  HeardOK' /\ (ShortLines' => AnswersOK')
<1>1. Taken' = Taken
  BY DEF Taken
<1>2. HeardOK'
  BY <1>1 DEF FollowInv, HeardOK
<1>3. ShortLines' => AnswersOK'
  BY <1>1 DEF FollowInv, ShortLines, AnswersOK
<1>4. QED
  BY <1>2, <1>3

\* A text that is no reply, at the end of a sequence or taken off its front.
LEMMA NoReplyMoved ==
    ASSUME NEW S, NEW s \in Seq(S), NEW x \in S, x \notin Replies
    PROVE  /\ RepliesIn(Append(s, x)) = RepliesIn(s)
           /\ RepliesIn(<<x>> \o s) = RepliesIn(s)
<1>1. RepliesIn(Append(s, x)) = RepliesIn(s)
  BY RepliesAppend DEF Chosen
<1>2. RepliesIn(<<x>>) = << >>
  <2>1. << >> \in Seq(S) /\ Append(<< >>, x) = <<x>>
    OBVIOUS
  <2>2. RepliesIn(Append(<< >>, x)) = Chosen(RepliesIn(<< >>), x)
    BY <2>1, RepliesAppend
  <2>3. QED
    BY <2>1, <2>2, RepliesEmpty DEF Chosen
<1>3. <<x>> \in Seq(S) /\ RepliesIn(s) \in Seq(Replies)
  BY RepliesInType
<1>4. RepliesIn(<<x>> \o s) = << >> \o RepliesIn(s)
  BY <1>2, <1>3, RepliesConcat
<1>5. QED
  BY <1>1, <1>3, <1>4, ConcatEmptySeq

\* The empty lines and what boot and the clock do.
LEMMA EnterEmptyFollows ==
    ASSUME FollowInv, EnterEmpty
    PROVE  HeardOK' /\ (ShortLines' => AnswersOK')
<1>1. /\ msg_send(Prints, Prompt) /\ heard' = heard
      /\ shown' = IF Prints \in made THEN shown ELSE Append(shown, NotStarted)
      /\ ~ lost' => ~ lost
      /\ UNCHANGED <<pc, msg_buf, todo, rcv_buf, ltai_cur_state>>
  BY DEF EnterEmpty, SendText, NotifyUnstarted, ltaiVars
<1>2. ConsoleInv /\ Prints \in Obj /\ Prints # Lines /\ chan \in [Obj -> Seq(Line \cup Text)]
  BY ConsoleFacts DEF FollowInv, ConsoleInv, QueuesOK
<1>3. chan' = IF Accepts(Prints) THEN [chan EXCEPT ![Prints] = Append(@, Prompt)] ELSE chan
  BY <1>1, <1>2, SendEffect
<1>4. chan'[Lines] = chan[Lines] /\ (chan'[Prints] = chan[Prints]
                                     \/ chan'[Prints] = Append(chan[Prints], Prompt))
  BY <1>2, <1>3, ConsoleFacts
<1>5. /\ shown \in Seq(Shown) /\ Held \in Seq(Shown) /\ chan[Prints] \in Seq(Shown)
      /\ todo \in Seq(Shown)
  BY <1>2, FollowTypes
<1>6. Prompt \in Shown /\ NotStarted \in Shown
  BY ConsoleFacts DEF Shown
<1>7. /\ shown' \in Seq(Shown) /\ RepliesIn(shown') = RepliesIn(shown)
      /\ chan'[Prints] \in Seq(Shown) /\ RepliesIn(chan'[Prints]) = RepliesIn(chan[Prints])
  <2>1. /\ Append(shown, NotStarted) \in Seq(Shown)
        /\ RepliesIn(Append(shown, NotStarted)) = RepliesIn(shown)
    BY <1>5, <1>6, NotReplies, NoReplyMoved, AppendProperties
  <2>2. /\ Append(chan[Prints], Prompt) \in Seq(Shown)
        /\ RepliesIn(Append(chan[Prints], Prompt)) = RepliesIn(chan[Prints])
    BY <1>5, <1>6, NotReplies, NoReplyMoved, AppendProperties
  <2>3. QED
    BY <1>1, <1>4, <1>5, <2>1, <2>2
<1>8. Held' = Held /\ todo' = todo
  BY <1>1 DEF Held
<1>9. RepliesIn(Flow') = RepliesIn(Flow)
  <2>1. RepliesIn(Flow) = RepliesIn(shown) \o RepliesIn(Held) \o RepliesIn(chan[Prints])
                              \o RepliesIn(todo)
    <3>1. InParts(shown, Held, chan[Prints], todo)
      BY <1>5, FlowParts
    <3>2. QED
      BY <3>1 DEF InParts, Flow
  <2>2. RepliesIn(shown' \o Held \o chan'[Prints] \o todo)
            = RepliesIn(shown') \o RepliesIn(Held) \o RepliesIn(chan'[Prints]) \o RepliesIn(todo)
    <3>1. InParts(shown', Held, chan'[Prints], todo)
      BY <1>5, <1>7, FlowParts
    <3>2. QED
      BY <3>1 DEF InParts
  <2>3. Flow' = shown' \o Held \o chan'[Prints] \o todo
    BY <1>8 DEF Flow
  <2>4. QED
    BY <1>7, <2>1, <2>2, <2>3
<1>10. StateAfter' = StateAfter
  BY <1>1 DEF StateAfter
<1>11. QED
  BY <1>1, <1>4, <1>9, <1>10, FollowSame

\* "mod is not started" is no reply.
LEMMA LtaiLookFollows ==
    ASSUME FollowInv, LtaiLook
    PROVE  HeardOK' /\ (ShortLines' => AnswersOK')
<1>1. /\ shown' = IF Prints \in made THEN shown ELSE Append(shown, NotStarted)
      /\ UNCHANGED <<heard, chan, todo, lost, pc, msg_buf, rcv_buf, ltai_cur_state>>
  BY DEF LtaiLook, NotifyUnstarted, userVars
<1>2. /\ shown \in Seq(Shown) /\ Held \in Seq(Shown) /\ chan[Prints] \in Seq(Shown)
      /\ todo \in Seq(Shown)
  BY FollowTypes DEF FollowInv
<1>3. shown' \in Seq(Shown) /\ RepliesIn(shown') = RepliesIn(shown)
  <2>1. NotStarted \in Shown
    BY DEF Shown
  <2>2. /\ Append(shown, NotStarted) \in Seq(Shown)
        /\ RepliesIn(Append(shown, NotStarted)) = RepliesIn(shown)
    BY <1>2, <2>1, NotReplies, NoReplyMoved, AppendProperties
  <2>3. QED
    BY <1>1, <1>2, <2>2
<1>4. Held' = Held /\ StateAfter' = StateAfter
  BY <1>1 DEF Held, StateAfter
<1>5. InParts(shown, Held, chan[Prints], todo) /\ InParts(shown', Held, chan[Prints], todo)
  BY <1>2, <1>3, FlowParts
<1>6. Flow' = shown' \o Held \o chan[Prints] \o todo
  BY <1>1, <1>4 DEF Flow
<1>7. RepliesIn(Flow') = RepliesIn(Flow)
  BY <1>3, <1>5, <1>6 DEF InParts, Flow
<1>8. QED
  BY <1>1, <1>4, <1>7, FollowSame

LEMMA LtaiSayFollows ==
    ASSUME FollowInv, LtaiSay
    PROVE  HeardOK' /\ (ShortLines' => AnswersOK')
<1>1. /\ msg_send(Prints, Head(todo)) /\ heard' = heard /\ todo # << >>
      /\ shown' = shown
      /\ ~ lost' => ~ lost /\ (Accepts(Prints) \/ Head(todo) \notin Replies)
      /\ todo' = Tail(todo)
      /\ UNCHANGED <<pc, msg_buf, rcv_buf, ltai_cur_state>>
  BY DEF FollowInv, ConsoleInv, MarksOK, LtaiSay, SendText, userVars, printVars
<1>2. ConsoleInv /\ Prints \in Obj /\ Prints # Lines /\ chan \in [Obj -> Seq(Line \cup Text)]
  BY ConsoleFacts DEF FollowInv, ConsoleInv, QueuesOK
<1> DEFINE x == Head(todo)
<1>3. chan' = IF Accepts(Prints) THEN [chan EXCEPT ![Prints] = Append(@, x)] ELSE chan
  BY <1>1, <1>2, SendEffect
<1>4. chan'[Lines] = chan[Lines]
      /\ chan'[Prints] = IF Accepts(Prints) THEN Append(chan[Prints], x) ELSE chan[Prints]
  BY <1>2, <1>3, ConsoleFacts
<1>5. /\ shown \in Seq(Shown) /\ Held \in Seq(Shown) /\ chan[Prints] \in Seq(Shown)
      /\ todo \in Seq(Shown)
  BY <1>2, FollowTypes
<1>6. x \in Shown /\ Tail(todo) \in Seq(Shown) /\ NotStarted \in Shown /\ <<x>> \in Seq(Shown)
  <2>1. NotStarted \in Shown
    BY DEF Shown
  <2>2. QED
    BY <1>1, <1>5, <2>1, HeadTailProperties
<1>7. Held' = Held
  BY <1>1 DEF Held
<1>8. CASE Accepts(Prints)
  <2>1. shown' = shown /\ chan'[Prints] = Append(chan[Prints], x)
    BY <1>1, <1>4, <1>8 DEF Accepts
  <2>2. Append(chan[Prints], x) \o Tail(todo) = chan[Prints] \o todo
    BY <1>1, <1>5, HeadMoved
  <2>4. Append(chan[Prints], x) \in Seq(Shown)
    BY <1>5, <1>6, AppendProperties
  <2>5. /\ Flow = (shown \o Held) \o (chan[Prints] \o todo)
        /\ shown \o Held \o Append(chan[Prints], x) \o Tail(todo)
               = (shown \o Held) \o (Append(chan[Prints], x) \o Tail(todo))
    <3>1. /\ InParts(shown, Held, chan[Prints], todo)
          /\ InParts(shown, Held, Append(chan[Prints], x), Tail(todo))
      BY <1>5, <1>6, <2>4, FlowParts
    <3>2. QED
      BY <3>1 DEF InParts, Flow
  <2>6. Flow' = shown \o Held \o Append(chan[Prints], x) \o Tail(todo)
    BY <1>1, <1>7, <2>1 DEF Flow
  <2>7. Flow' = Flow
    BY <2>2, <2>5, <2>6
  <2>8. StateAfter' = StateAfter
    BY <1>1 DEF StateAfter
  <2>9. RepliesIn(Flow') = RepliesIn(Flow)
    BY <2>7
  <2>10. QED
    BY <1>1, <1>4, <2>8, <2>9, FollowSame
<1>9. CASE ~ Accepts(Prints)
  <2>1. chan'[Prints] = chan[Prints]
    BY <1>4, <1>9
  <2>2. x \notin Replies => RepliesIn(Tail(todo)) = RepliesIn(todo)
    <3>1. SUFFICES ASSUME x \notin Replies
                   PROVE  RepliesIn(Tail(todo)) = RepliesIn(todo)
      OBVIOUS
    <3>2. << >> \in Seq(Shown) /\ Append(<< >>, x) = <<x>> /\ << >> \o todo = todo
      BY <1>5, ConcatEmptySeq
    <3>3. Append(<< >>, x) \o Tail(todo) = << >> \o todo
      BY <1>1, <1>5, <3>2, HeadMoved
    <3>4. <<x>> \o Tail(todo) = todo
      BY <3>2, <3>3
    <3>5. RepliesIn(<<x>> \o Tail(todo)) = RepliesIn(Tail(todo))
      BY <1>6, <3>1, NoReplyMoved
    <3>6. QED
      BY <3>4, <3>5
  <2>3. RepliesIn(Flow) = RepliesIn(shown) \o RepliesIn(Held) \o RepliesIn(chan[Prints])
                              \o RepliesIn(todo)
    <3>1. InParts(shown, Held, chan[Prints], todo)
      BY <1>5, FlowParts
    <3>2. QED
      BY <3>1 DEF InParts, Flow
  <2>4. RepliesIn(shown \o Held \o chan[Prints] \o Tail(todo))
            = RepliesIn(shown) \o RepliesIn(Held) \o RepliesIn(chan[Prints])
                  \o RepliesIn(Tail(todo))
    <3>1. InParts(shown, Held, chan[Prints], Tail(todo))
      BY <1>5, <1>6, FlowParts
    <3>2. QED
      BY <3>1 DEF InParts
  <2>5. Flow' = shown \o Held \o chan[Prints] \o Tail(todo)
    BY <1>1, <1>7, <2>1 DEF Flow
  <2>6. ~ lost' => ~ lost /\ RepliesIn(Flow') = RepliesIn(Flow)
    BY <1>1, <1>9, <2>2, <2>3, <2>4, <2>5
  <2>7. StateAfter' = StateAfter
    BY <1>1 DEF StateAfter
  <2>8. QED
    BY <1>1, <1>4, <2>6, <2>7, FollowSame
<1>10. QED
  BY <1>8, <1>9
\* A short sequence, made longer by one.
LEMMA AppendTo1 ==
    ASSUME NEW S, NEW x1 \in S, NEW x2 \in S
    PROVE  Append(<<x1>>, x2) = <<x1, x2>>
<1>1. PICK s : s = <<x1>> /\ s \in Seq(S)
  <2>1. <<x1>> \in Seq(S)
    OBVIOUS
  <2>2. QED
    BY <2>1
<1>2. PICK t : t = <<x1, x2>> /\ t \in Seq(S)
  <2>1. <<x1, x2>> \in Seq(S)
    OBVIOUS
  <2>2. QED
    BY <2>1
<1>3. PICK u : u = Append(s, x2)
  OBVIOUS
<1>4. Len(t) = 2 /\ t[1] = x1 /\ t[2] = x2
  BY <1>2
<1>5. u \in Seq(S) /\ Len(u) = 2 /\ u[1] = x1 /\ u[2] = x2
  BY <1>1, <1>3
<1>6. \A i \in 1 .. 2 : i = 1 \/ i = 2
  OBVIOUS
<1>7. \A i \in 1 .. 2 : u[i] = t[i]
  BY <1>4, <1>5, <1>6
<1>8. u = t
  BY <1>2, <1>4, <1>5, <1>7, SeqEqual
<1>9. QED
  BY <1>1, <1>2, <1>3, <1>8

LEMMA AppendTo2 ==
    ASSUME NEW S, NEW x1 \in S, NEW x2 \in S, NEW x3 \in S
    PROVE  Append(<<x1, x2>>, x3) = <<x1, x2, x3>>
<1>1. PICK s : s = <<x1, x2>> /\ s \in Seq(S)
  <2>1. <<x1, x2>> \in Seq(S)
    OBVIOUS
  <2>2. QED
    BY <2>1
<1>2. PICK t : t = <<x1, x2, x3>> /\ t \in Seq(S)
  <2>1. <<x1, x2, x3>> \in Seq(S)
    OBVIOUS
  <2>2. QED
    BY <2>1
<1>3. PICK u : u = Append(s, x3)
  OBVIOUS
<1>4. Len(t) = 3 /\ t[1] = x1 /\ t[2] = x2 /\ t[3] = x3
  BY <1>2
<1>5. u \in Seq(S) /\ Len(u) = 3 /\ u[1] = x1 /\ u[2] = x2 /\ u[3] = x3
  BY <1>1, <1>3
<1>6. \A i \in 1 .. 3 : i = 1 \/ i = 2 \/ i = 3
  OBVIOUS
<1>7. \A i \in 1 .. 3 : u[i] = t[i]
  BY <1>4, <1>5, <1>6
<1>8. u = t
  BY <1>2, <1>4, <1>5, <1>7, SeqEqual
<1>9. QED
  BY <1>1, <1>2, <1>3, <1>8

LEMMA AppendTo3 ==
    ASSUME NEW S, NEW x1 \in S, NEW x2 \in S, NEW x3 \in S, NEW x4 \in S
    PROVE  Append(<<x1, x2, x3>>, x4) = <<x1, x2, x3, x4>>
<1>1. PICK s : s = <<x1, x2, x3>> /\ s \in Seq(S)
  <2>1. <<x1, x2, x3>> \in Seq(S)
    OBVIOUS
  <2>2. QED
    BY <2>1
<1>2. PICK t : t = <<x1, x2, x3, x4>> /\ t \in Seq(S)
  <2>1. <<x1, x2, x3, x4>> \in Seq(S)
    OBVIOUS
  <2>2. QED
    BY <2>1
<1>3. PICK u : u = Append(s, x4)
  OBVIOUS
<1>4. Len(t) = 4 /\ t[1] = x1 /\ t[2] = x2 /\ t[3] = x3 /\ t[4] = x4
  BY <1>2
<1>5. u \in Seq(S) /\ Len(u) = 4 /\ u[1] = x1 /\ u[2] = x2 /\ u[3] = x3 /\ u[4] = x4
  BY <1>1, <1>3
<1>6. \A i \in 1 .. 4 : i = 1 \/ i = 2 \/ i = 3 \/ i = 4
  OBVIOUS
<1>7. \A i \in 1 .. 4 : u[i] = t[i]
  BY <1>4, <1>5, <1>6
<1>8. u = t
  BY <1>2, <1>4, <1>5, <1>7, SeqEqual
<1>9. QED
  BY <1>1, <1>2, <1>3, <1>8

NoReplyIn(s) == s \in Seq(Shown) /\ RepliesIn(s) = << >>

LEMMA NoRepliesAtFirst == NoReplyIn(<<Banner, Banner, Banner, Prompt>>)
<1>1. Banner \in Shown /\ Prompt \in Shown /\ Banner \notin Replies /\ Prompt \notin Replies
  BY ConsoleFacts, NotReplies DEF Shown
<1>2. ASSUME NEW s, NoReplyIn(s), NEW x \in {Banner, Prompt}
      PROVE  NoReplyIn(Append(s, x))
  <2>1. x \in Shown /\ x \notin Replies /\ s \in Seq(Shown) /\ RepliesIn(s) = << >>
    BY <1>1, <1>2 DEF NoReplyIn
  <2>2. Append(s, x) \in Seq(Shown) /\ RepliesIn(Append(s, x)) = RepliesIn(s)
    BY <2>1, NoReplyMoved, AppendProperties
  <2>3. QED
    BY <2>1, <2>2 DEF NoReplyIn
<1>3. PICK a : a = << >> /\ NoReplyIn(a)
  <2>1. << >> \in Seq(Shown)
    OBVIOUS
  <2>2. QED
    BY <2>1, RepliesEmpty DEF NoReplyIn
<1>4. PICK b : b = Append(a, Banner) /\ NoReplyIn(b)
  BY <1>2, <1>3
<1>5. PICK c : c = Append(b, Banner) /\ NoReplyIn(c)
  BY <1>2, <1>4
<1>6. PICK d : d = Append(c, Banner) /\ NoReplyIn(d)
  BY <1>2, <1>5
<1>7. PICK e : e = Append(d, Prompt) /\ NoReplyIn(e)
  BY <1>2, <1>6
<1>8. e = <<Banner, Banner, Banner, Prompt>>
  <2>1. b = <<Banner>>
    BY <1>3, <1>4
  <2>2. c = <<Banner, Banner>>
    BY <1>1, <1>5, <2>1, AppendTo1
  <2>3. d = <<Banner, Banner, Banner>>
    BY <1>1, <1>6, <2>2, AppendTo2
  <2>4. QED
    BY <1>1, <1>7, <2>3, AppendTo3
<1>9. QED
  BY <1>7, <1>8

\* What stays as it is, or changes its place only.
LEMMA QuietFollows ==
    ASSUME FollowInv, UNCHANGED <<heard, chan, shown, todo, lost>>, Held' = Held,
           StateAfter' = StateAfter
    PROVE  HeardOK' /\ (ShortLines' => AnswersOK')
<1>1. Flow' = Flow /\ chan'[Lines] = chan[Lines]
  BY DEF Flow
<1>2. QED
  BY <1>1, FollowSame

LEMMA StartsFollow ==
    ASSUME FollowInv, PrintStart \/ LtaiStart
    PROVE  HeardOK' /\ (ShortLines' => AnswersOK')
<1>0. ConsoleInv /\ pc \in [Console -> {"start", "receive", "waiting", "delay", "show", "banner", "answer"}]
  BY DEF FollowInv, ConsoleInv, PlacesOK
<1>1. CASE PrintStart
  <2>1. /\ pc[print_task] = "start" /\ pc' = [pc EXCEPT ![print_task] = "receive"]
        /\ UNCHANGED <<heard, chan, shown, todo, lost, msg_buf, rcv_buf, ltai_cur_state>>
    BY <1>1 DEF PrintStart, msg_create, At, Goto, userVars, ltaiVars, printVars
  <2>2. pc'[print_task] = "receive" /\ pc'[ltai] = pc[ltai]
    BY <1>0, <2>1, ConsoleFacts
  <2>3. Held' = Held /\ StateAfter' = StateAfter
    BY <2>1, <2>2 DEF Held, StateAfter
  <2>4. QED
    BY <2>1, <2>3, QuietFollows
<1>2. CASE LtaiStart
  <2>1. /\ pc[ltai] = "start" /\ pc' = [pc EXCEPT ![ltai] = "banner"]
        /\ todo' = <<Banner, Banner, Banner, Prompt>>
        /\ UNCHANGED <<heard, chan, shown, lost, msg_buf, rcv_buf, ltai_cur_state>>
    BY <1>2 DEF LtaiStart, msg_create, At, Goto, userVars, ltaiVars, printVars
  <2>2. pc'[ltai] = "banner" /\ pc'[print_task] = pc[print_task]
    BY <1>0, <2>1, ConsoleFacts
  <2>3. Held' = Held /\ StateAfter' = StateAfter
    BY <2>1, <2>2 DEF Held, StateAfter
  <2>4. todo = << >>
    BY <1>0, <2>1 DEF ConsoleInv, TextsOK
  <2>5. /\ shown \in Seq(Shown) /\ Held \in Seq(Shown) /\ chan[Prints] \in Seq(Shown)
        /\ todo \in Seq(Shown)
    BY <1>0, FollowTypes
  <2>6. todo' \in Seq(Shown) /\ RepliesIn(todo') = RepliesIn(todo)
    BY <2>1, <2>4, NoRepliesAtFirst, RepliesEmpty DEF NoReplyIn
  <2>7. InParts(shown, Held, chan[Prints], todo) /\ InParts(shown, Held, chan[Prints], todo')
    BY <2>5, <2>6, FlowParts
  <2>8. Flow' = shown \o Held \o chan[Prints] \o todo'
    BY <2>1, <2>3 DEF Flow
  <2>9. RepliesIn(Flow') = RepliesIn(Flow)
    BY <2>6, <2>7, <2>8 DEF InParts, Flow
  <2>10. QED
    BY <2>1, <2>3, <2>9, FollowSame
<1>3. QED
  BY <1>1, <1>2

LEMMA BlockFollows ==
    ASSUME FollowInv, NEW t \in Console, NEW q, Block(t, q)
    PROVE  HeardOK' /\ (ShortLines' => AnswersOK')
<1>1. /\ pc[t] = "receive" /\ pc' = [pc EXCEPT ![t] = "waiting"]
      /\ UNCHANGED <<heard, chan, shown, todo, lost, msg_buf, rcv_buf, ltai_cur_state>>
  BY DEF Block, At, Goto, userVars, ltaiVars, printVars
<1>2. pc'[t] = "waiting" /\ \A u \in Console \ {t} : pc'[u] = pc[u]
  BY <1>1 DEF FollowInv, ConsoleInv, PlacesOK
<1>3. Held' = Held /\ StateAfter' = StateAfter
  <2>1. CASE t = print_task
    <3>1. pc'[ltai] = pc[ltai]
      BY <1>2, <2>1, ConsoleFacts
    <3>2. QED
      BY <1>1, <1>2, <2>1, <3>1 DEF Held, StateAfter
  <2>2. CASE t = ltai
    <3>1. pc'[print_task] = pc[print_task]
      BY <1>2, <2>2, ConsoleFacts
    <3>2. QED
      BY <1>1, <1>2, <2>2, <3>1 DEF Held, StateAfter
  <2>3. QED
    BY <2>1, <2>2, ConsoleFacts
<1>4. QED
  BY <1>1, <1>3, QuietFollows

LEMMA PrintDelayFollows ==
    ASSUME FollowInv, PrintDelay
    PROVE  HeardOK' /\ (ShortLines' => AnswersOK')
<1>1. /\ pc[print_task] = "delay" /\ pc' = [pc EXCEPT ![print_task] = "show"]
      /\ UNCHANGED <<heard, chan, shown, todo, lost, msg_buf, rcv_buf, ltai_cur_state>>
  BY DEF PrintDelay, At, Goto, userVars, ltaiVars, printVars
<1>2. pc'[print_task] = "show" /\ pc'[ltai] = pc[ltai]
  BY <1>1, ConsoleFacts DEF FollowInv, ConsoleInv, PlacesOK
<1>3. Held' = Held /\ StateAfter' = StateAfter
  BY <1>1, <1>2 DEF Held, StateAfter
<1>4. QED
  BY <1>1, <1>3, QuietFollows

LEMMA LtaiSaidFollows ==
    ASSUME FollowInv, LtaiSaid
    PROVE  HeardOK' /\ (ShortLines' => AnswersOK')
<1>1. /\ pc' = [pc EXCEPT ![ltai] = "receive"]
      /\ ltai_cur_state' = IF pc[ltai] = "answer" THEN NextState(ltai_cur_state, rcv_buf)
                                                  ELSE ltai_cur_state
      /\ UNCHANGED <<heard, chan, shown, todo, lost, msg_buf, rcv_buf>>
  BY DEF LtaiSaid, Goto, userVars, printVars
<1>2. pc'[ltai] = "receive" /\ pc'[print_task] = pc[print_task]
  BY <1>1, ConsoleFacts DEF FollowInv, ConsoleInv, PlacesOK
<1>3. Held' = Held
  BY <1>1, <1>2 DEF Held
<1>4. StateAfter' = StateAfter
  BY <1>1, <1>2 DEF StateAfter
<1>5. QED
  BY <1>1, <1>3, <1>4, QuietFollows

LEMMA EnterFollows ==
    ASSUME FollowInv, NEW l \in Line, Enter(l)
    PROVE  HeardOK' /\ (ShortLines' => AnswersOK')
<1>1. /\ msg_send(Lines, l) /\ heard' = IF Accepts(Lines) THEN Append(heard, l) ELSE heard
      /\ UNCHANGED <<pc, shown, todo, lost, msg_buf, rcv_buf, ltai_cur_state>>
  BY DEF Enter, ltaiVars, printVars
<1>2. /\ ConsoleInv /\ Lines \in Obj /\ Prints \in Obj /\ Prints # Lines
      /\ chan \in [Obj -> Seq(Line \cup Text)] /\ chan[Lines] \in Seq(Line)
      /\ heard \in Seq(Line) /\ Taken \in Seq(Line) /\ heard = Taken \o chan[Lines]
  BY ConsoleFacts DEF FollowInv, ConsoleInv, QueuesOK, HeardOK
<1>3. chan' = IF Accepts(Lines) THEN [chan EXCEPT ![Lines] = Append(@, l)] ELSE chan
  BY <1>1, <1>2, SendEffect
<1>4. Held' = Held /\ StateAfter' = StateAfter
  BY <1>1 DEF Held, StateAfter
<1>5. CASE ~ Accepts(Lines)
  BY <1>1, <1>3, <1>4, <1>5, QuietFollows
<1>6. CASE Accepts(Lines)
  <2>1. chan'[Lines] = Append(chan[Lines], l) /\ chan'[Prints] = chan[Prints]
        /\ heard' = Append(heard, l)
    BY <1>1, <1>2, <1>3, <1>6
  <2> DEFINE c == chan[Lines]
             u == Taken
  <2>2. c \in Seq(Line) /\ u \in Seq(Line) /\ heard = u \o c
    BY <1>2
  <2>3. Flow' = Flow
    BY <1>1, <1>4, <2>1 DEF Flow
  <2> HIDE DEF c, u
  <2>4. /\ <<l>> \in Seq(Line) /\ Append(c, l) = c \o <<l>> /\ u \o c \in Seq(Line)
        /\ Append(u \o c, l) = (u \o c) \o <<l>>
        /\ Append(c, l) \in Seq(Line)
    BY <2>2, AppendIsConcat, AppendProperties, ConcatProperties
  <2>5. Append(u \o c, l) = u \o Append(c, l)
    BY <2>2, <2>4, ConcatAssociative
  <2>6. heard' = u \o chan'[Lines] /\ chan'[Lines] \in Seq(Line)
    BY <2>1, <2>2, <2>4, <2>5 DEF c
  <2>7. HeardOK' /\ Taken' = u
    BY <2>2, <2>6, HeardSplit
  <2>8. ShortLines' => ShortLines
    <3>1. /\ Len(heard) \in Nat /\ Len(heard') = Len(heard) + 1
          /\ \A n \in 1 .. Len(heard) : heard'[n] = heard[n]
      BY <1>2, <2>1, AppendProperties, LenProperties
    <3>2. \A n \in 1 .. Len(heard) : n \in 1 .. Len(heard')
      BY <3>1
    <3>3. QED
      BY <3>1, <3>2 DEF ShortLines
  <2>9. ShortLines' => AnswersOK'
    BY <1>1, <1>4, <2>3, <2>7, <2>8 DEF u, FollowInv, AnswersOK
  <2>10. QED
    BY <2>7, <2>9
<1>7. QED
  BY <1>5, <1>6
LEMMA PrintReceiveFollows ==
    ASSUME FollowInv, PrintReceive
    PROVE  HeardOK' /\ (ShortLines' => AnswersOK')
<1>0. /\ ConsoleInv /\ Prints \in Obj /\ Lines \in Obj /\ Prints # Lines
      /\ chan \in [Obj -> Seq(Line \cup Text)]
      /\ print_task \in Console /\ QueueOf(print_task) = Prints
  BY ConsoleFacts DEF FollowInv, ConsoleInv, QueuesOK, QueueOf
<1>1. /\ At(print_task, "waiting") \/ (At(print_task, "receive") /\ chan[Prints] # << >>)
      /\ chan[Prints] # << >> => /\ msg_buf' = Head(chan[Prints])
                                 /\ chan' = [chan EXCEPT ![Prints] = Tail(@)]
      /\ pc' = [pc EXCEPT ![print_task] = "delay"]
      /\ UNCHANGED <<heard, shown, todo, lost, rcv_buf, ltai_cur_state>>
  BY <1>0 DEF PrintReceive, Return, Fits, Goto, ltaiVars, userVars
<1>2. chan[Prints] # << >>
  BY <1>0, <1>1, RunnerFree DEF At
<1>3. chan'[Prints] = Tail(chan[Prints]) /\ chan'[Lines] = chan[Lines]
  BY <1>0, <1>1, <1>2
<1>4. pc'[print_task] = "delay" /\ pc'[ltai] = pc[ltai]
  BY <1>1, ConsoleFacts DEF FollowInv, ConsoleInv, PlacesOK
<1>5. StateAfter' = StateAfter
  BY <1>1, <1>4 DEF StateAfter
<1> DEFINE x == Head(chan[Prints])
<1>6. Held = << >> /\ Held' = <<x>>
  BY <1>1, <1>2, <1>4 DEF Held, At
<1>7. shown \in Seq(Shown) /\ chan[Prints] \in Seq(Shown) /\ todo \in Seq(Shown)
  BY <1>0, FollowTypes
<1>8. <<x>> \in Seq(Shown) /\ Tail(chan[Prints]) \in Seq(Shown) /\ << >> \in Seq(Shown)
  BY <1>2, <1>7, HeadTailProperties
<1>9. <<x>> \o Tail(chan[Prints]) = << >> \o chan[Prints]
  <2>1. Append(<< >>, x) = <<x>>
    OBVIOUS
  <2>2. Append(<< >>, x) \o Tail(chan[Prints]) = << >> \o chan[Prints]
    BY <1>2, <1>7, <1>8, HeadMoved
  <2>3. QED
    BY <2>1, <2>2
<1>10. (shown \o <<x>>) \o Tail(chan[Prints]) = (shown \o << >>) \o chan[Prints]
  <2>1. (shown \o <<x>>) \o Tail(chan[Prints]) = shown \o (<<x>> \o Tail(chan[Prints]))
    <3> DEFINE h == <<x>>
               r == Tail(chan[Prints])
    <3>1. shown \in Seq(Shown) /\ h \in Seq(Shown) /\ r \in Seq(Shown)
      BY <1>7, <1>8
    <3> HIDE DEF h, r
    <3>2. (shown \o h) \o r = shown \o (h \o r)
      BY <3>1, ConcatAssociative
    <3>3. QED
      BY <3>2 DEF h, r
  <2>2. (shown \o << >>) \o chan[Prints] = shown \o (<< >> \o chan[Prints])
    BY <1>7, <1>8, ConcatAssociative
  <2>3. QED
    BY <1>9, <2>1, <2>2
<1>11. Flow' = Flow
  <2>1. Flow' = (shown \o <<x>>) \o Tail(chan[Prints]) \o todo
    BY <1>1, <1>3, <1>6 DEF Flow
  <2>2. Flow = (shown \o << >>) \o chan[Prints] \o todo
    BY <1>6 DEF Flow
  <2>3. QED
    BY <1>10, <2>1, <2>2
<1>12. QED
  BY <1>1, <1>3, <1>5, <1>11, FollowSame

LEMMA PrintShowFollows ==
    ASSUME FollowInv, PrintShow
    PROVE  HeardOK' /\ (ShortLines' => AnswersOK')
<1>1. /\ pc[print_task] = "show"
      /\ shown' = Append(shown, msg_buf)
      /\ pc' = [pc EXCEPT ![print_task] = "receive"]
      /\ UNCHANGED <<heard, chan, todo, lost, rcv_buf, ltai_cur_state>>
  BY DEF PrintShow, At, Goto, ltaiVars, userVars
<1>2. pc'[print_task] = "receive" /\ pc'[ltai] = pc[ltai]
  BY <1>1, ConsoleFacts DEF FollowInv, ConsoleInv, PlacesOK
<1>3. StateAfter' = StateAfter
  BY <1>1, <1>2 DEF StateAfter
<1>4. Held = <<msg_buf>> /\ Held' = << >>
  BY <1>1, <1>2 DEF Held
<1>5. shown \in Seq(Shown) /\ msg_buf \in Shown
  BY <1>1, FollowTypes DEF FollowInv, ConsoleInv, TextsOK, Shown
<1>6. shown' \o << >> = shown \o <<msg_buf>>
  <2>1. shown' \in Seq(Shown) /\ shown' = shown \o <<msg_buf>>
    BY <1>1, <1>5, AppendProperties, AppendIsConcat
  <2>2. QED
    BY <2>1, ConcatEmptySeq
<1>7. Flow' = Flow
  <2>1. Flow' = (shown' \o << >>) \o chan[Prints] \o todo
    BY <1>1, <1>4 DEF Flow
  <2>2. Flow = (shown \o <<msg_buf>>) \o chan[Prints] \o todo
    BY <1>4 DEF Flow
  <2>3. QED
    BY <1>6, <2>1, <2>2
<1>8. QED
  BY <1>1, <1>3, <1>7, FollowSame

LEMMA LtaiReceiveFollows ==
    ASSUME FollowInv, LtaiReceive
    PROVE  HeardOK' /\ (ShortLines' => AnswersOK')
<1>0. /\ ConsoleInv /\ Prints \in Obj /\ Lines \in Obj /\ Prints # Lines
      /\ chan \in [Obj -> Seq(Line \cup Text)] /\ chan[Lines] \in Seq(Line)
      /\ ltai \in Console /\ QueueOf(ltai) = Lines
      /\ heard \in Seq(Line) /\ Taken \in Seq(Line) /\ heard = Taken \o chan[Lines]
  BY ConsoleFacts DEF FollowInv, ConsoleInv, QueuesOK, QueueOf, HeardOK
<1> DEFINE l == Head(chan[Lines])
           c == Tail(chan[Lines])
           u == Taken
<1>1. /\ At(ltai, "waiting") \/ (At(ltai, "receive") /\ chan[Lines] # << >>)
      /\ chan[Lines] # << >> /\ l \notin LongLine
            => rcv_buf' = l /\ chan' = [chan EXCEPT ![Lines] = c]
      /\ ~ (chan[Lines] # << >> /\ l \notin LongLine) => chan' = chan
      /\ pc' = [pc EXCEPT ![ltai] = "answer"]
      /\ todo' = <<Reply(ltai_cur_state, rcv_buf'), Prompt>>
      /\ UNCHANGED <<heard, shown, msg_buf, lost, ltai_cur_state>>
  BY DEF LtaiReceive, Return, Fits, Goto, printVars, userVars
<1>2. chan[Lines] # << >> /\ pc[ltai] # "answer" /\ todo = << >>
  BY <1>0, <1>1, RunnerFree DEF At, ConsoleInv, TextsOK
<1>3. l \in Line /\ c \in Seq(Line) /\ u \in Seq(Line) /\ Append(u, l) \in Seq(Line)
  BY <1>0, <1>2, HeadTailProperties, AppendProperties
<1>4. Append(u, l) \o c = heard
  BY <1>0, <1>2, HeadMoved
<1>5. CASE l \in LongLine
  <2>1. chan' = chan
    BY <1>1, <1>5
  <2>2. HeardOK'
    BY <1>0, <1>1, <2>1 DEF HeardOK, Taken
  <2>3. ~ ShortLines'
    <3>1. /\ Len(u) \in Nat /\ Len(u) + 1 \in 1 .. Len(heard)
          /\ heard[Len(u) + 1] = l
      <4>1. Len(u) \in Nat /\ Len(c) \in Nat
        BY <1>3, LenProperties
      <4>2. Len(Append(u, l)) = Len(u) + 1 /\ Append(u, l)[Len(u) + 1] = l
        BY <1>3, AppendProperties
      <4>3. /\ Len(heard) = Len(Append(u, l)) + Len(c)
            /\ \A n \in 1 .. Len(Append(u, l)) + Len(c) :
                  heard[n] = IF n <= Len(Append(u, l)) THEN Append(u, l)[n]
                             ELSE c[n - Len(Append(u, l))]
        BY <1>3, <1>4, ConcatProperties
      <4>4. Len(u) + 1 \in 1 .. Len(heard) /\ Len(u) + 1 <= Len(Append(u, l))
        <5>1. \A a, b \in Nat : a + 1 \in 1 .. (a + 1) + b /\ a + 1 <= a + 1
          OBVIOUS
        <5>2. Len(u) + 1 \in 1 .. (Len(u) + 1) + Len(c) /\ Len(u) + 1 <= Len(u) + 1
          BY <4>1, <5>1
        <5>3. Len(heard) = (Len(u) + 1) + Len(c)
          BY <4>2, <4>3
        <5>4. QED
          BY <4>2, <5>2, <5>3
      <4>5. QED
        BY <4>1, <4>2, <4>3, <4>4
    <3>2. QED
      BY <1>1, <1>5, <3>1 DEF ShortLines
  <2>4. QED
    BY <2>2, <2>3
<1>6. CASE l \notin LongLine
  <2>1. chan'[Lines] = c /\ chan'[Prints] = chan[Prints] /\ rcv_buf' = l
    BY <1>0, <1>1, <1>2, <1>6
  <2>2. HeardOK' /\ Taken' = Append(u, l)
    BY <1>1, <1>3, <1>4, <2>1, HeardSplit
  <2>3. pc'[ltai] = "answer" /\ pc'[print_task] = pc[print_task]
    BY <1>1, ConsoleFacts DEF FollowInv, ConsoleInv, PlacesOK
  <2>4. ShortLines' => AnswersOK
    BY <1>1 DEF FollowInv, ShortLines
  <2>5. Talk(Taken') = Answered(Talk(u), l)
    BY <1>3, <2>2, TalkAppend
  <2>6. StateAfter = ltai_cur_state /\ StateAfter' = NextState(ltai_cur_state, l)
    BY <1>1, <1>2, <2>1, <2>3 DEF StateAfter
  <2> DEFINE r == Reply(ltai_cur_state, l)
  <2>7. r \in Replies /\ r \in Shown
    BY <1>0, ReplyType DEF ConsoleInv, TextsOK, Shown
  <2>8. todo' \in Seq(Shown) /\ RepliesIn(todo') = <<r>>
    <3>1. Prompt \in Shown /\ Prompt \notin Replies
      BY ConsoleFacts, NotReplies DEF Shown
    <3>2. << >> \in Seq(Shown) /\ <<r>> \in Seq(Shown) /\ Append(<< >>, r) = <<r>>
      BY <2>7
    <3>3. RepliesIn(Append(<< >>, r)) = Append(<< >>, r)
      BY <2>7, <3>2, RepliesAppend, RepliesEmpty DEF Chosen
    <3>4. RepliesIn(Append(<<r>>, Prompt)) = RepliesIn(<<r>>)
      BY <3>1, <3>2, NoReplyMoved
    <3>5. todo' = <<r, Prompt>>
      BY <1>1, <2>1
    <3>6. Append(<<r>>, Prompt) = <<r, Prompt>>
      BY <2>7, <3>1, AppendTo1
    <3>7. Append(<<r>>, Prompt) \in Seq(Shown)
      BY <3>1, <3>2, AppendProperties
    <3>8. QED
      BY <3>2, <3>3, <3>4, <3>5, <3>6, <3>7
  <2>9. Held' = Held
    BY <1>1, <2>3 DEF Held
  <2>10. /\ shown \in Seq(Shown) /\ Held \in Seq(Shown) /\ chan[Prints] \in Seq(Shown)
         /\ << >> \in Seq(Shown)
    BY <1>0, FollowTypes
  <2> DEFINE R == RepliesIn(shown) \o RepliesIn(Held) \o RepliesIn(chan[Prints])
  <2>11. RepliesIn(Flow) = R \o << >> /\ RepliesIn(Flow') = R \o <<r>>
    <3>1. InParts(shown, Held, chan[Prints], << >>) /\ InParts(shown, Held, chan[Prints], todo')
      BY <2>8, <2>10, FlowParts
    <3>2. RepliesIn(Flow) = R \o << >>
      BY <1>2, <3>1, RepliesEmpty DEF InParts, Flow
    <3>3. Flow' = shown \o Held \o chan[Prints] \o todo'
      BY <1>1, <2>1, <2>9 DEF Flow
    <3>4. RepliesIn(Flow') = R \o <<r>>
      BY <2>8, <3>1, <3>3 DEF InParts
    <3>5. QED
      BY <3>2, <3>4
  <2>12. R \in Seq(Replies)
    BY <2>10, RepliesInType, ConcatProperties
  <2>13. RepliesIn(Flow') = Append(RepliesIn(Flow), r)
    <3> HIDE DEF R, r
    <3>1. R \o << >> = R /\ Append(R, r) = R \o <<r>>
      BY <2>7, <2>12, ConcatEmptySeq, AppendIsConcat
    <3>2. QED
      BY <2>11, <3>1
  <2>14. ShortLines' => AnswersOK'
    <3>1. SUFFICES ASSUME ShortLines'
                   PROVE  AnswersOK'
      OBVIOUS
    <3>2. Talk(u).state = ltai_cur_state
      BY <2>4, <2>6, <3>1 DEF AnswersOK
    <3>3. /\ Talk(Taken').state = NextState(ltai_cur_state, l)
          /\ Talk(Taken').replies = Append(Talk(u).replies, r)
      BY <2>5, <3>2 DEF Answered
    <3>4. ~ lost' => RepliesIn(Flow') = Talk(Taken').replies
      BY <1>1, <2>4, <2>13, <3>1, <3>3 DEF AnswersOK
    <3>5. QED
      BY <2>6, <3>3, <3>4 DEF AnswersOK
  <2>15. QED
    BY <2>2, <2>14
<1>7. QED
  BY <1>5, <1>6

LEMMA FollowNext == FollowInv /\ [DialogueNext]_allVars => FollowInv'
<1> SUFFICES ASSUME FollowInv, [DialogueNext]_allVars
             PROVE  FollowInv'
  OBVIOUS
<1>0. ConsoleInv'
  BY ConsoleNext DEF FollowInv
<1>1. HeardOK' /\ (ShortLines' => AnswersOK')
  <2>1. CASE TaskStep(print_task)
    <3>1. PrintStart \/ Block(print_task, Prints) \/ PrintReceive \/ PrintDelay \/ PrintShow
      BY <2>1 DEF TaskStep
    <3>2. print_task \in Console
      BY ConsoleFacts
    <3>3. QED
      BY <3>1, <3>2, StartsFollow, BlockFollows, PrintReceiveFollows, PrintDelayFollows,
         PrintShowFollows
  <2>2. CASE TaskStep(ltai)
    <3>1. LtaiStart \/ Block(ltai, Lines) \/ LtaiReceive \/ LtaiLook \/ LtaiSay \/ LtaiSaid
      BY <2>2, ConsoleFacts DEF TaskStep
    <3>2. ltai \in Console
      BY ConsoleFacts
    <3>3. QED
      BY <3>1, <3>2, StartsFollow, BlockFollows, LtaiReceiveFollows, LtaiLookFollows,
         LtaiSayFollows, LtaiSaidFollows
  <2>3. CASE \E l \in Line : Enter(l)
    BY <2>3, EnterFollows
  <2>4. CASE EnterEmpty
    BY <2>4, EnterEmptyFollows
  <2>5. CASE Boot \/ Below(Tick) \/ UNCHANGED allVars
    <3>1. UNCHANGED <<heard, chan, shown, todo, lost, pc, msg_buf, rcv_buf, ltai_cur_state>>
      BY <2>5 DEF Boot, Below, allVars, printVars, ltaiVars, userVars
    <3>2. Held' = Held /\ StateAfter' = StateAfter
      BY <3>1 DEF Held, StateAfter
    <3>3. QED
      BY <3>1, <3>2, QuietFollows
  <2>6. QED
    BY <2>1, <2>2, <2>3, <2>4, <2>5 DEF DialogueNext
<1>2. QED
  BY <1>0, <1>1 DEF FollowInv

LEMMA FollowStart == DialogueInit => FollowInv
<1> SUFFICES ASSUME DialogueInit
             PROVE  FollowInv
  OBVIOUS
<1>1. ConsoleInv
  BY ConsoleStart
<1>2. /\ chan = [q \in Obj |-> << >>] /\ pc = [t \in Console |-> "start"]
      /\ todo = << >> /\ heard = << >> /\ shown = << >> /\ ltai_cur_state = "GREETING"
  BY DEF DialogueInit, Console
<1>3. chan[Lines] = << >> /\ chan[Prints] = << >> /\ Held = << >> /\ StateAfter = "GREETING"
  BY <1>2, ConsoleFacts DEF Held, StateAfter
<1>4. << >> \in Seq(Line) /\ << >> \o << >> = << >>
  <2>1. << >> \in Seq(Line)
    OBVIOUS
  <2>2. QED
    BY <2>1, ConcatEmptySeq
<1>5. Taken = << >>
  <2>1. SubSeq(<< >> \o << >>, 1, Len(<< >> \o << >>) - Len(<< >>)) = << >>
    BY <1>4, TakenIs
  <2>2. QED
    BY <1>2, <1>3, <1>4, <2>1 DEF Taken
<1>6. HeardOK
  BY <1>2, <1>3, <1>4, <1>5 DEF HeardOK
<1>7. Flow = << >>
  BY <1>2, <1>3, <1>4 DEF Flow
<1>8. AnswersOK
  BY <1>3, <1>5, <1>7, RepliesEmpty, TalkEmpty DEF AnswersOK, Greeted
<1>9. QED
  BY <1>1, <1>6, <1>8 DEF FollowInv

LEMMA FollowInvariance == DialogueSpec => []FollowInv
BY FollowStart, FollowNext, PTL DEF DialogueSpec

\* As long as no text has been received in two pieces, msg_send(NULL) has not
\* faulted and no line heard has 100 characters, the texts shown are the answers
\* to the lines, in their order and one each (if none was refused), and the
\* state of the dialogue is where the lines taken have led.  Of what is shown
\* after either of the first two it says nothing: Dialogue ends there.
THEOREM RepliesFollowLines == DialogueSpec => []RepliesFollow
BY FollowImplies, FollowInvariance, PTL
=============================================================================
