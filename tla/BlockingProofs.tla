--------------------------- MODULE BlockingProofs ---------------------------
(***************************************************************************)
(* Proofs about Objects, Sem and MsgQueue, for any number of tasks,        *)
(* semaphores and queues, any delays and lengths: the wait lists hold      *)
(* exactly the waiters of each object that exists, linked both ways, and   *)
(* what is done to them is what Kernel says; no token is kept from a task  *)
(* that waits, and no message is left behind while tasks wait for it.      *)
(*                                                                         *)
(* The lists are treated as values: a record L of the functions next, prev *)
(* and wait_id, as task_tickdo passes them from one due task to the next,  *)
(* so that one lemma serves a give, a send and each unlinking of a tick.   *)
(* Good(L, V) says that the list of every object of V is a Chain, a        *)
(* sequence of nodes that next and prev follow both ways; it is what an    *)
(* unlinking (GoodOff) and an enqueueing (GoodOn) keep.  ListsLinked alone *)
(* is not inductive: it does not say that no task is on two lists.         *)
(*                                                                         *)
(* A delete walks from a head that was read before interrupts were         *)
(* disabled.  Stale says what that head still leads to: a path over tasks  *)
(* that no longer wait, and then the list.                                 *)
(*                                                                         *)
(* What a call of Sem must keep between its check of the semaphore and its *)
(* work, with interrupts and other tasks in between, is CallInv: the       *)
(* semaphore still exists, the caller is on no list and may still block,   *)
(* and the head that sem_delete has read still leads to all the waiters.   *)
(* NoMessageStranded needs to know that a task on a list is in the middle  *)
(* of msg_rcv on that queue (ReceiversWait), so that the task a send takes *)
(* off the list is one that is on its way to look for the message.         *)
(***************************************************************************)
EXTENDS Sem, MsgQueue, FiniteSetTheorems, SequenceTheorems, TLAPS

\* The proofs about Kernel, for what the lists stand for.  The histories of
\* KernelTime play no part.
KP == INSTANCE KernelProofs WITH
        ahead <- [t \in Slot |-> Ahead(t)],
        asked <- [t \in Slot |-> 0],
        age <- [t \in Slot |-> 0]

-----------------------------------------------------------------------------
(* Lists, as a record of the three pointers of every node, which is how     *)
(* Objects passes them from one task of a tick to the next.                 *)

Now == [next |-> next, prev |-> prev, wait_id |-> wait_id]

ListTypeOK(L) ==
    /\ L.next \in [Node -> Slot \cup {NULL}]
    /\ L.prev \in [Node -> Node \cup {NULL}]
    /\ L.wait_id \in [Slot -> Obj \cup {NULL}]

\* After and Ahead, for any lists.
Walk(nx, n) ==
    LET at[k \in 0 .. TASK_INIT_NUM + 1] ==
            IF k = 0 THEN n
            ELSE IF at[k - 1] = NULL THEN NULL ELSE nx[at[k - 1]]
    IN  at

AheadOn(L, t) ==
    IF L.wait_id[t] = NULL
    THEN {}
    ELSE LET at == Walk(L.next, L.wait_id[t])
         IN  {at[j] : j \in {i \in 1 .. TASK_INIT_NUM :
                 \A k \in 1 .. i : at[k] \notin {t, NULL}}}

WaitersOn(L, o) == {t \in Slot : L.wait_id[t] = o}

\* The list of o is c[1], ..., c[m], linked both ways.
Chain(L, o, m, c) ==
    /\ c[0] = o
    /\ \A i \in 1 .. m : c[i] \in Slot
    /\ \A i, j \in 1 .. m : c[i] = c[j] => i = j
    /\ \A i \in 1 .. m : L.next[c[i - 1]] = c[i] /\ L.prev[c[i]] = c[i - 1]
    /\ L.next[c[m]] = NULL
    /\ \A t \in Slot : L.wait_id[t] = o <=> \E i \in 1 .. m : c[i] = t

\* The first i - 1 tasks of a list.
Before(c, i) == {c[j] : j \in 1 .. i - 1}

Linked(L, o) ==
    \E m \in 0 .. TASK_INIT_NUM : \E c \in [0 .. m -> Slot \cup {o}] : Chain(L, o, m, c)

\* The lists of the objects of V, on which all the waiters are.
Good(L, V) ==
    /\ ListTypeOK(L)
    /\ \A t \in Slot : L.wait_id[t] # NULL => L.wait_id[t] \in V
    /\ \A o \in V : Linked(L, o)

\* Task t taken off the list it is on, and put behind the node n of that of o.
Off(L, t) ==
    [next |-> [L.next EXCEPT ![L.prev[t]] = L.next[t]],
     prev |-> IF L.next[t] = NULL THEN L.prev
                                  ELSE [L.prev EXCEPT ![L.next[t]] = L.prev[t]],
     wait_id |-> [L.wait_id EXCEPT ![t] = NULL]]

On(L, o, n, t) ==
    [next |-> [L.next EXCEPT ![n] = t, ![t] = NULL],
     prev |-> [L.prev EXCEPT ![t] = n],
     wait_id |-> [L.wait_id EXCEPT ![t] = o]]

LEMMA NodeFacts ==
    /\ TASK_INIT_NUM \in Nat /\ Slot \cap Obj = {}
    /\ NULL \notin Node /\ NULL \notin Slot /\ NULL \notin Obj
    /\ Slot \subseteq Node /\ Obj \subseteq Node
BY TaskAssumption, ObjectsAssumption DEF Slot, Node, NULL

-----------------------------------------------------------------------------
(* Following next. *)

\* A path that ends is what the walk from its first node passes.
LEMMA PathWalk ==
    ASSUME NEW nx, NEW n \in Nat, NEW f \in [0 .. n -> Node],
           \A i \in 1 .. n : nx[f[i - 1]] = f[i], nx[f[n]] = NULL
    PROVE  \A k \in 0 .. TASK_INIT_NUM + 1 :
              Walk(nx, f[0])[k] = IF k <= n THEN f[k] ELSE NULL
<1> DEFINE N == TASK_INIT_NUM + 1
           w == [k \in 0 .. N |-> IF k <= n THEN f[k] ELSE NULL]
           Is(g) == g = [k \in 0 .. N |->
                           IF k = 0 THEN f[0]
                           ELSE IF g[k - 1] = NULL THEN NULL ELSE nx[g[k - 1]]]
<1>0. N \in Nat /\ NULL \notin Node /\ NULL \notin Obj
  BY NodeFacts
<1>1. w[0] = f[0]
  BY <1>0
<1>2. ASSUME NEW k \in 1 .. N
      PROVE  w[k] = IF w[k - 1] = NULL THEN NULL ELSE nx[w[k - 1]]
  <2>1. k \in 0 .. N /\ k - 1 \in 0 .. N
    BY <1>0
  <2>2. CASE k <= n
    <3>1. k \in 1 .. n /\ k - 1 \in 0 .. n /\ k - 1 <= n
      BY <1>0, <2>2
    <3>2. w[k] = f[k] /\ w[k - 1] = f[k - 1] /\ f[k - 1] # NULL
      BY <1>0, <2>1, <2>2, <3>1
    <3>3. QED
      BY <3>1, <3>2
  <2>3. CASE k = n + 1
    <3>1. n \in 0 .. n /\ k - 1 = n /\ ~(k <= n)
      BY <2>3
    <3>2. w[k] = NULL /\ w[k - 1] = f[n] /\ f[n] # NULL
      BY <1>0, <2>1, <3>1
    <3>3. QED
      BY <3>2
  <2>4. CASE k > n + 1
    <3>1. ~(k <= n) /\ ~(k - 1 <= n)
      BY <1>0, <2>4
    <3>2. w[k] = NULL /\ w[k - 1] = NULL
      BY <2>1, <3>1
    <3>3. QED
      BY <3>2
  <2>5. QED
    BY <1>0, <2>2, <2>3, <2>4
<1>3. Is(w)
  <2>1. \A k \in 0 .. N : w[k] = IF k = 0 THEN f[0]
                                 ELSE IF w[k - 1] = NULL THEN NULL ELSE nx[w[k - 1]]
    <3>1. \A k \in 0 .. N : k = 0 \/ k \in 1 .. N
      BY <1>0
    <3> HIDE DEF w, N
    <3>2. QED
      BY <1>1, <1>2, <3>1
  <2>2. QED
    BY <2>1
<1>4. Is(Walk(nx, f[0]))
  <2>1. Walk(nx, f[0]) = CHOOSE g : Is(g)
    BY DEF Walk
  <2> HIDE DEF Is
  <2>2. QED
    BY <1>3, <2>1
<1> DEFINE W == Walk(nx, f[0])
<1>5. /\ W[0] = f[0]
      /\ \A k \in 1 .. N : W[k] = IF W[k - 1] = NULL THEN NULL ELSE nx[W[k - 1]]
  <2> HIDE DEF W
  <2>1. W = [k \in 0 .. N |->
                           IF k = 0 THEN f[0]
                           ELSE IF W[k - 1] = NULL THEN NULL ELSE nx[W[k - 1]]]
    BY <1>4 DEF W
  <2>2. 0 \in 0 .. N /\ \A k \in 1 .. N : k \in 0 .. N /\ k # 0
    BY <1>0
  <2> HIDE DEF N
  <2>3. QED
    BY <2>1, <2>2
<1>6. \A k \in 0 .. N : W[k] = w[k]
  <2> DEFINE Bad == {k \in 0 .. N : W[k] # w[k]}
  <2>1. SUFFICES ASSUME Bad # {}
                 PROVE  FALSE
    OBVIOUS
  <2> HIDE DEF W, w
  <2>2. PICK k \in Bad : \A j \in Bad : k <= j
    <3>1. Bad \in SUBSET Nat
      BY <1>0
    <3> HIDE DEF Bad
    <3>2. QED
      BY <1>0, <2>1, <3>1, KP!LeastNat, TaskAssumption
  <2>3. k \in 1 .. N /\ k - 1 \in 0 .. N
    BY <1>0, <1>1, <1>5, <2>2
  <2>4. W[k - 1] = w[k - 1]
    BY <1>0, <2>2, <2>3
  <2>5. QED
    BY <1>2, <1>5, <2>2, <2>3, <2>4
<1>7. QED
  BY <1>6

\* No list is longer than there are tasks.
LEMMA ChainLength ==
    ASSUME NEW L, NEW o, NEW m \in Nat, NEW c, Chain(L, o, m, c)
    PROVE  m <= TASK_INIT_NUM
<1> SUFFICES ASSUME m > TASK_INIT_NUM
             PROVE  FALSE
  BY NodeFacts
<1> DEFINE f == [i \in 1 .. m |-> c[i]]
<1>1. f \in [1 .. m -> Slot]
  BY DEF Chain
<1>2. IsFiniteSet(1 .. m) /\ Cardinality(1 .. m) = m
  BY FS_Interval
<1>3. IsFiniteSet(Slot) /\ Cardinality(Slot) = TASK_INIT_NUM
  BY NodeFacts, FS_Interval, TaskAssumption DEF Slot
<1>4. PICK i, j \in 1 .. m : i # j /\ f[i] = f[j]
  <2> HIDE DEF f
  <2>1. Cardinality(Slot) < Cardinality(1 .. m)
    BY <1>2, <1>3, NodeFacts
  <2>2. QED
    BY <1>1, <1>2, <1>3, <2>1, FS_PigeonHole
<1>5. QED
  BY <1>4 DEF Chain

\* The walk along a list passes its tasks, and ends.
LEMMA ChainAt ==
    ASSUME NEW L, NEW o \in Obj, NEW m \in 0 .. TASK_INIT_NUM,
           NEW c \in [0 .. m -> Slot \cup {o}], Chain(L, o, m, c)
    PROVE  \A k \in 0 .. TASK_INIT_NUM + 1 :
              Walk(L.next, o)[k] = IF k <= m THEN c[k] ELSE NULL
<1>0. TASK_INIT_NUM \in Nat /\ m \in Nat /\ m <= TASK_INIT_NUM
  BY NodeFacts
<1>1. /\ c[0] = o
      /\ \A i \in 1 .. m : c[i] \in Slot
      /\ \A i, j \in 1 .. m : c[i] = c[j] => i = j
      /\ \A i \in 1 .. m : L.next[c[i - 1]] = c[i] /\ L.prev[c[i]] = c[i - 1]
      /\ L.next[c[m]] = NULL
      /\ \A t \in Slot : L.wait_id[t] = o <=> \E i \in 1 .. m : c[i] = t
  BY DEF Chain
<1>2. \A k \in 0 .. TASK_INIT_NUM + 1 :
         Walk(L.next, o)[k] = IF k <= m THEN c[k] ELSE NULL
  <2>1. c \in [0 .. m -> Node]
    BY NodeFacts
  <2>2. \A k \in 0 .. TASK_INIT_NUM + 1 :
           Walk(L.next, c[0])[k] = IF k <= m THEN c[k] ELSE NULL
    <3>1. m \in Nat /\ L.next[c[m]] = NULL
      BY <1>0, <1>1
    <3>2. \A i \in 1 .. m : L.next[c[i - 1]] = c[i]
      BY <1>1
    <3> DEFINE nx == L.next
    <3> HIDE DEF nx
    <3>3. nx[c[m]] = NULL /\ \A i \in 1 .. m : nx[c[i - 1]] = c[i]
      BY <3>1, <3>2 DEF nx
    <3>4. \A k \in 0 .. TASK_INIT_NUM + 1 :
             Walk(nx, c[0])[k] = IF k <= m THEN c[k] ELSE NULL
      BY <2>1, <3>1, <3>3, PathWalk
    <3>5. QED
      BY <3>4 DEF nx
  <2>3. QED
    BY <1>1, <2>2
<1>3. QED
  BY <1>2

\* What the operators of Objects find by it.
LEMMA ChainWalk ==
    ASSUME NEW L, NEW o \in Obj, NEW m \in 0 .. TASK_INIT_NUM,
           NEW c \in [0 .. m -> Slot \cup {o}], Chain(L, o, m, c)
    PROVE  /\ Walk(L.next, o)[TASK_INIT_NUM + 1] = NULL
           /\ {Walk(L.next, o)[k] : k \in 1 .. TASK_INIT_NUM} \ {NULL}
                 = WaitersOn(L, o)
           /\ L.next[o] = NULL <=> m = 0
           /\ \A n \in WaitersOn(L, o) \cup {o} :
                 /\ L.next[n] # NULL => L.prev[L.next[n]] = n
                 /\ L.next[n] = NULL <=> n = c[m]
<1>0. TASK_INIT_NUM \in Nat /\ m \in Nat /\ m <= TASK_INIT_NUM
  BY NodeFacts
<1>1. /\ c[0] = o
      /\ \A i \in 1 .. m : c[i] \in Slot
      /\ \A i, j \in 1 .. m : c[i] = c[j] => i = j
      /\ \A i \in 1 .. m : L.next[c[i - 1]] = c[i] /\ L.prev[c[i]] = c[i - 1]
      /\ L.next[c[m]] = NULL
      /\ \A t \in Slot : L.wait_id[t] = o <=> \E i \in 1 .. m : c[i] = t
  BY DEF Chain
<1>2. \A k \in 0 .. TASK_INIT_NUM + 1 :
         Walk(L.next, o)[k] = IF k <= m THEN c[k] ELSE NULL
  BY ChainAt
<1>3. Walk(L.next, o)[TASK_INIT_NUM + 1] = NULL
  BY <1>0, <1>2
<1>4. {Walk(L.next, o)[k] : k \in 1 .. TASK_INIT_NUM} \ {NULL}
         = WaitersOn(L, o)
  <2>1. ASSUME NEW k \in 1 .. TASK_INIT_NUM, Walk(L.next, o)[k] # NULL
        PROVE  k \in 1 .. m /\ Walk(L.next, o)[k] = c[k]
    BY <1>0, <1>2, <2>1
  <2>2. ASSUME NEW k \in 1 .. m
        PROVE  k \in 1 .. TASK_INIT_NUM /\ Walk(L.next, o)[k] = c[k] /\ c[k] # NULL
    BY <1>0, <1>1, <1>2, NodeFacts
  <2>3. QED
    BY <1>1, <2>1, <2>2 DEF WaitersOn
<1>5. L.next[o] = NULL <=> m = 0
  <2>1. m # 0 => L.next[c[0]] = c[1] /\ c[1] \in Slot
    BY <1>0, <1>1
  <2>2. QED
    BY <1>0, <1>1, <2>1, NodeFacts
<1>6. ASSUME NEW n \in WaitersOn(L, o) \cup {o}
      PROVE  /\ L.next[n] # NULL => L.prev[L.next[n]] = n
             /\ L.next[n] = NULL <=> n = c[m]
  <2>1. PICK k \in 0 .. m : n = c[k]
    <3>1. CASE n = o
      BY <1>0, <1>1, <3>1
    <3>2. CASE n # o
      <4>1. \E k \in 1 .. m : c[k] = n
        BY <1>1, <3>2 DEF WaitersOn
      <4>2. QED
        BY <4>1
    <3>3. QED
      BY <3>1, <3>2
  <2>2. CASE k = m
    BY <1>0, <1>1, <2>1, <2>2
  <2>3. CASE k # m
    <3>1. k + 1 \in 1 .. m /\ (k + 1) - 1 = k
      BY <1>0, <2>3
    <3>2. L.next[n] = c[k + 1] /\ L.prev[c[k + 1]] = n /\ c[k + 1] \in Slot
      BY <1>1, <2>1, <3>1
    <3>3. n # c[m]
      <4>1. CASE k = 0
        BY <1>0, <1>1, <2>1, <2>3, <4>1, NodeFacts
      <4>2. CASE k # 0
        BY <1>0, <1>1, <2>1, <2>3, <4>2
      <4>3. QED
        BY <4>1, <4>2
    <3>4. QED
      BY <3>2, <3>3, NodeFacts
  <2>4. QED
    BY <2>2, <2>3
<1>7. QED
  BY <1>3, <1>4, <1>5, <1>6

\* The tasks in front of the i-th one.
LEMMA ChainAhead ==
    ASSUME NEW L, NEW o \in Obj, NEW m \in 0 .. TASK_INIT_NUM,
           NEW c \in [0 .. m -> Slot \cup {o}], Chain(L, o, m, c),
           NEW i \in 1 .. m
    PROVE  AheadOn(L, c[i]) = Before(c, i)
<1>0. TASK_INIT_NUM \in Nat /\ m \in Nat /\ m <= TASK_INIT_NUM
  BY NodeFacts
<1>1. /\ \A j \in 1 .. m : c[j] \in Slot
      /\ \A k, j \in 1 .. m : c[k] = c[j] => k = j
      /\ L.wait_id[c[i]] = o
  BY DEF Chain
<1> DEFINE W == Walk(L.next, o)
           S == {j \in 1 .. TASK_INIT_NUM : \A k \in 1 .. j : W[k] \notin {c[i], NULL}}
<1>2. \A k \in 1 .. m : k \in 1 .. TASK_INIT_NUM /\ W[k] = c[k]
  <2>1. \A k \in 0 .. TASK_INIT_NUM + 1 : W[k] = IF k <= m THEN c[k] ELSE NULL
    BY ChainAt
  <2> HIDE DEF W
  <2>2. QED
    BY <1>0, <2>1
<1> HIDE DEF W
<1>3. S = 1 .. i - 1
  <2>1. ASSUME NEW j \in S
        PROVE  j \in 1 .. i - 1
    <3>1. ~(i \in 1 .. j)
      BY <1>2, <2>1
    <3>2. QED
      BY <1>0, <3>1
  <2>2. ASSUME NEW j \in 1 .. i - 1
        PROVE  j \in S
    <3>1. j \in 1 .. TASK_INIT_NUM
      BY <1>0
    <3>2. ASSUME NEW k \in 1 .. j
          PROVE  W[k] \notin {c[i], NULL}
      <4>1. k \in 1 .. m /\ k # i
        BY <1>0
      <4>2. QED
        BY <1>1, <1>2, <4>1, NodeFacts
    <3>3. QED
      BY <3>1, <3>2
  <2>3. QED
    BY <2>1, <2>2
<1>4. AheadOn(L, c[i]) = {W[j] : j \in S}
  BY <1>1, NodeFacts DEF AheadOn, W
<1>5. \A j \in 1 .. i - 1 : W[j] = c[j]
  BY <1>0, <1>2
<1>6. QED
  BY <1>3, <1>4, <1>5 DEF Before

\* The list of a removed task closes behind it; the others stay.
LEMMA ChainOff ==
    ASSUME NEW L, ListTypeOK(L), NEW o \in Obj, NEW m \in 0 .. TASK_INIT_NUM,
           NEW c \in [0 .. m -> Slot \cup {o}], Chain(L, o, m, c), NEW i \in 1 .. m
    PROVE  LET d == [j \in 0 .. m - 1 |-> IF j < i THEN c[j] ELSE c[j + 1]]
           IN  /\ m - 1 \in 0 .. TASK_INIT_NUM
               /\ d \in [0 .. m - 1 -> Slot \cup {o}]
               /\ Chain(Off(L, c[i]), o, m - 1, d)
<1> DEFINE d == [j \in 0 .. m - 1 |-> IF j < i THEN c[j] ELSE c[j + 1]]
           t == c[i]
           n == L.next[t]
           O == Off(L, t)
<1>0. TASK_INIT_NUM \in Nat /\ m \in Nat /\ m <= TASK_INIT_NUM /\ i - 1 \in 0 .. m
      /\ o \notin Slot /\ NULL \notin Slot /\ o # NULL /\ m - 1 \in 0 .. TASK_INIT_NUM
      /\ m - 1 \in 0 .. m - 1 /\ Slot \cup {o} \subseteq Node
  BY NodeFacts
<1>1. /\ c[0] = o
      /\ \A j \in 1 .. m : c[j] \in Slot
      /\ \A k, j \in 1 .. m : c[k] = c[j] => k = j
      /\ \A j \in 1 .. m : L.next[c[j - 1]] = c[j] /\ L.prev[c[j]] = c[j - 1]
      /\ L.next[c[m]] = NULL
      /\ \A u \in Slot : L.wait_id[u] = o <=> \E j \in 1 .. m : c[j] = u
  BY DEF Chain
<1>2. \A k, j \in 0 .. m : c[k] = c[j] => k = j
  <2> SUFFICES ASSUME NEW k \in 0 .. m, NEW j \in 0 .. m, c[k] = c[j]
               PROVE  k = j
    OBVIOUS
  <2>1. (k = 0 \/ k \in 1 .. m) /\ (j = 0 \/ j \in 1 .. m)
    BY <1>0
  <2>2. QED
    BY <1>0, <1>1, <2>1
<1>3. d \in [0 .. m - 1 -> Slot \cup {o}]
  BY <1>0
<1>4. /\ t \in Slot /\ t \in Node /\ L.prev[t] = c[i - 1]
      /\ n = IF i = m THEN NULL ELSE c[i + 1]
  <2>1. i # m => i + 1 \in 1 .. m /\ (i + 1) - 1 = i
    BY <1>0
  <2>2. QED
    BY <1>0, <1>1, <2>1
<1>5. /\ \A u \in Node : O.next[u] = IF u = c[i - 1] THEN n ELSE L.next[u]
      /\ \A u \in Node : O.prev[u] = IF u = n THEN c[i - 1] ELSE L.prev[u]
      /\ \A u \in Slot : O.wait_id[u] = IF u = t THEN NULL ELSE L.wait_id[u]
  <2> HIDE DEF d, t, n
  <2>1. /\ O.next = [L.next EXCEPT ![c[i - 1]] = n]
        /\ O.prev = IF n = NULL THEN L.prev ELSE [L.prev EXCEPT ![n] = c[i - 1]]
        /\ O.wait_id = [L.wait_id EXCEPT ![t] = NULL]
    BY <1>4 DEF Off, n
  <2>2. QED
    BY <2>1, NodeFacts DEF ListTypeOK
<1>6. \A j \in 0 .. m - 1 : /\ d[j] = IF j < i THEN c[j] ELSE c[j + 1]
                            /\ j < i => j \in 0 .. m
                            /\ ~(j < i) => j + 1 \in 1 .. m /\ j + 1 # i
  BY <1>0
<1> HIDE DEF d, O
<1>7. \A j, k \in 0 .. m - 1 : d[j] = d[k] => j = k
  <2> SUFFICES ASSUME NEW j \in 0 .. m - 1, NEW k \in 0 .. m - 1, d[j] = d[k]
               PROVE  j = k
    OBVIOUS
  <2>1. CASE j < i /\ k < i
    BY <1>2, <1>6, <2>1
  <2>2. CASE j < i /\ ~(k < i)
    <3>1. j = k + 1
      BY <1>2, <1>6, <2>2
    <3>2. QED
      BY <1>0, <2>2, <3>1
  <2>3. CASE ~(j < i) /\ k < i
    <3>1. j + 1 = k
      BY <1>2, <1>6, <2>3
    <3>2. QED
      BY <1>0, <2>3, <3>1
  <2>4. CASE ~(j < i) /\ ~(k < i)
    <3>1. j + 1 = k + 1
      BY <1>2, <1>6, <2>4
    <3>2. QED
      BY <3>1
  <2>5. QED
    BY <2>1, <2>2, <2>3, <2>4
<1>8. d[0] = o /\ \A j \in 1 .. m - 1 : d[j] \in Slot
  BY <1>0, <1>1, <1>6
<1>9. ASSUME NEW j \in 1 .. m - 1
      PROVE  O.next[d[j - 1]] = d[j] /\ O.prev[d[j]] = d[j - 1]
  <2>0. j \in 0 .. m - 1 /\ j - 1 \in 0 .. m - 1 /\ j \in 1 .. m /\ j + 1 \in 1 .. m
        /\ (j + 1) - 1 = j /\ (j - 1) + 1 = j
        /\ d[j] \in Node /\ d[j - 1] \in Node
    BY <1>0, <1>3
  <2>1. CASE j < i
    <3>1. d[j] = c[j] /\ d[j - 1] = c[j - 1] /\ j - 1 # i - 1 /\ j - 1 \in 0 .. m /\ j \in 0 .. m
      BY <1>6, <2>0, <2>1
    <3>2. c[j - 1] # c[i - 1]
      BY <1>0, <1>2, <3>1
    <3>3. c[j] # n
      <4>1. i # m => i + 1 \in 0 .. m /\ i + 1 # j
        BY <1>0, <2>1
      <4>2. QED
        BY <1>0, <1>1, <1>2, <1>4, <2>0, <3>1, <4>1
    <3>4. QED
      BY <1>1, <1>5, <2>0, <3>1, <3>2, <3>3
  <2>2. CASE j = i
    <3>1. d[j] = c[i + 1] /\ d[j - 1] = c[i - 1] /\ n = c[i + 1]
      BY <1>0, <1>4, <1>6, <2>0, <2>2
    <3>2. QED
      BY <1>5, <2>0, <3>1
  <2>3. CASE j > i
    <3>1. d[j] = c[j + 1] /\ d[j - 1] = c[j] /\ j # i - 1 /\ j \in 0 .. m /\ j + 1 \in 0 .. m
      BY <1>6, <2>0, <2>3
    <3>2. c[j] # c[i - 1]
      BY <1>0, <1>2, <3>1
    <3>3. c[j + 1] # n
      <4>1. i # m => i + 1 \in 0 .. m /\ i + 1 # j + 1
        BY <1>0, <2>3
      <4>2. QED
        BY <1>0, <1>1, <1>2, <1>4, <2>0, <3>1, <4>1
    <3>4. L.next[c[j]] = c[j + 1] /\ L.prev[c[j + 1]] = c[j]
      BY <1>1, <2>0
    <3>5. QED
      BY <1>5, <2>0, <3>1, <3>2, <3>3, <3>4
  <2>4. QED
    BY <1>0, <2>1, <2>2, <2>3
<1>10. O.next[d[m - 1]] = NULL
  <2>1. CASE i = m
    <3>1. d[m - 1] = c[i - 1] /\ n = NULL
      BY <1>0, <1>4, <1>6, <2>1
    <3>2. QED
      BY <1>0, <1>5, <3>1
  <2>2. CASE i # m
    <3>1. d[m - 1] = c[m] /\ m # i - 1 /\ m \in 0 .. m
      BY <1>0, <1>6, <2>2
    <3>2. c[m] # c[i - 1]
      BY <1>0, <1>2, <3>1
    <3>3. QED
      BY <1>0, <1>1, <1>5, <3>1, <3>2
  <2>3. QED
    BY <2>1, <2>2
<1>11. ASSUME NEW u \in Slot
       PROVE  O.wait_id[u] = o <=> \E j \in 1 .. m - 1 : d[j] = u
  <2>1. ASSUME NEW j \in 1 .. m - 1, d[j] = u
        PROVE  O.wait_id[u] = o
    <3>1. PICK k \in 1 .. m : u = c[k] /\ k # i
      <4>1. j \in 1 .. m /\ j \in 0 .. m - 1
        BY <1>0
      <4>2. CASE j < i
        BY <1>6, <2>1, <4>1, <4>2
      <4>3. CASE ~(j < i)
        BY <1>6, <2>1, <4>1, <4>3
      <4>4. QED
        BY <4>2, <4>3
    <3>2. u # t
      BY <1>1, <3>1
    <3>3. QED
      BY <1>1, <1>5, <3>1, <3>2
  <2>2. ASSUME O.wait_id[u] = o
        PROVE  \E j \in 1 .. m - 1 : d[j] = u
    <3>1. u # t /\ L.wait_id[u] = o
      BY <1>0, <1>5, <2>2
    <3>2. PICK k \in 1 .. m : c[k] = u
      BY <1>1, <3>1
    <3>3. CASE k < i
      BY <1>0, <1>6, <3>2, <3>3
    <3>4. CASE k > i
      <4>1. k - 1 \in 1 .. m - 1 /\ k - 1 \in 0 .. m - 1 /\ ~(k - 1 < i) /\ (k - 1) + 1 = k
        BY <1>0, <3>4
      <4>2. QED
        BY <1>6, <3>2, <4>1
    <3>5. QED
      BY <1>0, <3>1, <3>2, <3>3, <3>4
  <2>3. QED
    BY <2>1, <2>2
<1>12. Chain(O, o, m - 1, d)
  <2>1. \A j, k \in 1 .. m - 1 : d[j] = d[k] => j = k
    BY <1>0, <1>7
  <2>2. QED
    BY <1>8, <1>9, <1>10, <1>11, <2>1 DEF Chain
<1>13. QED
  BY <1>0, <1>3, <1>12 DEF d, O

\* A list is as it was if none of its nodes has changed.
LEMMA LinkedSame ==
    ASSUME NEW L, NEW M, NEW o \in Obj, Linked(L, o),
           \A n \in WaitersOn(L, o) \cup {o} : M.next[n] = L.next[n],
           \A n \in WaitersOn(L, o) : M.prev[n] = L.prev[n],
           \A t \in Slot : M.wait_id[t] = o <=> L.wait_id[t] = o
    PROVE  /\ Linked(M, o)
           /\ \A t \in Slot : L.wait_id[t] = o => AheadOn(M, t) = AheadOn(L, t)
<1>1a. PICK m \in 0 .. TASK_INIT_NUM :
         \E c \in [0 .. m -> Slot \cup {o}] : Chain(L, o, m, c)
  BY DEF Linked
<1>1. PICK c \in [0 .. m -> Slot \cup {o}] : Chain(L, o, m, c)
  BY <1>1a
<1>2. m \in Nat /\ m \in 0 .. m
  BY NodeFacts
<1>3. \A i \in 0 .. m : c[i] \in WaitersOn(L, o) \cup {o}
  <2>1. \A i \in 0 .. m : i = 0 \/ i \in 1 .. m
    BY <1>2
  <2>2. QED
    BY <1>1, <2>1 DEF Chain, WaitersOn
<1>4. \A i \in 1 .. m : i - 1 \in 0 .. m /\ L.wait_id[c[i]] = o /\ c[i] \in Slot
                           /\ c[i] \in WaitersOn(L, o)
  BY <1>1, <1>2 DEF Chain, WaitersOn
<1>5. Chain(M, o, m, c)
  <2>1. \A i \in 1 .. m : M.next[c[i - 1]] = c[i] /\ M.prev[c[i]] = c[i - 1]
    BY <1>1, <1>3, <1>4 DEF Chain
  <2>2. M.next[c[m]] = NULL
    BY <1>1, <1>2, <1>3 DEF Chain
  <2>3. QED
    BY <1>1, <2>1, <2>2 DEF Chain
<1>6. ASSUME NEW t \in Slot, L.wait_id[t] = o
      PROVE  AheadOn(M, t) = AheadOn(L, t)
  <2>1. PICK i \in 1 .. m : t = c[i]
    BY <1>1, <1>6 DEF Chain
  <2>2. QED
    BY <1>1, <1>5, <2>1, ChainAhead
<1>7. QED
  BY <1>1, <1>5, <1>6 DEF Linked

\* The neighbours of a task on a list are on the list, or are its header.
LEMMA Neighbours ==
    ASSUME NEW L, NEW o \in Obj, Linked(L, o), NEW t \in Slot, L.wait_id[t] = o
    PROVE  /\ L.prev[t] \in WaitersOn(L, o) \cup {o}
           /\ L.next[t] \in WaitersOn(L, o) \cup {NULL}
           /\ L.next[L.prev[t]] = t
           /\ L.next[o] # NULL
           /\ L.prev[t] = o <=> L.next[o] = t
<1>1a. PICK m \in 0 .. TASK_INIT_NUM :
         \E c \in [0 .. m -> Slot \cup {o}] : Chain(L, o, m, c)
  BY DEF Linked
<1>1. PICK c \in [0 .. m -> Slot \cup {o}] : Chain(L, o, m, c)
  BY <1>1a
<1>2. /\ c[0] = o
      /\ \A i \in 1 .. m : c[i] \in Slot /\ L.wait_id[c[i]] = o
      /\ \A i \in 1 .. m : L.next[c[i - 1]] = c[i] /\ L.prev[c[i]] = c[i - 1]
      /\ L.next[c[m]] = NULL
      /\ \A i, j \in 1 .. m : c[i] = c[j] => i = j
  BY <1>1 DEF Chain
<1>3. PICK i \in 1 .. m : t = c[i]
  BY <1>1 DEF Chain
<1>4. L.prev[t] = c[i - 1] /\ L.next[c[i - 1]] = t
  BY <1>2, <1>3
<1>5. m \in Nat /\ i \in Nat /\ 1 <= m /\ 1 - 1 = 0
  BY <1>3, NodeFacts
<1>6. L.next[o] = c[1] /\ 1 \in 1 .. m
  BY <1>2, <1>5
<1>7. L.prev[t] \in WaitersOn(L, o) \cup {o}
  <2>1. i - 1 = 0 \/ i - 1 \in 1 .. m
    BY <1>5
  <2>2. QED
    BY <1>2, <1>4, <2>1 DEF WaitersOn
<1>8. L.next[t] \in WaitersOn(L, o) \cup {NULL}
  <2>1. i = m \/ (i + 1 \in 1 .. m /\ (i + 1) - 1 = i)
    BY <1>5
  <2>2. QED
    BY <1>2, <1>3, <2>1 DEF WaitersOn
<1>9. L.prev[t] = o <=> L.next[o] = t
  <2>1. i = 1 \/ (i - 1 \in 1 .. m /\ i # 1)
    BY <1>5
  <2>2. QED
    BY <1>2, <1>3, <1>4, <1>5, <1>6, <2>1, NodeFacts
<1>10. QED
  BY <1>2, <1>4, <1>6, <1>7, <1>8, <1>9, NodeFacts

\* In front of a task are tasks of the same list.
LEMMA AheadWaits ==
    ASSUME NEW L, NEW V \in SUBSET Obj, Good(L, V), NEW t \in Slot, NEW u \in AheadOn(L, t)
    PROVE  u \in Slot /\ L.wait_id[u] = L.wait_id[t] /\ L.wait_id[t] # NULL
<1>1. L.wait_id[t] # NULL
  BY DEF AheadOn
<1> DEFINE o == L.wait_id[t]
<1>2. o \in V /\ o \in Obj
  BY <1>1 DEF Good
<1>3a. PICK m \in 0 .. TASK_INIT_NUM :
         \E c \in [0 .. m -> Slot \cup {o}] : Chain(L, o, m, c)
  BY <1>2 DEF Good, Linked
<1>3. PICK c \in [0 .. m -> Slot \cup {o}] : Chain(L, o, m, c)
  BY <1>3a
<1>4. PICK i \in 1 .. m : t = c[i]
  BY <1>3 DEF Chain
<1>b. AheadOn(L, t) = Before(c, i)
  BY <1>2, <1>3, <1>4, ChainAhead
<1>5. PICK j \in 1 .. i - 1 : u = c[j]
  BY <1>b DEF Before
<1>6. j \in 1 .. m
  BY <1>4, NodeFacts
<1>7. QED
  BY <1>1, <1>3, <1>5, <1>6 DEF Chain

\* Taking a task off: it waits for nothing, and is in front of nobody.
LEMMA GoodOff ==
    ASSUME NEW L, NEW V \in SUBSET Obj, Good(L, V), NEW t \in Slot, L.wait_id[t] # NULL
    PROVE  /\ Good(Off(L, t), V)
           /\ \A u \in Slot :
                 AheadOn(Off(L, t), u) = IF u = t THEN {} ELSE AheadOn(L, u) \ {t}
<1> DEFINE O == Off(L, t)
           a == L.wait_id[t]
           p == L.prev[t]
           n == L.next[t]
<1>1. ListTypeOK(L) /\ a \in V /\ a \in Obj /\ Linked(L, a)
  BY DEF Good
<1>2. /\ p \in WaitersOn(L, a) \cup {a}
      /\ n \in WaitersOn(L, a) \cup {NULL}
  BY <1>1, Neighbours
<1>3. /\ \A u \in Node : O.next[u] = IF u = p THEN n ELSE L.next[u]
      /\ \A u \in Node : O.prev[u] = IF u = n THEN p ELSE L.prev[u]
      /\ \A u \in Slot : O.wait_id[u] = IF u = t THEN NULL ELSE L.wait_id[u]
      /\ ListTypeOK(O)
  <2> HIDE DEF p, n, a
  <2>1. /\ O.next = [L.next EXCEPT ![p] = n]
        /\ O.prev = IF n = NULL THEN L.prev ELSE [L.prev EXCEPT ![n] = p]
        /\ O.wait_id = [L.wait_id EXCEPT ![t] = NULL]
    BY DEF Off, p, n
  <2>2. p \in Node /\ n \in Slot \cup {NULL} /\ NULL \notin Node /\ Slot \subseteq Node
    BY <1>1, <1>2, NodeFacts DEF WaitersOn
  <2> HIDE DEF O
  <2>3. QED
    BY <1>1, <2>1, <2>2 DEF ListTypeOK
<1> HIDE DEF O
<1>4. ASSUME NEW o \in V, o # a
      PROVE  /\ Linked(O, o)
             /\ \A u \in Slot : L.wait_id[u] = o => AheadOn(O, u) = AheadOn(L, u)
  <2>1. Linked(L, o) /\ o \in Obj
    BY DEF Good
  <2>2. \A u \in WaitersOn(L, o) \cup {o} : u \in Node /\ u # p /\ u # n
    BY <1>1, <1>2, <1>4, <2>1, NodeFacts DEF WaitersOn
  <2>3. \A u \in Slot : O.wait_id[u] = o <=> L.wait_id[u] = o
    BY <1>3, <1>4, <2>1, NodeFacts
  <2>4. QED
    BY <1>3, <2>1, <2>2, <2>3, LinkedSame
<1>5a. PICK m \in 0 .. TASK_INIT_NUM :
         \E c \in [0 .. m -> Slot \cup {a}] : Chain(L, a, m, c)
  BY <1>1 DEF Linked
<1>5. PICK c \in [0 .. m -> Slot \cup {a}] : Chain(L, a, m, c)
  BY <1>5a
<1>6. PICK i \in 1 .. m : t = c[i]
  BY <1>5 DEF Chain
<1> DEFINE d == [j \in 0 .. m - 1 |-> IF j < i THEN c[j] ELSE c[j + 1]]
<1>7. /\ m - 1 \in 0 .. TASK_INIT_NUM /\ d \in [0 .. m - 1 -> Slot \cup {a}]
      /\ Chain(O, a, m - 1, d)
  BY <1>1, <1>5, <1>6, ChainOff DEF O
<1>8. Good(O, V)
  <2>1. \A o \in V : Linked(O, o)
    BY <1>4, <1>7 DEF Linked
  <2>2. \A u \in Slot : O.wait_id[u] # NULL => O.wait_id[u] \in V
    BY <1>3 DEF Good
  <2>3. QED
    BY <1>3, <2>1, <2>2 DEF Good
<1>9. ASSUME NEW u \in Slot
      PROVE  AheadOn(O, u) = IF u = t THEN {} ELSE AheadOn(L, u) \ {t}
  <2>1. CASE u = t \/ L.wait_id[u] = NULL
    BY <1>3, <2>1 DEF AheadOn
  <2>2. CASE u # t /\ L.wait_id[u] # NULL /\ L.wait_id[u] # a
    <3>1. AheadOn(O, u) = AheadOn(L, u)
      BY <1>4, <2>2 DEF Good
    <3>2. t \notin AheadOn(L, u)
      BY <2>2, AheadWaits
    <3>3. QED
      BY <2>2, <3>1, <3>2
  <2>3. CASE u # t /\ L.wait_id[u] = a
    <3>0. TASK_INIT_NUM \in Nat /\ m \in Nat
      BY NodeFacts
    <3>1. PICK k \in 1 .. m : u = c[k] /\ k # i
      BY <1>5, <1>6, <2>3 DEF Chain
    <3>2. AheadOn(L, u) = Before(c, k)
      BY <1>1, <1>5, <3>1, ChainAhead
    <3>3. \A j, h \in 1 .. m : c[j] = c[h] => j = h
      BY <1>5 DEF Chain
    <3>4. CASE k < i
      <4>1. k \in 1 .. m - 1 /\ d[k] = u
        BY <3>0, <3>1, <3>4
      <4>2. AheadOn(O, u) = Before(d, k)
        BY <1>1, <1>7, <4>1, ChainAhead
      <4>3. \A j \in 1 .. k - 1 : d[j] = c[j] /\ c[j] # t
        BY <1>6, <3>0, <3>1, <3>3, <3>4
      <4>4. Before(d, k) = Before(c, k) /\ t \notin Before(c, k)
        <5> HIDE DEF d
        <5>1. QED
          BY <4>3 DEF Before
      <4>5. QED
        BY <2>3, <3>2, <4>2, <4>4
    <3>5. CASE k > i
      <4>1. k - 1 \in 1 .. m - 1 /\ d[k - 1] = u
        BY <3>0, <3>1, <3>5
      <4>2. AheadOn(O, u) = Before(d, k - 1)
        BY <1>1, <1>7, <4>1, ChainAhead
      <4>3. ASSUME NEW j \in 1 .. (k - 1) - 1
            PROVE  \E h \in 1 .. k - 1 : c[h] = d[j] /\ h # i
        <5>1. CASE j < i
          BY <3>0, <3>1, <3>5, <5>1
        <5>2. CASE ~(j < i)
          <6>1. j + 1 \in 1 .. k - 1 /\ j + 1 # i /\ d[j] = c[j + 1]
            BY <3>0, <3>1, <3>5, <5>2
          <6>2. QED
            BY <6>1
        <5>3. QED
          BY <5>1, <5>2
      <4>4. ASSUME NEW h \in 1 .. k - 1, h # i
            PROVE  \E j \in 1 .. (k - 1) - 1 : c[h] = d[j]
        <5>1. CASE h < i
          BY <3>0, <3>1, <3>5, <5>1
        <5>2. CASE h > i
          <6>1. h - 1 \in 1 .. (k - 1) - 1 /\ d[h - 1] = c[h]
            BY <3>0, <3>1, <3>5, <5>2
          <6>2. QED
            BY <6>1
        <5>3. QED
          BY <4>4, <5>1, <5>2
      <4>5. \A h \in 1 .. k - 1 : c[h] = t <=> h = i
        BY <1>6, <3>0, <3>1, <3>3
      <4>6. \A v : v \in Before(d, k - 1) <=> v \in Before(c, k) /\ v # t
        <5> HIDE DEF d
        <5>1. ASSUME NEW v \in Before(d, k - 1)
              PROVE  v \in Before(c, k) /\ v # t
          <6>1. PICK j \in 1 .. (k - 1) - 1 : v = d[j]
            BY <5>1 DEF Before
          <6>2. PICK h \in 1 .. k - 1 : c[h] = v /\ h # i
            BY <4>3, <6>1
          <6>3. QED
            BY <4>5, <6>2 DEF Before
        <5>2. ASSUME NEW v \in Before(c, k), v # t
              PROVE  v \in Before(d, k - 1)
          <6>1. PICK h \in 1 .. k - 1 : v = c[h]
            BY <5>2 DEF Before
          <6>2. PICK j \in 1 .. (k - 1) - 1 : v = d[j]
            BY <4>4, <4>5, <5>2, <6>1
          <6>3. QED
            BY <6>2 DEF Before
        <5>3. QED
          BY <5>1, <5>2
      <4>7. Before(d, k - 1) = Before(c, k) \ {t}
        BY <4>6 DEF Before
      <4>8. QED
        BY <2>3, <3>2, <4>2, <4>7
    <3>6. QED
      BY <3>0, <3>1, <3>4, <3>5
  <2>4. QED
    BY <2>1, <2>2, <2>3
<1>10. QED
  BY <1>8, <1>9 DEF O

\* The task t, on no list, behind the last one of the list of a.
LEMMA ChainOn ==
    ASSUME NEW L, ListTypeOK(L), NEW o \in Obj, NEW m \in 0 .. TASK_INIT_NUM,
           NEW c \in [0 .. m -> Slot \cup {o}], Chain(L, o, m, c),
           NEW t \in Slot, L.wait_id[t] = NULL
    PROVE  LET d == [j \in 0 .. m + 1 |-> IF j <= m THEN c[j] ELSE t]
           IN  /\ m + 1 \in 0 .. TASK_INIT_NUM
               /\ d \in [0 .. m + 1 -> Slot \cup {o}]
               /\ Chain(On(L, o, c[m], t), o, m + 1, d)
<1> DEFINE d == [j \in 0 .. m + 1 |-> IF j <= m THEN c[j] ELSE t]
           O == On(L, o, c[m], t)
<1>0. TASK_INIT_NUM \in Nat /\ m \in Nat /\ m <= TASK_INIT_NUM
      /\ o \notin Slot /\ NULL \notin Slot /\ o # NULL
      /\ m \in 0 .. m /\ Slot \cup {o} \subseteq Node /\ m + 1 \in Nat
  BY NodeFacts
<1>1. /\ c[0] = o
      /\ \A j \in 1 .. m : c[j] \in Slot /\ L.wait_id[c[j]] = o
      /\ \A k, j \in 1 .. m : c[k] = c[j] => k = j
      /\ \A j \in 1 .. m : L.next[c[j - 1]] = c[j] /\ L.prev[c[j]] = c[j - 1]
      /\ L.next[c[m]] = NULL
      /\ \A u \in Slot : L.wait_id[u] = o <=> \E j \in 1 .. m : c[j] = u
  BY DEF Chain
<1>2. \A k, j \in 0 .. m : c[k] = c[j] => k = j
  <2> SUFFICES ASSUME NEW k \in 0 .. m, NEW j \in 0 .. m, c[k] = c[j]
               PROVE  k = j
    OBVIOUS
  <2>1. (k = 0 \/ k \in 1 .. m) /\ (j = 0 \/ j \in 1 .. m)
    BY <1>0
  <2>2. QED
    BY <1>0, <1>1, <2>1
<1>3. \A j \in 0 .. m : c[j] \in Node /\ c[j] # t
  <2>1. \A j \in 0 .. m : j = 0 \/ j \in 1 .. m
    BY <1>0
  <2>2. QED
    BY <1>0, <1>1, <2>1
<1>4. /\ d \in [0 .. m + 1 -> Slot \cup {o}]
      /\ \A j \in 0 .. m : d[j] = c[j]
      /\ d[m + 1] = t
  BY <1>0
<1> HIDE DEF d
<1>5. /\ \A u \in Node : O.next[u] = IF u = t THEN NULL
                                     ELSE IF u = c[m] THEN t ELSE L.next[u]
      /\ \A u \in Node : O.prev[u] = IF u = t THEN c[m] ELSE L.prev[u]
      /\ \A u \in Slot : O.wait_id[u] = IF u = t THEN o ELSE L.wait_id[u]
  <2>1. /\ O.next = [L.next EXCEPT ![c[m]] = t, ![t] = NULL]
        /\ O.prev = [L.prev EXCEPT ![t] = c[m]]
        /\ O.wait_id = [L.wait_id EXCEPT ![t] = o]
    BY DEF On
  <2>2. t \in Node /\ c[m] \in Node
    BY <1>0, <1>3
  <2> HIDE DEF O
  <2>3. QED
    BY <2>1, <2>2 DEF ListTypeOK
<1> HIDE DEF O
<1>6. \A j \in 1 .. m + 1 : j \in 1 .. m \/ j = m + 1
  BY <1>0
<1>7. d[0] = o /\ \A j \in 1 .. m + 1 : d[j] \in Slot
  <2>1. \A j \in 1 .. m : d[j] \in Slot
    BY <1>0, <1>1, <1>4
  <2>2. QED
    BY <1>0, <1>1, <1>4, <1>6, <2>1
<1>8. \A j, k \in 1 .. m + 1 : d[j] = d[k] => j = k
  <2> SUFFICES ASSUME NEW j \in 1 .. m + 1, NEW k \in 1 .. m + 1, d[j] = d[k]
               PROVE  j = k
    OBVIOUS
  <2>1. \A h \in 1 .. m : h \in 0 .. m /\ d[h] = c[h] /\ d[h] # t
    BY <1>0, <1>3, <1>4
  <2>2. QED
    BY <1>2, <1>4, <1>6, <2>1
<1>9. ASSUME NEW j \in 1 .. m + 1
      PROVE  O.next[d[j - 1]] = d[j] /\ O.prev[d[j]] = d[j - 1]
  <2>1. CASE j \in 1 .. m
    <3>1. j - 1 \in 0 .. m /\ j \in 0 .. m /\ j - 1 # m
      BY <1>0, <2>1
    <3>2. d[j] = c[j] /\ d[j - 1] = c[j - 1] /\ c[j - 1] # c[m]
      BY <1>0, <1>2, <1>4, <3>1
    <3>3. L.next[c[j - 1]] = c[j] /\ L.prev[c[j]] = c[j - 1]
      BY <1>1, <2>1
    <3>4. QED
      BY <1>3, <1>5, <3>1, <3>2, <3>3
  <2>2. CASE j = m + 1
    <3>1. j - 1 = m /\ d[j] = t /\ d[j - 1] = c[m] /\ c[m] # t /\ c[m] \in Node /\ t \in Node
      BY <1>0, <1>3, <1>4, <2>2
    <3>2. QED
      BY <1>5, <3>1
  <2>3. QED
    BY <1>6, <2>1, <2>2
<1>10. O.next[d[m + 1]] = NULL
  BY <1>0, <1>4, <1>5
<1>11. ASSUME NEW u \in Slot
       PROVE  O.wait_id[u] = o <=> \E j \in 1 .. m + 1 : d[j] = u
  <2>1. CASE u = t
    <3>1. m + 1 \in 1 .. m + 1
      BY <1>0
    <3>2. QED
      BY <1>4, <1>5, <2>1, <3>1
  <2>2. CASE u # t
    <3>1. \A j \in 1 .. m : j \in 1 .. m + 1 /\ d[j] = c[j]
      BY <1>0, <1>4
    <3>2. QED
      BY <1>1, <1>4, <1>5, <1>6, <2>2, <3>1
  <2>3. QED
    BY <2>1, <2>2
<1>12. Chain(O, o, m + 1, d)
  BY <1>7, <1>8, <1>9, <1>10, <1>11, <1>0 DEF Chain
<1>13. m + 1 <= TASK_INIT_NUM
  BY <1>0, <1>12, ChainLength
<1>14. QED
  BY <1>0, <1>4, <1>12, <1>13 DEF d, O

\* Putting a task behind the last one of a list: those on it are in front.
LEMMA GoodOn ==
    ASSUME NEW L, NEW V \in SUBSET Obj, Good(L, V), NEW a \in V,
           NEW t \in Slot, L.wait_id[t] = NULL,
           NEW n \in WaitersOn(L, a) \cup {a}, L.next[n] = NULL
    PROVE  /\ Good(On(L, a, n, t), V)
           /\ \A u \in Slot : AheadOn(On(L, a, n, t), u) =
                                 IF u = t THEN WaitersOn(L, a) ELSE AheadOn(L, u)
<1> DEFINE O == On(L, a, n, t)
<1>1. ListTypeOK(L) /\ a \in Obj /\ Linked(L, a)
  BY DEF Good
<1>2a. PICK m \in 0 .. TASK_INIT_NUM :
         \E c \in [0 .. m -> Slot \cup {a}] : Chain(L, a, m, c)
  BY <1>1 DEF Linked
<1>2. PICK c \in [0 .. m -> Slot \cup {a}] : Chain(L, a, m, c)
  BY <1>2a
<1>3. n = c[m]
  BY <1>1, <1>2, ChainWalk
<1> DEFINE d == [j \in 0 .. m + 1 |-> IF j <= m THEN c[j] ELSE t]
<1>4. /\ m + 1 \in 0 .. TASK_INIT_NUM /\ d \in [0 .. m + 1 -> Slot \cup {a}]
      /\ Chain(O, a, m + 1, d)
  <2>1. /\ m + 1 \in 0 .. TASK_INIT_NUM /\ d \in [0 .. m + 1 -> Slot \cup {a}]
        /\ Chain(On(L, a, c[m], t), a, m + 1, d)
    BY <1>1, <1>2, ChainOn
  <2> HIDE DEF d
  <2>2. QED
    BY <1>3, <2>1
<1>5. /\ \A u \in Node : O.next[u] = IF u = t THEN NULL
                                     ELSE IF u = n THEN t ELSE L.next[u]
      /\ \A u \in Node : O.prev[u] = IF u = t THEN n ELSE L.prev[u]
      /\ \A u \in Slot : O.wait_id[u] = IF u = t THEN a ELSE L.wait_id[u]
      /\ ListTypeOK(O)
  <2>1. /\ O.next = [L.next EXCEPT ![n] = t, ![t] = NULL]
        /\ O.prev = [L.prev EXCEPT ![t] = n]
        /\ O.wait_id = [L.wait_id EXCEPT ![t] = a]
    BY DEF On
  <2>2. n \in Node /\ t \in Node /\ NULL \notin Node /\ Slot \subseteq Node
    BY <1>1, NodeFacts DEF WaitersOn
  <2> HIDE DEF O
  <2>3. QED
    BY <1>1, <2>1, <2>2 DEF ListTypeOK
<1> HIDE DEF O
<1>6. ASSUME NEW o \in V, o # a
      PROVE  /\ Linked(O, o)
             /\ \A u \in Slot : L.wait_id[u] = o => AheadOn(O, u) = AheadOn(L, u)
  <2>1. Linked(L, o) /\ o \in Obj
    BY DEF Good
  <2>2. \A u \in WaitersOn(L, o) \cup {o} : u \in Node /\ u # t /\ u # n
    BY <1>1, <1>6, <2>1, NodeFacts DEF WaitersOn
  <2>3. \A u \in Slot : O.wait_id[u] = o <=> L.wait_id[u] = o
    BY <1>5, <1>6, <2>1, NodeFacts
  <2>4. /\ \A u \in WaitersOn(L, o) \cup {o} : O.next[u] = L.next[u]
        /\ \A u \in WaitersOn(L, o) : O.prev[u] = L.prev[u]
    BY <1>5, <2>2
  <2>5. QED
    BY <2>1, <2>3, <2>4, LinkedSame
<1>7. Good(O, V)
  <2>1. \A o \in V : Linked(O, o)
    BY <1>4, <1>6 DEF Linked
  <2>2. \A u \in Slot : O.wait_id[u] # NULL => O.wait_id[u] \in V
    BY <1>5 DEF Good
  <2>3. QED
    BY <1>5, <2>1, <2>2 DEF Good
<1>8. ASSUME NEW u \in Slot
      PROVE  AheadOn(O, u) = IF u = t THEN WaitersOn(L, a) ELSE AheadOn(L, u)
  <2>0. TASK_INIT_NUM \in Nat /\ m \in Nat /\ a # NULL
    BY <1>1, NodeFacts
  <2>1. CASE u = t
    <3>1. m + 1 \in 1 .. m + 1 /\ d[m + 1] = u
      BY <2>0, <2>1
    <3>2. AheadOn(O, u) = Before(d, m + 1)
      BY <1>1, <1>4, <3>1, ChainAhead
    <3>3. \A j \in 1 .. m : d[j] = c[j]
      BY <2>0
    <3>4. (m + 1) - 1 = m
      BY <2>0
    <3> HIDE DEF d
    <3>5. \A v : v \in Before(d, m + 1) <=> \E j \in 1 .. m : v = c[j]
      BY <3>3, <3>4 DEF Before
    <3>6. \A v : v \in WaitersOn(L, a) <=> \E j \in 1 .. m : v = c[j]
      BY <1>2 DEF Chain, WaitersOn
    <3>7. Before(d, m + 1) = WaitersOn(L, a)
      BY <3>5, <3>6 DEF Before, WaitersOn
    <3>8. QED
      BY <2>1, <3>2, <3>7
  <2>2. CASE u # t /\ L.wait_id[u] = NULL
    BY <1>5, <2>2 DEF AheadOn
  <2>3. CASE u # t /\ L.wait_id[u] # NULL /\ L.wait_id[u] # a
    BY <1>6, <2>3 DEF Good
  <2>4. CASE u # t /\ L.wait_id[u] = a
    <3>1. PICK k \in 1 .. m : u = c[k]
      BY <1>2, <2>4 DEF Chain
    <3>2. k \in 1 .. m + 1 /\ d[k] = u
      BY <2>0, <3>1
    <3>3. AheadOn(L, u) = Before(c, k) /\ AheadOn(O, u) = Before(d, k)
      BY <1>1, <1>2, <1>4, <3>1, <3>2, ChainAhead
    <3>4. \A j \in 1 .. k - 1 : d[j] = c[j]
      BY <2>0, <3>1
    <3> HIDE DEF d
    <3>5. Before(c, k) = Before(d, k)
      BY <3>4 DEF Before
    <3>6. QED
      BY <2>4, <3>3, <3>5
  <2>5. QED
    BY <2>1, <2>2, <2>3, <2>4
<1>9. QED
  BY <1>7, <1>8 DEF O

-----------------------------------------------------------------------------
(* The clock interrupt takes the due tasks off one by one. *)

\* The lists after each task of the circular list.
Ticked ==
    LET m[k \in 0 .. ntask - 1] ==
            IF k = 0
            THEN [next |-> next, prev |-> prev, wait_id |-> wait_id]
            ELSE Unlink(m[k - 1], (task_cur + k) % ntask)
    IN  m

\* The due tasks among the first k.
Gone(k) == {t \in Due : \E j \in 1 .. k : t = (task_cur + j) % ntask}

LEMMA UnlinkGood ==
    ASSUME NEW L, NEW V \in SUBSET Obj, Good(L, V), NEW t \in Slot
    PROVE  /\ Good(Unlink(L, t), V)
           /\ \A u \in Slot :
                 /\ Unlink(L, t).wait_id[u] = IF t \in Due /\ u = t THEN NULL
                                                                  ELSE L.wait_id[u]
                 /\ AheadOn(Unlink(L, t), u) =
                       IF t \in Due /\ u = t THEN {}
                       ELSE IF t \in Due THEN AheadOn(L, u) \ {t} ELSE AheadOn(L, u)
<1>1. CASE t \notin Due
  BY <1>1 DEF Unlink
<1>2. CASE t \in Due /\ L.wait_id[t] = NULL
  <2>1. Unlink(L, t) = L
    BY <1>2 DEF Unlink
  <2>2. ASSUME NEW u \in Slot
        PROVE  t \notin AheadOn(L, u) /\ AheadOn(L, t) = {}
    BY <1>2, AheadWaits DEF AheadOn
  <2>3. QED
    BY <1>2, <2>1, <2>2
<1>3. CASE t \in Due /\ L.wait_id[t] # NULL
  <2>1. Unlink(L, t) = Off(L, t)
    BY <1>3 DEF Unlink, Off
  <2>2. Off(L, t).wait_id = [L.wait_id EXCEPT ![t] = NULL]
    BY DEF Off
  <2>3. \A u \in Slot : Off(L, t).wait_id[u] = IF u = t THEN NULL ELSE L.wait_id[u]
    BY <2>2 DEF Good, ListTypeOK
  <2>4. /\ Good(Off(L, t), V)
        /\ \A u \in Slot :
              AheadOn(Off(L, t), u) = IF u = t THEN {} ELSE AheadOn(L, u) \ {t}
    BY <1>3, GoodOff
  <2>5. QED
    BY <1>3, <2>1, <2>3, <2>4
<1>4. QED
  BY <1>1, <1>2, <1>3

LEMMA TickedSteps ==
    ASSUME ntask \in Nat \ {0}
    PROVE  /\ Ticked[0] = Now
           /\ \A k \in 1 .. ntask - 1 :
                 Ticked[k] = Unlink(Ticked[k - 1], (task_cur + k) % ntask)
<1> DEFINE At(k) == (task_cur + k) % ntask
           Is(f, n) == f = [k \in 0 .. n |-> IF k = 0 THEN Now
                                             ELSE Unlink(f[k - 1], At(k))]
<1> HIDE DEF At
<1>1. \A n \in Nat : \E f : Is(f, n)
  <2> DEFINE Bad == {n \in Nat : ~\E f : Is(f, n)}
  <2>1. SUFFICES ASSUME Bad # {}
                 PROVE  FALSE
    OBVIOUS
  <2>2. PICK n \in Bad : \A j \in Bad : n <= j
    <3>1. Bad \in SUBSET Nat
      OBVIOUS
    <3> HIDE DEF Bad
    <3>2. QED
      BY <2>1, <3>1, KP!LeastNat, NodeFacts, TaskAssumption
  <2>3. n # 0
    <3>1. Is([k \in 0 .. 0 |-> Now], 0)
      OBVIOUS
    <3> HIDE DEF Is
    <3>2. QED
      BY <2>2, <3>1
  <2>4. n - 1 \in Nat /\ n \in Nat
    BY <2>2, <2>3
  <2>5. PICK f : Is(f, n - 1)
    <3>1. n - 1 \notin Bad
      <4> HIDE DEF Bad
      <4>1. QED
        BY <2>2, <2>4
    <3> HIDE DEF Is
    <3>2. QED
      BY <2>4, <3>1
  <2> DEFINE g == [k \in 0 .. n |-> IF k < n THEN f[k] ELSE Unlink(f[n - 1], At(n))]
  <2>6. \A k \in 0 .. n : g[k] = IF k = 0 THEN Now ELSE Unlink(g[k - 1], At(k))
    <3> SUFFICES ASSUME NEW k \in 0 .. n
                 PROVE  g[k] = IF k = 0 THEN Now ELSE Unlink(g[k - 1], At(k))
      OBVIOUS
    <3>1. CASE k = n
      BY <2>3, <2>4, <3>1
    <3>2. CASE k < n
      <4>1. k \in 0 .. n - 1
        BY <2>4, <3>2
      <4>2. g[k] = f[k] /\ (k # 0 => k - 1 \in 0 .. n /\ g[k - 1] = f[k - 1])
        BY <2>4, <3>2
      <4>3. f[k] = IF k = 0 THEN Now ELSE Unlink(f[k - 1], At(k))
        BY <2>5, <4>1
      <4> HIDE DEF g
      <4>4. QED
        BY <4>2, <4>3
    <3>3. QED
      BY <2>4, <3>1, <3>2
  <2>7. Is(g, n)
    BY <2>6
  <2> HIDE DEF Is
  <2>8. QED
    BY <2>2, <2>7
<1>2. ntask - 1 \in Nat
  OBVIOUS
<1>3. Is(Ticked, ntask - 1)
  <2>1. Ticked = CHOOSE f : Is(f, ntask - 1)
    BY DEF Ticked, Now, At
  <2> HIDE DEF Is
  <2>2. QED
    BY <1>1, <1>2, <2>1
<1>4. QED
  <2> DEFINE T == Ticked
  <2>1. T = [k \in 0 .. ntask - 1 |-> IF k = 0 THEN Now ELSE Unlink(T[k - 1], At(k))]
    BY <1>3
  <2>2. 0 \in 0 .. ntask - 1 /\ \A k \in 1 .. ntask - 1 : k \in 0 .. ntask - 1 /\ k # 0
    BY <1>2
  <2> HIDE DEF T
  <2>3. T[0] = Now /\ \A k \in 1 .. ntask - 1 : T[k] = Unlink(T[k - 1], At(k))
    BY <2>1, <2>2
  <2>4. QED
    BY <2>3 DEF T, At

LEMMA TickedGood ==
    ASSUME ntask \in Nat \ {0}, ntask <= TASK_INIT_NUM, task_cur \in 0 .. ntask - 1,
           NEW V \in SUBSET Obj, Good(Now, V)
    PROVE  \A k \in 0 .. ntask - 1 :
              /\ Good(Ticked[k], V)
              /\ \A u \in Slot :
                    /\ Ticked[k].wait_id[u] = IF u \in Gone(k) THEN NULL ELSE wait_id[u]
                    /\ AheadOn(Ticked[k], u) = IF u \in Gone(k) THEN {}
                                               ELSE AheadOn(Now, u) \ Gone(k)
<1> DEFINE P(k) == /\ Good(Ticked[k], V)
                   /\ \A u \in Slot :
                         /\ Ticked[k].wait_id[u] = IF u \in Gone(k) THEN NULL
                                                                    ELSE wait_id[u]
                         /\ AheadOn(Ticked[k], u) = IF u \in Gone(k) THEN {}
                                                    ELSE AheadOn(Now, u) \ Gone(k)
           Bad == {k \in 0 .. ntask - 1 : ~P(k)}
<1>0. TASK_INIT_NUM \in Nat /\ NULL \notin Obj
  BY NodeFacts
<1>1. P(0)
  <2>1. Ticked[0] = Now /\ Now.wait_id = wait_id
    BY TickedSteps DEF Now
  <2>2. Gone(0) = {}
    BY DEF Gone
  <2>3. QED
    BY <2>1, <2>2
<1>2. ASSUME NEW k \in 1 .. ntask - 1, P(k - 1)
      PROVE  P(k)
  <2> DEFINE t == (task_cur + k) % ntask
  <2>1. t \in Slot
    <3>1. t \in 0 .. ntask - 1
      OBVIOUS
    <3>2. QED
      BY <1>0, <3>1 DEF Slot
  <2>2. Gone(k) = IF t \in Due THEN Gone(k - 1) \cup {t} ELSE Gone(k - 1)
    <3> DEFINE at(j) == (task_cur + j) % ntask
    <3>1. \A j \in 1 .. k : j \in 1 .. k - 1 \/ j = k
      OBVIOUS
    <3>2. \A j \in 1 .. k - 1 : j \in 1 .. k
      OBVIOUS
    <3>3. k \in 1 .. k
      OBVIOUS
    <3>4. Gone(k) = {u \in Due : \E j \in 1 .. k : u = at(j)}
          /\ Gone(k - 1) = {u \in Due : \E j \in 1 .. k - 1 : u = at(j)}
          /\ t = at(k)
      BY DEF Gone
    <3> HIDE DEF at, t
    <3>5. \A u : u \in Gone(k) <=> u \in Gone(k - 1) \/ (u = t /\ t \in Due)
      BY <3>1, <3>2, <3>3, <3>4
    <3>6. QED
      BY <3>4, <3>5
  <2>3. Ticked[k] = Unlink(Ticked[k - 1], t)
    BY TickedSteps
  <2> HIDE DEF t
  <2> DEFINE L == Ticked[k - 1]
             M == Ticked[k]
  <2>4. /\ Good(L, V)
        /\ \A u \in Slot :
              /\ L.wait_id[u] = IF u \in Gone(k - 1) THEN NULL ELSE wait_id[u]
              /\ AheadOn(L, u) = IF u \in Gone(k - 1) THEN {}
                                 ELSE AheadOn(Now, u) \ Gone(k - 1)
    BY <1>2
  <2>5. /\ Good(M, V)
        /\ \A u \in Slot :
              /\ M.wait_id[u] = IF t \in Due /\ u = t THEN NULL ELSE L.wait_id[u]
              /\ AheadOn(M, u) = IF t \in Due /\ u = t THEN {}
                                 ELSE IF t \in Due THEN AheadOn(L, u) \ {t}
                                 ELSE AheadOn(L, u)
    <3> HIDE DEF L
    <3>1. M = Unlink(L, t)
      BY <2>3 DEF L
    <3>2. QED
      BY <2>1, <2>4, <3>1, UnlinkGood
  <2> HIDE DEF L, M
  <2>6. ASSUME NEW u \in Slot
        PROVE  /\ M.wait_id[u] = IF u \in Gone(k) THEN NULL ELSE wait_id[u]
               /\ AheadOn(M, u) = IF u \in Gone(k) THEN {} ELSE AheadOn(Now, u) \ Gone(k)
    <3>1. CASE t \notin Due
      BY <2>2, <2>4, <2>5, <3>1
    <3>2. CASE t \in Due
      BY <2>2, <2>4, <2>5, <3>2
    <3>3. QED
      BY <3>1, <3>2
  <2>7. QED
    BY <2>5, <2>6 DEF M
<1> HIDE DEF P
<1>3. SUFFICES ASSUME Bad # {}
               PROVE  FALSE
  BY DEF P
<1>4. PICK k \in Bad : \A j \in Bad : k <= j
  <2>1. Bad \in SUBSET Nat
    OBVIOUS
  <2> HIDE DEF Bad
  <2>2. QED
    BY <1>3, <2>1, KP!LeastNat, NodeFacts, TaskAssumption
<1>5. k \in 1 .. ntask - 1 /\ k - 1 \in 0 .. ntask - 1 /\ k - 1 \notin Bad
  <2>1. k # 0 /\ k \in 0 .. ntask - 1
    BY <1>1, <1>4
  <2>2. k - 1 \notin Bad
    <3> HIDE DEF Bad
    <3>1. QED
      BY <1>4, <2>1
  <2>3. QED
    BY <2>1, <2>2
<1>6. P(k - 1)
  BY <1>5
<1>7. QED
  BY <1>2, <1>4, <1>5, <1>6

\* All of the due tasks are passed.
LEMMA AllGone ==
    ASSUME ntask \in Nat \ {0}, task_cur \in 0 .. ntask - 1
    PROVE  Gone(ntask - 1) = Due
<1> SUFFICES ASSUME NEW t \in Due
             PROVE  \E j \in 1 .. ntask - 1 : t = (task_cur + j) % ntask
  BY DEF Gone
<1>1. t \in 0 .. ntask - 1 /\ t # task_cur
  BY DEF Due, Sleeping, Live
<1>2. CASE t > task_cur
  <2>1. t - task_cur \in 1 .. ntask - 1 /\ task_cur + (t - task_cur) = t
    BY <1>1, <1>2
  <2>2. t % ntask = t
    BY <1>1
  <2>3. QED
    BY <2>1, <2>2
<1>3. CASE t < task_cur
  <2> DEFINE j == t - task_cur + ntask
  <2>1. j \in 1 .. ntask - 1 /\ task_cur + j = t + ntask
    BY <1>1, <1>3
  <2>2. (t + ntask) % ntask = t
    BY <1>1
  <2> HIDE DEF j
  <2>3. (task_cur + j) % ntask = t
    BY <2>1, <2>2
  <2>4. QED
    BY <2>1, <2>3
<1>4. QED
  BY <1>1, <1>2, <1>3

-----------------------------------------------------------------------------
(* The operators of Objects are those above, on the lists as they are. *)

Valid == {o \in Obj : valid[o]}

LEMMA WalkNow == \A n : After(n) = Walk(next, n)
BY DEF After, Walk

LEMMA WalkThen == \A n : After(n)' = Walk(next', n)
BY DEF After, Walk

LEMMA AheadNow == \A t \in Slot : Ahead(t) = AheadOn(Now, t)
<1>1. Now.next = next /\ Now.wait_id = wait_id
  BY DEF Now
<1>2. QED
  BY <1>1, WalkNow DEF Ahead, AheadOn

LEMMA AheadThen == \A t \in Slot : Ahead(t)' = AheadOn(Now', t)
<1>1. (Now').next = next' /\ (Now').wait_id = wait_id'
  BY DEF Now
<1>2. ASSUME NEW t \in Slot
      PROVE  Ahead(t)' = AheadOn(Now', t)
  <2>1. After(wait_id[t])' = Walk(next', wait_id'[t])
    BY DEF After, Walk
  <2>2. QED
    BY <1>1, <2>1 DEF Ahead, AheadOn
<1>3. QED
  BY <1>2

-----------------------------------------------------------------------------
(* The two instances of Kernel, the one of the property and the one the     *)
(* proofs are about, say the same.                                          *)

LEMMA SameVars == K!vars = KP!vars
BY DEF K!vars, KP!vars, K!taskVars, KP!taskVars, K!listVars, KP!listVars

LEMMA SameInit == K!Init <=> KP!Init
BY DEF K!Init, KP!Init, K!TaskInit, KP!TaskInit, K!Slot, KP!Slot, K!Idle, KP!Idle,
       K!READY, KP!READY, K!UNUSED, KP!UNUSED, K!UNLOCK, KP!UNLOCK

LEMMA SameNext == K!Next <=> KP!Next
BY DEF K!Next, KP!Next, K!Create, KP!Create, K!Sleep, KP!Sleep, K!Wait, KP!Wait,
       K!Signal, KP!Signal, K!Delete, KP!Delete, K!Tick, KP!Tick, K!Lock, KP!Lock,
       K!Unlock, KP!Unlock, K!task_create, KP!task_create, K!task_delay,
       KP!task_delay, K!BlockCur, KP!BlockCur, K!ReadyTask, KP!ReadyTask,
       K!SetSchedSign, KP!SetSchedSign, K!task_locksched, KP!task_locksched,
       K!task_unlocksched, KP!task_unlocksched, K!TickTasks, KP!TickTasks,
       K!task_sched, KP!task_sched, K!task_nextrun, KP!task_nextrun,
       K!task_needsched, KP!task_needsched, K!task_getnextrun, KP!task_getnextrun,
       K!Candidates, KP!Candidates, K!Dist, KP!Dist, K!Due, KP!Due,
       K!Sleeping, KP!Sleeping, K!Live, KP!Live, K!Slot, KP!Slot, K!Idle, KP!Idle,
       K!UNUSED, KP!UNUSED, K!READY, KP!READY, K!RUN, KP!RUN, K!PEND, KP!PEND,
       K!LOCK, KP!LOCK, K!UNLOCK, KP!UNLOCK, K!MayBlock, KP!MayBlock,
       K!Waiters, KP!Waiters, K!Unlink, KP!Unlink, K!listVars, KP!listVars,
       K!taskVars, KP!taskVars

-----------------------------------------------------------------------------
(* The invariant of the lists. *)

ObjInv ==
    /\ KP!Inv
    /\ ObjTypeOK
    /\ Good(Now, Valid)

LEMMA SameTask ==
    /\ K!Slot = Slot
    /\ K!Due = Due
    /\ K!MayBlock <=> MayBlock
    /\ task_create => K!task_create
    /\ task_locksched => K!task_locksched
    /\ task_unlocksched => K!task_unlocksched
    /\ TickTasks => K!TickTasks
    /\ \A d : BlockCur(d) => K!BlockCur(d)
    /\ \A d : task_delay(d) => K!task_delay(d)
    /\ \A t : ReadyTask(t) => K!ReadyTask(t)
BY DEF task_create, K!task_create, task_delay, K!task_delay, BlockCur, K!BlockCur,
       ReadyTask, K!ReadyTask, SetSchedSign, K!SetSchedSign, task_locksched,
       K!task_locksched, task_unlocksched, K!task_unlocksched, TickTasks,
       K!TickTasks, task_sched, K!task_sched, task_nextrun, K!task_nextrun,
       task_needsched, K!task_needsched, task_getnextrun, K!task_getnextrun,
       Candidates, K!Candidates, Dist, K!Dist, Due, K!Due, Sleeping, K!Sleeping,
       Live, K!Live, Slot, K!Slot, Idle, K!Idle, READY, K!READY, RUN, K!RUN,
       PEND, K!PEND, LOCK, K!LOCK, UNLOCK, K!UNLOCK, MayBlock, K!MayBlock

\* What the invariant of Kernel says of the tasks.
LEMMA TaskFacts ==
    ASSUME KP!Inv
    PROVE  /\ TaskTypeOK
           /\ task_cur \in Slot /\ task_cur \in 0 .. ntask - 1
           /\ ntask \in Nat \ {0} /\ ntask <= TASK_INIT_NUM
           /\ wait_id[task_cur] = NULL
           /\ \A t \in Slot : wait_id[t] # NULL => task_state[t] = PEND
           /\ Due \subseteq Slot
<1>1. TaskTypeOK
  BY DEF KP!Inv, KP!TypeOK, KP!TaskTypeOK, TaskTypeOK, KP!Slot, Slot, KP!UNUSED, UNUSED,
         KP!READY, READY, KP!RUN, RUN, KP!PEND, PEND, KP!LOCK, LOCK, KP!UNLOCK, UNLOCK
<1>2. task_cur \in Slot /\ ntask \in Nat \ {0} /\ ntask <= TASK_INIT_NUM
      /\ TASK_INIT_NUM \in Nat
  BY <1>1, TaskAssumption DEF TaskTypeOK
<1>3. task_cur \in 0 .. ntask - 1
  BY DEF KP!Inv, KP!TableInUse, KP!Live
<1>4. \A t \in Slot : wait_id[t] # NULL => task_state[t] = PEND
  BY DEF KP!Inv, KP!WaitingIsPending, KP!Slot, Slot, KP!PEND, PEND
<1>5. task_state[task_cur] # PEND
  BY DEF KP!Inv, KP!OneRunning, KP!RUN, KP!READY, PEND
<1>6. Due \subseteq Slot
  BY <1>2 DEF Due, Sleeping, Live, Slot
<1>7. QED
  BY <1>1, <1>2, <1>3, <1>4, <1>5, <1>6

\* A step that is one of Kernel, and keeps the lists, keeps the invariant.
LEMMA ObjClosed ==
    ASSUME ObjInv, [K!Next]_(K!vars), Good(Now', Valid'),
           valid' \in [Obj -> BOOLEAN], masked' \in BOOLEAN
    PROVE  ObjInv'
<1>1. KP!Inv'
  <2>1. KP!Inv /\ [KP!Next]_(KP!vars)
    <3>1. CASE K!Next
      BY <3>1, SameNext DEF ObjInv
    <3>2. CASE UNCHANGED K!vars
      BY <3>2 DEF ObjInv, K!vars, KP!vars, K!taskVars, KP!taskVars, K!listVars, KP!listVars
    <3>3. QED
      BY <3>1, <3>2
  <2>2. QED
    BY <2>1, KP!NextInv, TaskAssumption, NodeFacts
<1>2. TaskTypeOK'
  BY <1>1 DEF KP!Inv, KP!TypeOK, KP!TaskTypeOK, TaskTypeOK, KP!Slot, Slot, KP!UNUSED,
              UNUSED, KP!READY, READY, KP!RUN, RUN, KP!PEND, PEND, KP!LOCK, LOCK,
              KP!UNLOCK, UNLOCK
<1>3. /\ next' \in [Node -> Slot \cup {NULL}]
      /\ prev' \in [Node -> Node \cup {NULL}]
      /\ wait_id' \in [Slot -> Obj \cup {NULL}]
  BY DEF Good, ListTypeOK, Now
<1>4. ObjTypeOK'
  BY <1>2, <1>3 DEF ObjTypeOK, Node, Slot
<1>5. QED
  BY <1>1, <1>4 DEF ObjInv

\* The lists are what their three functions are.
LEMMA GoodSame ==
    ASSUME NEW L, NEW M, NEW V \in SUBSET Obj, Good(L, V),
           M.next = L.next, M.prev = L.prev, M.wait_id = L.wait_id
    PROVE  /\ Good(M, V)
           /\ \A t \in Slot : AheadOn(M, t) = AheadOn(L, t)
<1>1. Good(M, V)
  BY DEF Good, ListTypeOK, Linked, Chain
<1>2. \A t \in Slot : AheadOn(M, t) = AheadOn(L, t)
  BY DEF AheadOn
<1>3. QED
  BY <1>1, <1>2

\* The head of a list that is not empty.
LEMMA HeadFacts ==
    ASSUME NEW L, NEW o \in Obj, Linked(L, o), L.next[o] # NULL
    PROVE  /\ L.next[o] \in Slot
           /\ L.wait_id[L.next[o]] = o
           /\ L.prev[L.next[o]] = o
           /\ AheadOn(L, L.next[o]) = {}
<1>1a. PICK m \in 0 .. TASK_INIT_NUM :
         \E c \in [0 .. m -> Slot \cup {o}] : Chain(L, o, m, c)
  BY DEF Linked
<1>1. PICK c \in [0 .. m -> Slot \cup {o}] : Chain(L, o, m, c)
  BY <1>1a
<1>2. m \in Nat /\ m # 0
  BY <1>1, NodeFacts DEF Chain
<1>3. 1 \in 1 .. m /\ 1 - 1 = 0
  BY <1>2
<1>4. L.next[o] = c[1] /\ c[1] \in Slot /\ L.wait_id[c[1]] = o /\ L.prev[c[1]] = o
  BY <1>1, <1>3 DEF Chain
<1>5. AheadOn(L, c[1]) = Before(c, 1)
  BY <1>1, <1>3, ChainAhead
<1>6. Before(c, 1) = {}
  BY DEF Before
<1>7. QED
  BY <1>4, <1>5, <1>6

\* The waiters of o, as Objects finds them.
LEMMA MembersNow ==
    ASSUME NEW o \in Obj, Linked(Now, o)
    PROVE  /\ ~Endless(o)
           /\ Members(o) = WaitersOn(Now, o)
           /\ \A n \in Members(o) \cup {o} : next[n] # NULL => prev[next[n]] = n
           /\ \E n \in Members(o) \cup {o} : next[n] = NULL
<1>1a. PICK m \in 0 .. TASK_INIT_NUM :
         \E c \in [0 .. m -> Slot \cup {o}] : Chain(Now, o, m, c)
  BY DEF Linked
<1>1. PICK c \in [0 .. m -> Slot \cup {o}] : Chain(Now, o, m, c)
  BY <1>1a
<1>2. Now.next = next /\ Now.prev = prev /\ Now.wait_id = wait_id
  BY DEF Now
<1>3. /\ Walk(next, o)[TASK_INIT_NUM + 1] = NULL
      /\ {Walk(next, o)[k] : k \in 1 .. TASK_INIT_NUM} \ {NULL} = WaitersOn(Now, o)
      /\ \A n \in WaitersOn(Now, o) \cup {o} : next[n] # NULL => prev[next[n]] = n
  <2>1. /\ Walk(Now.next, o)[TASK_INIT_NUM + 1] = NULL
        /\ {Walk(Now.next, o)[k] : k \in 1 .. TASK_INIT_NUM} \ {NULL}
               = WaitersOn(Now, o)
        /\ \A n \in WaitersOn(Now, o) \cup {o} :
              Now.next[n] # NULL => Now.prev[Now.next[n]] = n
    BY <1>1, ChainWalk
  <2>2. QED
    BY <1>2, <2>1
<1>4. ~Endless(o) /\ Members(o) = WaitersOn(Now, o)
  BY <1>3, WalkNow DEF Endless, Members
<1>5. c[m] \in WaitersOn(Now, o) \cup {o} /\ next[c[m]] = NULL
  <2>1. CASE m = 0
    BY <1>1, <1>2, <2>1 DEF Chain
  <2>2. CASE m # 0
    <3>1. m \in 1 .. m
      BY <2>2, NodeFacts
    <3>2. QED
      BY <1>1, <1>2, <3>1 DEF Chain, WaitersOn
  <2>3. QED
    BY <2>1, <2>2
<1>6. QED
  BY <1>3, <1>4, <1>5

(* Every valid object's list is linked. *)
LEMMA InvLists == ObjInv => ListsLinked
<1> SUFFICES ASSUME ObjInv, NEW o \in Obj, valid[o]
             PROVE  /\ ~Endless(o)
                    /\ Members(o) = {t \in Slot : wait_id[t] = o}
                    /\ \A n \in Members(o) \cup {o} : next[n] # NULL => prev[next[n]] = n
  BY DEF ListsLinked
<1>1. Linked(Now, o) /\ WaitersOn(Now, o) = {t \in Slot : wait_id[t] = o}
  BY DEF ObjInv, Good, Valid, WaitersOn, Now
<1>2. QED
  BY <1>1, MembersNow

-----------------------------------------------------------------------------
(* What Objects does to the lists, and to the scheduler, is what Kernel      *)
(* says.                                                                     *)

\* A step that leaves tasks and lists as they are.
LEMMA QuietStep ==
    ASSUME ObjInv, UNCHANGED <<taskVars, ptrVars>>
    PROVE  /\ Good(Now', Valid)
           /\ UNCHANGED K!vars
<1>1. Now' = Now
  BY DEF Now, ptrVars
<1>2. \A t \in Slot : Ahead(t)' = Ahead(t)
  BY <1>1, AheadNow, AheadThen
<1>3. [t \in Slot |-> Ahead(t)]' = [t \in Slot |-> Ahead(t)]
  BY <1>2
<1>4. QED
  BY <1>1, <1>3 DEF ObjInv, K!vars, K!taskVars, taskVars, K!listVars, ptrVars

LEMMA BlockStep ==
    ASSUME ObjInv, MayBlock, NEW o \in Valid, NEW d \in Delay, Block(o, d)
    PROVE  /\ Good(Now', Valid)
           /\ K!Wait(o, d)
<1> DEFINE n == Last(o)
           c == task_cur
<1>1. /\ c \in Slot /\ wait_id[c] = NULL /\ o \in Obj /\ Linked(Now, o)
      /\ Good(Now, Valid) /\ ObjTypeOK /\ Valid \in SUBSET Obj
  BY TaskFacts DEF ObjInv, Good, Valid
<1>2. Members(o) = WaitersOn(Now, o) /\ Now.wait_id = wait_id /\ Now.next = next
      /\ Now.prev = prev
  BY <1>1, MembersNow DEF Now
<1>3. n \in WaitersOn(Now, o) \cup {o} /\ next[n] = NULL
  <2>1. \E u \in Members(o) \cup {o} : next[u] = NULL
    BY <1>1, MembersNow
  <2>2. QED
    BY <1>2, <2>1 DEF Last
<1>4. c \notin Members(o)
  BY <1>1, <1>2, NodeFacts DEF WaitersOn
<1>5. Now' = On(Now, o, n, c)
  BY <1>2, <1>4 DEF Block, Enlist, Now, On
<1>6. /\ Good(On(Now, o, n, c), Valid)
      /\ \A u \in Slot : AheadOn(On(Now, o, n, c), u) =
                            IF u = c THEN WaitersOn(Now, o) ELSE AheadOn(Now, u)
  <2> HIDE DEF n, c
  <2>1. Now.wait_id[c] = NULL /\ Now.next[n] = NULL
    BY <1>1, <1>2, <1>3
  <2>2. QED
    BY <1>1, <1>3, <2>1, GoodOn
<1>7. \A u \in Slot : Ahead(u)' = IF u = c THEN WaitersOn(Now, o) ELSE Ahead(u)
  BY <1>5, <1>6, AheadNow, AheadThen
<1>8. K!Waiters(o) = WaitersOn(Now, o)
  BY <1>2 DEF K!Waiters, WaitersOn, K!Slot, Slot
<1>9. [t \in Slot |-> Ahead(t)]'
         = [[t \in Slot |-> Ahead(t)] EXCEPT ![task_cur] = K!Waiters(o)]
  <2> DEFINE W == K!Waiters(o)
  <2>1. \A u \in Slot : Ahead(u)' = IF u = c THEN W ELSE Ahead(u)
    BY <1>7, <1>8
  <2> DEFINE f == [t \in Slot |-> Ahead(t)]
  <2> HIDE DEF W
  <2>2. [t \in Slot |-> Ahead(t)]' = [u \in Slot |-> IF u = c THEN W ELSE f[u]]
    BY <2>1
  <2>3. DOMAIN f = Slot
    OBVIOUS
  <2> HIDE DEF f
  <2>4. [u \in Slot |-> IF u = c THEN W ELSE f[u]] = [f EXCEPT ![c] = W]
    BY <2>3
  <2>5. QED
    BY <2>2, <2>4 DEF f, W
<1>10. K!MayBlock /\ K!BlockCur(d)
  BY SameTask DEF Block
<1>11. QED
  BY <1>5, <1>6, <1>9, <1>10 DEF K!Wait, Block

LEMMA WakeStep ==
    ASSUME ObjInv, NEW o \in Valid, WakeHead(o)
    PROVE  /\ Good(Now', Valid)
           /\ K!Signal(o) \/ UNCHANGED K!vars
<1> DEFINE h == next[o]
<1>1. /\ o \in Obj /\ Linked(Now, o) /\ Good(Now, Valid) /\ ObjTypeOK
      /\ Valid \in SUBSET Obj
      /\ Now.wait_id = wait_id /\ Now.next = next /\ Now.prev = prev
  BY DEF ObjInv, Good, Valid, Now
<1>2. CASE h = NULL
  BY <1>2, QuietStep DEF WakeHead
<1>3. CASE h # NULL
  <2>1. h \in Slot /\ wait_id[h] = o /\ prev[h] = o /\ AheadOn(Now, h) = {}
    BY <1>1, <1>3, HeadFacts
  <2>2. Now' = Off(Now, h)
    BY <1>1, <1>3, <2>1 DEF WakeHead, Now, Off
  <2>3. /\ Good(Off(Now, h), Valid)
        /\ \A u \in Slot :
              AheadOn(Off(Now, h), u) = IF u = h THEN {} ELSE AheadOn(Now, u) \ {h}
    <3> HIDE DEF h
    <3>1. Now.wait_id[h] # NULL
      BY <1>1, <2>1, NodeFacts
    <3>2. QED
      BY <1>1, <2>1, <3>1, GoodOff
  <2>4. \A u \in Slot : Ahead(u)' = IF u = h THEN {} ELSE Ahead(u) \ {h}
    BY <2>2, <2>3, AheadNow, AheadThen
  <2>5. K!Unlink({h})
    <3>1. wait_id' = [t \in Slot |-> IF t \in {h} THEN NULL ELSE wait_id[t]]
      BY <1>1, <1>3, <2>1 DEF WakeHead, ObjTypeOK
    <3>2. [t \in Slot |-> Ahead(t)]'
             = [t \in Slot |-> IF t \in {h} THEN {}
                               ELSE [u \in Slot |-> Ahead(u)][t] \ {h}]
      BY <2>4
    <3>3. QED
      BY <3>1, <3>2 DEF K!Unlink, K!Slot, Slot
  <2>6. K!ReadyTask(h)
    BY <1>3, SameTask DEF WakeHead
  <2>7. h \in K!Waiters(o) /\ [t \in Slot |-> Ahead(t)][h] = {}
    BY <2>1, AheadNow, SameTask DEF K!Waiters
  <2>8. K!Signal(o)
    BY <2>5, <2>6, <2>7 DEF K!Signal
  <2>9. QED
    BY <2>2, <2>3, <2>8
<1>4. QED
  BY <1>2, <1>3

LEMMA TickStep ==
    ASSUME ObjInv, task_tickdo
    PROVE  /\ Good(Now', Valid)
           /\ K!Tick
<1>1. /\ Good(Now, Valid) /\ ObjTypeOK /\ Valid \in SUBSET Obj
      /\ ntask \in Nat \ {0} /\ ntask <= TASK_INIT_NUM /\ task_cur \in 0 .. ntask - 1
      /\ Due \subseteq Slot
  BY TaskFacts DEF ObjInv, Valid
<1> DEFINE T == Ticked[ntask - 1]
<1>2. /\ Good(T, Valid)
      /\ \A u \in Slot :
            /\ T.wait_id[u] = IF u \in Due THEN NULL ELSE wait_id[u]
            /\ AheadOn(T, u) = IF u \in Due THEN {} ELSE AheadOn(Now, u) \ Due
  <2>1. ntask - 1 \in 0 .. ntask - 1 /\ Gone(ntask - 1) = Due
    BY <1>1, AllGone
  <2>2. QED
    BY <1>1, <2>1, TickedGood
<1>3. next' = T.next /\ prev' = T.prev /\ wait_id' = T.wait_id
  BY DEF task_tickdo, Ticked
<1> HIDE DEF T
<1>4. (Now').next = T.next /\ (Now').prev = T.prev /\ (Now').wait_id = T.wait_id
  BY <1>3 DEF Now
<1>5. Good(Now', Valid) /\ \A u \in Slot : AheadOn(Now', u) = AheadOn(T, u)
  BY <1>1, <1>2, <1>4, GoodSame
<1>6. \A u \in Slot : Ahead(u)' = IF u \in Due THEN {} ELSE Ahead(u) \ Due
  BY <1>2, <1>5, AheadNow, AheadThen
<1>7. K!Unlink(Due)
  <2>1. wait_id' = [t \in Slot |-> IF t \in Due THEN NULL ELSE wait_id[t]]
    BY <1>2, <1>3 DEF Good, ListTypeOK
  <2>2. [t \in Slot |-> Ahead(t)]'
           = [t \in Slot |-> IF t \in Due THEN {}
                             ELSE [u \in Slot |-> Ahead(u)][t] \ Due]
    BY <1>6
  <2>3. QED
    BY <2>1, <2>2 DEF K!Unlink, K!Slot, Slot
<1>8. K!TickTasks /\ K!Due = Due
  BY SameTask DEF task_tickdo
<1>9. QED
  BY <1>5, <1>7, <1>8 DEF K!Tick

LEMMA SchedStep ==
    ASSUME ObjInv, SchedCall
    PROVE  /\ Good(Now', Valid) /\ valid' = valid
           /\ K!Next
<1>1. UNCHANGED ptrVars /\ valid' = valid
  BY DEF SchedCall, TaskCall
<1>2. Now' = Now
  BY <1>1 DEF Now, ptrVars
<1>3. [t \in Slot |-> Ahead(t)]' = [t \in Slot |-> Ahead(t)]
  BY <1>2, AheadNow, AheadThen
<1>4. UNCHANGED K!listVars
  BY <1>1, <1>3 DEF K!listVars, ptrVars
<1>5. K!Next
  <2>1. CASE TaskCall(task_create)
    BY <1>4, <2>1, SameTask DEF TaskCall, K!Next, K!Create
  <2>2. CASE TaskCall(task_locksched)
    BY <1>4, <2>2, SameTask DEF TaskCall, K!Next, K!Lock
  <2>3. CASE TaskCall(task_unlocksched)
    BY <1>4, <2>3, SameTask DEF TaskCall, K!Next, K!Unlock
  <2>4. ASSUME NEW d \in Delay, MayBlock, TaskCall(task_delay(d))
        PROVE  K!Next
    BY <1>4, <2>4, SameTask DEF TaskCall, K!Next, K!Sleep
  <2>5. QED
    BY <2>1, <2>2, <2>3, <2>4 DEF SchedCall
<1>6. QED
  BY <1>1, <1>2, <1>5 DEF ObjInv

LEMMA FirstFree == Free # {} => First(Free) \in Free
<1>1. Free \in SUBSET Nat
  BY ObjectsAssumption DEF Free
<1>2. Free # {} => \E o \in Free : \A p \in Free : o <= p
  BY <1>1, KP!LeastNat, TaskAssumption, NodeFacts
<1>3. QED
  BY <1>2 DEF First

\* A new object has an empty list; nobody waits for it yet.
LEMMA CreateStep ==
    ASSUME ObjInv, Create
    PROVE  /\ Good(Now', Valid') /\ valid' \in [Obj -> BOOLEAN]
           /\ UNCHANGED K!vars
<1> DEFINE o == First(Free)
<1>1. /\ Good(Now, Valid) /\ ObjTypeOK /\ Valid \in SUBSET Obj
      /\ Now.wait_id = wait_id /\ Now.next = next /\ Now.prev = prev
      /\ (Now').wait_id = wait_id' /\ (Now').next = next' /\ (Now').prev = prev'
  BY DEF ObjInv, Valid, Now
<1>2. CASE Free = {}
  <2>1. UNCHANGED <<taskVars, ptrVars>> /\ valid' = valid
    BY <1>2 DEF Create, ptrVars
  <2>2. QED
    BY <1>1, <2>1, QuietStep DEF ObjTypeOK, Valid
<1>3. CASE Free # {}
  <2>1. o \in Obj /\ ~valid[o] /\ o \notin Slot /\ o \in Node /\ o # NULL
    BY <1>3, FirstFree, NodeFacts DEF Free
  <2>2. /\ valid' = [valid EXCEPT ![o] = TRUE]
        /\ next' = [next EXCEPT ![o] = NULL]
        /\ prev' = [prev EXCEPT ![o] = NULL]
        /\ UNCHANGED <<taskVars, wait_id>>
    BY <1>3 DEF Create
  <2> HIDE DEF o
  <2>3. /\ valid' \in [Obj -> BOOLEAN]
        /\ Valid' = Valid \cup {o} /\ o \notin Valid /\ Valid' \in SUBSET Obj
    BY <1>1, <2>1, <2>2 DEF ObjTypeOK, Valid
  <2>4. ListTypeOK(Now')
    BY <1>1, <2>1, <2>2 DEF ListTypeOK, ObjTypeOK
  <2>5. \A t \in Slot : wait_id[t] # o
    BY <1>1, <2>1, <2>3 DEF Good
  <2>6. ASSUME NEW a \in Valid
        PROVE  /\ Linked(Now', a)
               /\ \A t \in Slot : wait_id[t] = a => AheadOn(Now', t) = AheadOn(Now, t)
    <3>1. Linked(Now, a) /\ a \in Obj /\ a # o
      BY <1>1, <2>3 DEF Good
    <3>2. \A n \in WaitersOn(Now, a) \cup {a} : n # o /\ n \in Node
      BY <2>1, <3>1, NodeFacts DEF WaitersOn
    <3>3. /\ \A n \in WaitersOn(Now, a) \cup {a} : (Now').next[n] = Now.next[n]
          /\ \A n \in WaitersOn(Now, a) : (Now').prev[n] = Now.prev[n]
      BY <1>1, <2>2, <3>2 DEF ObjTypeOK
    <3>4. \A t \in Slot : (Now').wait_id[t] = a <=> Now.wait_id[t] = a
      BY <1>1, <2>2
    <3> DEFINE M == Now'
    <3>5. /\ \A n \in WaitersOn(Now, a) \cup {a} : M.next[n] = Now.next[n]
          /\ \A n \in WaitersOn(Now, a) : M.prev[n] = Now.prev[n]
          /\ \A t \in Slot : M.wait_id[t] = a <=> Now.wait_id[t] = a
      BY <3>3, <3>4
    <3> HIDE DEF M
    <3>6. /\ Linked(M, a)
          /\ \A t \in Slot : Now.wait_id[t] = a => AheadOn(M, t) = AheadOn(Now, t)
      BY <3>1, <3>5, LinkedSame
    <3>7. QED
      BY <1>1, <3>6 DEF M
  <2>7. Linked(Now', o)
    <3> DEFINE c == [i \in 0 .. 0 |-> o]
    <3>1. c[0] = o /\ c \in [0 .. 0 -> Slot \cup {o}] /\ 0 \in 0 .. TASK_INIT_NUM
      BY NodeFacts
    <3>2. next'[o] = NULL
      BY <1>1, <2>1, <2>2 DEF ObjTypeOK
    <3> HIDE DEF c
    <3>3. Chain(Now', o, 0, c)
      BY <1>1, <2>2, <2>5, <3>1, <3>2 DEF Chain
    <3>4. QED
      BY <3>1, <3>3 DEF Linked
  <2>8. Good(Now', Valid')
    <3>1. \A t \in Slot : (Now').wait_id[t] # NULL => (Now').wait_id[t] \in Valid'
      BY <1>1, <2>2, <2>3 DEF Good
    <3>2. QED
      BY <2>3, <2>4, <2>6, <2>7, <3>1 DEF Good
  <2>9. \A t \in Slot : Ahead(t)' = Ahead(t)
    <3>1. ASSUME NEW t \in Slot
          PROVE  AheadOn(Now', t) = AheadOn(Now, t)
      <4>1. CASE wait_id[t] = NULL
        BY <1>1, <2>2, <4>1 DEF AheadOn
      <4>2. CASE wait_id[t] # NULL
        BY <1>1, <2>6, <4>2 DEF Good
      <4>3. QED
        BY <4>1, <4>2
    <3>2. QED
      BY <3>1, AheadNow, AheadThen
  <2>10. [t \in Slot |-> Ahead(t)]' = [t \in Slot |-> Ahead(t)]
    BY <2>9
  <2>11. QED
    BY <2>2, <2>3, <2>8, <2>10 DEF K!vars, K!taskVars, taskVars, K!listVars
<1>4. QED
  BY <1>2, <1>3

-----------------------------------------------------------------------------
(* Deletes.  Between the two steps of a delete the head of the list may be  *)
(* taken off it; the head read earlier still leads to the list, over tasks  *)
(* that no longer wait.                                                     *)

Stale(L, o, list) ==
    \E p \in Nat : \E e \in [0 .. p -> Slot \cup {NULL}] :
        /\ e[0] = list
        /\ e[p] = L.next[o]
        /\ \A i \in 0 .. p - 1 :
              e[i] \in Slot /\ L.wait_id[e[i]] = NULL /\ L.next[e[i]] = e[i + 1]

LEMMA StaleStart ==
    ASSUME NEW L, NEW o, L.next[o] \in Slot \cup {NULL}
    PROVE  Stale(L, o, L.next[o])
<1> DEFINE list == L.next[o]
           e == [i \in 0 .. 0 |-> list]
<1>1. e \in [0 .. 0 -> Slot \cup {NULL}] /\ e[0] = list
  OBVIOUS
<1> HIDE DEF e
<1>2. \A i \in 0 .. 0 - 1 :
        e[i] \in Slot /\ L.wait_id[e[i]] = NULL /\ L.next[e[i]] = e[i + 1]
  OBVIOUS
<1>3. QED
  BY <1>1, <1>2 DEF Stale

LEMMA StaleOff ==
    ASSUME NEW L, NEW V \in SUBSET Obj, Good(L, V), NEW o \in V, NEW list,
           Stale(L, o, list), NEW t \in Slot, L.wait_id[t] # NULL
    PROVE  Stale(Off(L, t), o, list)
<1> DEFINE O == Off(L, t)
           a == L.wait_id[t]
           q == L.prev[t]
<1>0. TASK_INIT_NUM \in Nat /\ NULL \notin Slot /\ NULL \notin Obj /\ Slot \cap Obj = {}
      /\ o \in Obj /\ o \in Node /\ Slot \subseteq Node
  BY NodeFacts
<1>1. ListTypeOK(L) /\ a \in V /\ a \in Obj /\ Linked(L, a) /\ Linked(L, o)
  BY DEF Good
<1>2. /\ q \in WaitersOn(L, a) \cup {a}
      /\ L.next[q] = t
  BY <1>1, Neighbours
<1>3. /\ \A u \in Node : O.next[u] = IF u = q THEN L.next[t] ELSE L.next[u]
      /\ \A u \in Slot : O.wait_id[u] = IF u = t THEN NULL ELSE L.wait_id[u]
  BY <1>1 DEF Off, ListTypeOK
<1>4a. PICK p \in Nat : \E e \in [0 .. p -> Slot \cup {NULL}] :
          /\ e[0] = list
          /\ e[p] = L.next[o]
          /\ \A i \in 0 .. p - 1 :
                e[i] \in Slot /\ L.wait_id[e[i]] = NULL /\ L.next[e[i]] = e[i + 1]
  BY DEF Stale
<1>4. PICK e \in [0 .. p -> Slot \cup {NULL}] :
          /\ e[0] = list
          /\ e[p] = L.next[o]
          /\ \A i \in 0 .. p - 1 :
                e[i] \in Slot /\ L.wait_id[e[i]] = NULL /\ L.next[e[i]] = e[i + 1]
  BY <1>4a
<1> HIDE DEF O, q
<1>5. \A i \in 0 .. p - 1 : e[i] # q
  BY <1>0, <1>1, <1>2, <1>4 DEF WaitersOn
<1>6. \A i \in 0 .. p - 1 :
         e[i] \in Slot /\ O.wait_id[e[i]] = NULL /\ O.next[e[i]] = e[i + 1]
  BY <1>0, <1>3, <1>4, <1>5
<1>7. CASE q # o
  <2>1. O.next[o] = L.next[o]
    BY <1>0, <1>3, <1>7
  <2>2. QED
    BY <1>4, <1>6, <2>1 DEF Stale, O
<1>8. CASE q = o
  <2> DEFINE n == L.next[t]
             f == [i \in 0 .. p + 1 |-> IF i <= p THEN e[i] ELSE n]
  <2>1. n \in Slot \cup {NULL} /\ t # o
    BY <1>0, <1>1 DEF ListTypeOK
  <2>2. O.next[o] = n /\ O.next[t] = n /\ O.wait_id[t] = NULL /\ e[p] = t
    BY <1>0, <1>2, <1>3, <1>4, <1>8, <2>1
  <2>3. 0 \in 0 .. p + 1 /\ p + 1 \in 0 .. p + 1 /\ p + 1 \in Nat /\ (p + 1) - 1 = p
    OBVIOUS
  <2> HIDE DEF n
  <2>4. f \in [0 .. p + 1 -> Slot \cup {NULL}] /\ f[0] = list /\ f[p + 1] = n
    BY <1>4, <2>1, <2>3
  <2>5. ASSUME NEW i \in 0 .. p
        PROVE  f[i] \in Slot /\ O.wait_id[f[i]] = NULL /\ O.next[f[i]] = f[i + 1]
    <3>1. CASE i = p
      <4>1. f[i] = t /\ f[i + 1] = n
        BY <2>2, <3>1
      <4>2. QED
        BY <2>2, <4>1
    <3>2. CASE i # p
      <4>1. i \in 0 .. p - 1 /\ f[i] = e[i] /\ f[i + 1] = e[i + 1]
        BY <3>2
      <4>2. QED
        BY <1>6, <4>1
    <3>3. QED
      BY <3>1, <3>2
  <2> HIDE DEF f
  <2>6. QED
    BY <2>2, <2>3, <2>4, <2>5 DEF Stale, O
<1>9. QED
  BY <1>7, <1>8

LEMMA StaleUnlink ==
    ASSUME NEW L, NEW V \in SUBSET Obj, Good(L, V), NEW o \in V, NEW list,
           Stale(L, o, list), NEW t \in Slot
    PROVE  Stale(Unlink(L, t), o, list)
<1>1. CASE t \notin Due \/ L.wait_id[t] = NULL
  BY <1>1 DEF Unlink
<1>2. CASE t \in Due /\ L.wait_id[t] # NULL
  <2>1. Unlink(L, t) = Off(L, t)
    BY <1>2 DEF Unlink, Off
  <2>2. QED
    BY <1>2, <2>1, StaleOff
<1>3. QED
  BY <1>1, <1>2

LEMMA StaleTicked ==
    ASSUME ntask \in Nat \ {0}, ntask <= TASK_INIT_NUM, task_cur \in 0 .. ntask - 1,
           NEW V \in SUBSET Obj, Good(Now, V), NEW o \in V, NEW list,
           Stale(Now, o, list)
    PROVE  \A k \in 0 .. ntask - 1 : Stale(Ticked[k], o, list)
<1> DEFINE Bad == {k \in 0 .. ntask - 1 : ~Stale(Ticked[k], o, list)}
<1>1. SUFFICES ASSUME Bad # {}
               PROVE  FALSE
  OBVIOUS
<1>2. PICK k \in Bad : \A j \in Bad : k <= j
  <2>1. Bad \in SUBSET Nat
    OBVIOUS
  <2> HIDE DEF Bad
  <2>2. QED
    BY <1>1, <2>1, KP!LeastNat, NodeFacts, TaskAssumption
<1>3. Ticked[0] = Now
  BY TickedSteps
<1>4. k \in 1 .. ntask - 1 /\ k - 1 \in 0 .. ntask - 1
  BY <1>2, <1>3
<1>5. Stale(Ticked[k - 1], o, list)
  <2>1. k - 1 \notin Bad
    <3> HIDE DEF Bad
    <3>1. QED
      BY <1>2, <1>4
  <2>2. QED
    BY <1>4, <2>1
<1> DEFINE t == (task_cur + k) % ntask
           L == Ticked[k - 1]
<1>6. t \in Slot
  <2>1. t \in 0 .. ntask - 1
    OBVIOUS
  <2>2. QED
    BY <2>1, NodeFacts DEF Slot
<1>7. Ticked[k] = Unlink(L, t)
  BY <1>4, TickedSteps
<1>8. Good(L, V)
  BY <1>4, TickedGood
<1>9. Stale(Unlink(L, t), o, list)
  <2> HIDE DEF L, t
  <2>1. QED
    BY <1>5, <1>6, <1>8, StaleUnlink DEF L
<1>10. QED
  BY <1>2, <1>7, <1>9

LEMMA StaleTick ==
    ASSUME ObjInv, task_tickdo, NEW o \in Valid, NEW list, Stale(Now, o, list)
    PROVE  Stale(Now', o, list)
<1>1. /\ Good(Now, Valid) /\ Valid \in SUBSET Obj
      /\ ntask \in Nat \ {0} /\ ntask <= TASK_INIT_NUM /\ task_cur \in 0 .. ntask - 1
  BY TaskFacts DEF ObjInv, Valid
<1> DEFINE T == Ticked[ntask - 1]
<1>2. Stale(T, o, list)
  <2>1. ntask - 1 \in 0 .. ntask - 1
    BY <1>1
  <2>2. QED
    BY <1>1, <2>1, StaleTicked
<1>3. next' = T.next /\ wait_id' = T.wait_id
  BY DEF task_tickdo, Ticked
<1> HIDE DEF T
<1>4. (Now').next = T.next /\ (Now').wait_id = T.wait_id
  BY <1>3 DEF Now
<1>5. QED
  BY <1>2, <1>4 DEF Stale

\* From a stale head the walk passes all the waiters, and otherwise only
\* tasks that no longer wait.
LEMMA Forgotten ==
    ASSUME NEW o \in Obj, Linked(Now, o), NEW list \in Slot, Stale(Now, o, list),
           ~Endless(list), NEW t \in Slot
    PROVE  /\ wait_id[t] = o => t \in Forgetting(list)
           /\ t \in Forgetting(list) => wait_id[t] \in {o, NULL}
<1>0. TASK_INIT_NUM \in Nat /\ NULL \notin Slot /\ NULL \notin Obj /\ NULL \notin Node
      /\ Slot \subseteq Node
      /\ Now.next = next /\ Now.wait_id = wait_id
  BY NodeFacts DEF Now
<1>1a. PICK m \in 0 .. TASK_INIT_NUM :
         \E c \in [0 .. m -> Slot \cup {o}] : Chain(Now, o, m, c)
  BY DEF Linked
<1>1b. PICK c \in [0 .. m -> Slot \cup {o}] : Chain(Now, o, m, c)
  BY <1>1a
<1>1. /\ c[0] = o
      /\ \A i \in 1 .. m : c[i] \in Slot
      /\ \A i \in 1 .. m : next[c[i - 1]] = c[i]
      /\ next[c[m]] = NULL
      /\ \A u \in Slot : wait_id[u] = o <=> \E i \in 1 .. m : c[i] = u
  BY <1>0, <1>1b DEF Chain
<1>2a. PICK p \in Nat : \E e \in [0 .. p -> Slot \cup {NULL}] :
          /\ e[0] = list
          /\ e[p] = Now.next[o]
          /\ \A i \in 0 .. p - 1 :
                e[i] \in Slot /\ Now.wait_id[e[i]] = NULL /\ Now.next[e[i]] = e[i + 1]
  BY DEF Stale
<1>2. PICK e \in [0 .. p -> Slot \cup {NULL}] :
          /\ e[0] = list
          /\ e[p] = next[o]
          /\ \A i \in 0 .. p - 1 :
                e[i] \in Slot /\ wait_id[e[i]] = NULL /\ next[e[i]] = e[i + 1]
  BY <1>0, <1>2a
<1> DEFINE n == p + m - 1
           f == [i \in 0 .. n |-> IF i < p THEN e[i] ELSE c[i - p + 1]]
<1>3. m \in Nat /\ p \in Nat
  BY <1>0
<1>4. m = 0 => next[o] = NULL
  BY <1>1
<1>5. m # 0 => next[o] = c[1]
  <2>1. m # 0 => 1 \in 1 .. m /\ 1 - 1 = 0
    BY <1>3
  <2>2. QED
    BY <1>1, <2>1
<1>6. n \in Nat
  <2>1. m = 0 => p # 0
    BY <1>0, <1>2, <1>4
  <2>2. QED
    BY <1>3, <2>1
<1>7. \A i \in 0 .. n : /\ i < p => i \in 0 .. p - 1 /\ f[i] = e[i]
                        /\ ~(i < p) => i - p + 1 \in 1 .. m /\ f[i] = c[i - p + 1]
  BY <1>3
<1>8. \A i \in 0 .. n : f[i] \in Slot
  BY <1>1, <1>2, <1>7
<1>9. \A i \in 0 .. n : wait_id[f[i]] \in {o, NULL}
  BY <1>1, <1>2, <1>7
<1>10. f[0] = list
  <2>1. CASE p = 0
    <3>1. m # 0 /\ 0 \in 0 .. n /\ 0 - p + 1 = 1
      BY <1>6, <2>1
    <3>2. QED
      BY <1>2, <1>5, <1>7, <2>1, <3>1
  <2>2. CASE p # 0
    <3>1. 0 \in 0 .. n /\ 0 < p
      BY <1>3, <1>6, <2>2
    <3>2. QED
      BY <1>2, <1>7, <3>1
  <2>3. QED
    BY <2>1, <2>2
<1>11. ASSUME NEW i \in 1 .. n
       PROVE  next[f[i - 1]] = f[i]
  <2>1. i \in 0 .. n /\ i - 1 \in 0 .. n /\ (i - 1) + 1 = i
    BY <1>6
  <2>2. CASE i < p
    <3>1. i - 1 < p /\ i - 1 \in 0 .. p - 1
      BY <1>3, <2>2
    <3>2. QED
      BY <1>2, <1>7, <2>1, <2>2, <3>1
  <2>3. CASE i = p
    <3>1. i - 1 < p /\ i - 1 \in 0 .. p - 1 /\ ~(i < p) /\ i - p + 1 = 1 /\ m # 0
      BY <1>3, <2>3
    <3>2. f[i] = c[1] /\ f[i - 1] = e[i - 1] /\ next[e[i - 1]] = e[p]
      BY <1>2, <1>7, <2>1, <2>3, <3>1
    <3>3. QED
      BY <1>2, <1>5, <3>1, <3>2
  <2>4. CASE i > p
    <3>1. ~(i < p) /\ ~(i - 1 < p) /\ (i - 1) - p + 1 = (i - p + 1) - 1
      BY <1>3, <2>4
    <3>2. f[i] = c[i - p + 1] /\ f[i - 1] = c[(i - p + 1) - 1] /\ i - p + 1 \in 1 .. m
      BY <1>7, <2>1, <3>1
    <3>3. QED
      BY <1>1, <3>2
  <2>5. QED
    BY <1>3, <2>2, <2>3, <2>4
<1>12. next[f[n]] = NULL
  <2>1. n \in 0 .. n
    BY <1>6
  <2>2. CASE m = 0
    <3>1. n < p /\ n + 1 = p /\ n \in 0 .. p - 1
      BY <1>3, <1>6, <2>2
    <3>2. next[f[n]] = e[p]
      BY <1>2, <1>7, <2>1, <3>1
    <3>3. QED
      BY <1>2, <1>4, <2>2, <3>2
  <2>3. CASE m # 0
    <3>1. ~(n < p) /\ n - p + 1 = m
      BY <1>3, <2>3
    <3>2. QED
      BY <1>1, <1>7, <2>1, <3>1
  <2>4. QED
    BY <2>2, <2>3
<1>13. f \in [0 .. n -> Node]
  BY <1>0, <1>8
<1>14. \A i \in 0 .. n : i < p \/ \E j \in 1 .. m : f[i] = c[j]
  BY <1>7
<1>15. \A j \in 1 .. m : p + j - 1 \in 0 .. n /\ f[p + j - 1] = c[j]
  <2> SUFFICES ASSUME NEW j \in 1 .. m
               PROVE  p + j - 1 \in 0 .. n /\ f[p + j - 1] = c[j]
    OBVIOUS
  <2>1. p + j - 1 \in 0 .. n /\ ~(p + j - 1 < p) /\ (p + j - 1) - p + 1 = j
    BY <1>3
  <2>2. QED
    BY <1>7, <2>1
<1> HIDE DEF f, n
<1>16. \A k \in 0 .. TASK_INIT_NUM + 1 :
          After(list)[k] = IF k <= n THEN f[k] ELSE NULL
  <2>1. \A k \in 0 .. TASK_INIT_NUM + 1 :
           Walk(next, f[0])[k] = IF k <= n THEN f[k] ELSE NULL
    BY <1>6, <1>11, <1>12, <1>13, PathWalk
  <2>2. QED
    BY <1>10, <2>1, WalkNow
<1>17. n <= TASK_INIT_NUM
  <2> SUFFICES ASSUME n > TASK_INIT_NUM
               PROVE  FALSE
    BY <1>0, <1>6
  <2>1. TASK_INIT_NUM + 1 \in 0 .. n /\ TASK_INIT_NUM + 1 \in 0 .. TASK_INIT_NUM + 1
        /\ TASK_INIT_NUM + 1 <= n
    BY <1>0, <1>6
  <2>2. After(list)[TASK_INIT_NUM + 1] \in Slot
    BY <1>8, <1>16, <2>1
  <2>3. QED
    BY <1>0, <2>2 DEF Endless
<1>18. Forgetting(list) = {list} \cup Members(list)
  BY <1>0 DEF Forgetting
<1>19. ASSUME wait_id[t] = o
       PROVE  t \in Forgetting(list)
  <2>1. PICK j \in 1 .. m : c[j] = t
    BY <1>1, <1>19
  <2> DEFINE k == p + j - 1
  <2>2. k \in 0 .. n /\ f[k] = t
    BY <1>15, <2>1
  <2> HIDE DEF k
  <2>3. CASE k = 0
    BY <1>10, <1>18, <2>2, <2>3
  <2>4. CASE k # 0
    <3>1. k \in 1 .. TASK_INIT_NUM /\ k \in 0 .. TASK_INIT_NUM + 1 /\ k <= n
      BY <1>0, <1>6, <1>17, <2>2, <2>4
    <3>2. After(list)[k] = t /\ t # NULL
      BY <1>0, <1>16, <2>2, <3>1
    <3>3. QED
      BY <1>18, <3>1, <3>2 DEF Members
  <2>5. QED
    BY <2>3, <2>4
<1>20. ASSUME t \in Forgetting(list)
       PROVE  wait_id[t] \in {o, NULL}
  <2>1. \E k \in 0 .. n : f[k] = t
    <3>1. CASE t = list
      <4>1. 0 \in 0 .. n
        BY <1>6
      <4>2. QED
        BY <1>10, <3>1, <4>1
    <3>2. CASE t \in Members(list)
      <4>1. PICK k \in 1 .. TASK_INIT_NUM : After(list)[k] = t /\ t # NULL
        BY <3>2 DEF Members
      <4>2. k \in 0 .. TASK_INIT_NUM + 1 /\ k \in Nat
        BY <1>0
      <4>3. k <= n /\ f[k] = t
        BY <1>16, <4>1, <4>2
      <4>4. QED
        BY <1>6, <4>2, <4>3
    <3>3. QED
      BY <1>18, <1>20, <3>1, <3>2
  <2>2. QED
    BY <1>9, <2>1
<1>21. QED
  BY <1>19, <1>20

LEMMA DeleteStep ==
    ASSUME ObjInv, Delete, NEW o \in Valid, NEW list \in Slot \cup {NULL},
           call[task_cur].obj = o, call[task_cur].list = list, Stale(Now, o, list)
    PROVE  /\ Good(Now', Valid') /\ valid' \in [Obj -> BOOLEAN]
           /\ K!Delete(o) \/ UNCHANGED K!vars
<1>0. NULL \notin Slot /\ NULL \notin Obj /\ Slot \cap Obj = {}
  BY NodeFacts
<1>1. /\ Good(Now, Valid) /\ ObjTypeOK /\ Valid \in SUBSET Obj /\ o \in Obj
      /\ Linked(Now, o)
      /\ Now.wait_id = wait_id /\ Now.next = next /\ Now.prev = prev
      /\ (Now').wait_id = wait_id' /\ (Now').next = next' /\ (Now').prev = prev'
  BY DEF ObjInv, Good, Valid, Now
<1>2. /\ list # NULL => ~Endless(list)
      /\ valid' = [valid EXCEPT ![o] = FALSE]
      /\ wait_id' = [t \in Slot |-> IF t \in Forgetting(list) THEN NULL ELSE wait_id[t]]
      /\ UNCHANGED <<taskVars, next, prev>>
  BY DEF Delete
<1>3. \A t \in Slot : wait_id'[t] = IF wait_id[t] = o THEN NULL ELSE wait_id[t]
  <2>1. CASE list = NULL
    <3>1. Forgetting(list) = {}
      BY <2>1 DEF Forgetting
    <3>2. \A t \in Slot : wait_id[t] # o
      <4>1. next[o] = NULL
        <5>1a. PICK p \in Nat : \E e \in [0 .. p -> Slot \cup {NULL}] :
                 /\ e[0] = list
                 /\ e[p] = Now.next[o]
                 /\ \A i \in 0 .. p - 1 :
                       e[i] \in Slot /\ Now.wait_id[e[i]] = NULL
                                     /\ Now.next[e[i]] = e[i + 1]
          BY DEF Stale
        <5>1. PICK e \in [0 .. p -> Slot \cup {NULL}] :
                 /\ e[0] = list
                 /\ e[p] = Now.next[o]
                 /\ \A i \in 0 .. p - 1 : e[i] \in Slot
          BY <5>1a
        <5>2. p = 0
          BY <1>0, <2>1, <5>1
        <5>3. QED
          BY <1>1, <2>1, <5>1, <5>2
      <4>2. ASSUME NEW t \in Slot, wait_id[t] = o
            PROVE  FALSE
        <5>1. Now.wait_id[t] = o
          BY <1>1, <4>2
        <5>2. Now.next[o] # NULL
          BY <1>1, <5>1, Neighbours
        <5>3. QED
          BY <1>1, <4>1, <5>2
      <4>3. QED
        BY <4>2
    <3>3. QED
      BY <1>2, <3>1, <3>2
  <2>2. CASE list # NULL
    <3>1. \A t \in Slot : /\ wait_id[t] = o => t \in Forgetting(list)
                          /\ t \in Forgetting(list) => wait_id[t] \in {o, NULL}
      BY <1>1, <1>2, <2>2, Forgotten
    <3>2. QED
      BY <1>2, <3>1
  <2>3. QED
    BY <2>1, <2>2
<1>4. /\ valid' \in [Obj -> BOOLEAN] /\ Valid' = Valid \ {o} /\ Valid' \in SUBSET Obj
      /\ wait_id' \in [Slot -> Obj \cup {NULL}]
  BY <1>1, <1>2, <1>3 DEF ObjTypeOK, Valid
<1>5. ASSUME NEW a \in Valid, a # o
      PROVE  /\ Linked(Now', a)
             /\ \A t \in Slot : wait_id[t] = a => AheadOn(Now', t) = AheadOn(Now, t)
  <2>1. Linked(Now, a) /\ a \in Obj /\ a # NULL
    BY <1>0, <1>1 DEF Good
  <2> DEFINE M == Now'
  <2>2. /\ \A n \in WaitersOn(Now, a) \cup {a} : M.next[n] = Now.next[n]
        /\ \A n \in WaitersOn(Now, a) : M.prev[n] = Now.prev[n]
        /\ \A t \in Slot : M.wait_id[t] = a <=> Now.wait_id[t] = a
    BY <1>1, <1>2, <1>3, <1>5, <2>1
  <2> HIDE DEF M
  <2>3. /\ Linked(M, a)
        /\ \A t \in Slot : Now.wait_id[t] = a => AheadOn(M, t) = AheadOn(Now, t)
    BY <2>1, <2>2, LinkedSame
  <2>4. QED
    BY <1>1, <2>3 DEF M
<1>6. Good(Now', Valid')
  <2>1. ListTypeOK(Now')
    BY <1>1, <1>2, <1>4 DEF ListTypeOK, ObjTypeOK
  <2>2. \A t \in Slot : (Now').wait_id[t] # NULL => (Now').wait_id[t] \in Valid'
    BY <1>1, <1>3, <1>4 DEF Good
  <2>3. QED
    BY <1>4, <1>5, <2>1, <2>2 DEF Good
<1>7. ASSUME NEW t \in Slot
      PROVE  Ahead(t)' = IF wait_id[t] = o THEN {} ELSE Ahead(t) \ WaitersOn(Now, o)
  <2>1. AheadOn(Now', t) = IF wait_id[t] = o THEN {} ELSE AheadOn(Now, t)
    <3>1. CASE wait_id'[t] = NULL
      BY <1>0, <1>1, <1>3, <3>1 DEF AheadOn
    <3>2. CASE wait_id'[t] # NULL
      <4>1. wait_id[t] \in Valid /\ wait_id[t] # o
        BY <1>1, <1>3, <3>2 DEF Good
      <4>2. QED
        BY <1>5, <4>1
    <3>3. QED
      BY <3>1, <3>2
  <2>2. wait_id[t] # o => AheadOn(Now, t) \ WaitersOn(Now, o) = AheadOn(Now, t)
    <3>1. \A u \in AheadOn(Now, t) : Now.wait_id[u] = Now.wait_id[t]
      BY <1>1, AheadWaits
    <3>2. QED
      BY <1>1, <3>1 DEF WaitersOn
  <2>3. QED
    BY <2>1, <2>2, AheadNow, AheadThen
<1>8. K!Waiters(o) = WaitersOn(Now, o)
  BY <1>1 DEF K!Waiters, WaitersOn, K!Slot, Slot
<1>9. K!Unlink(K!Waiters(o)) /\ UNCHANGED K!taskVars
  <2> DEFINE W == K!Waiters(o)
  <2>1. \A t \in Slot : t \in W <=> wait_id[t] = o
    BY SameTask DEF K!Waiters
  <2> HIDE DEF W
  <2>2. wait_id' = [t \in Slot |-> IF t \in W THEN NULL ELSE wait_id[t]]
    BY <1>3, <1>4, <2>1
  <2>3. [t \in Slot |-> Ahead(t)]'
           = [t \in Slot |-> IF t \in W THEN {}
                             ELSE [u \in Slot |-> Ahead(u)][t] \ W]
    BY <1>7, <1>8, <2>1 DEF W
  <2>4. QED
    BY <1>2, <2>2, <2>3 DEF K!Unlink, K!Slot, Slot, W, K!taskVars, taskVars
<1>10. CASE K!Waiters(o) # {}
  BY <1>4, <1>6, <1>9, <1>10 DEF K!Delete
<1>11. CASE K!Waiters(o) = {}
  <2>1. \A t \in Slot : wait_id[t] # o
    BY <1>11, SameTask DEF K!Waiters
  <2>2. wait_id' = wait_id
    BY <1>1, <1>3, <1>4, <2>1 DEF ObjTypeOK
  <2>3. UNCHANGED <<taskVars, ptrVars>>
    BY <1>2, <2>2 DEF ptrVars
  <2>4. QED
    BY <1>4, <1>6, <2>3, QuietStep
<1>12. QED
  BY <1>10, <1>11

-----------------------------------------------------------------------------
(* What the two modules that extend Objects ask for. *)

\* What ObjClosed asks for besides the lists.
LEMMA CloseObj ==
    ASSUME ObjInv, K!Next \/ UNCHANGED K!vars, Good(Now', Valid'),
           valid' \in [Obj -> BOOLEAN], masked' \in BOOLEAN
    PROVE  ObjInv' /\ [K!Next]_(K!vars)
<1>1. [K!Next]_(K!vars)
  OBVIOUS
<1>2. QED
  BY <1>1, ObjClosed

\* No step but a block makes a task wait.
LEMMA TickWaits ==
    ASSUME ObjInv, task_tickdo, NEW t \in Slot
    PROVE  wait_id'[t] \in {wait_id[t], NULL}
BY TickStep, SameTask DEF K!Tick, K!Unlink

LEMMA WakeWaits ==
    ASSUME ObjInv, NEW o \in Obj, WakeHead(o), NEW t \in Slot
    PROVE  wait_id'[t] \in {wait_id[t], NULL}
BY DEF WakeHead, ptrVars, ObjInv, ObjTypeOK

LEMMA DeleteWaits ==
    ASSUME Delete, NEW t \in Slot
    PROVE  wait_id'[t] \in {wait_id[t], NULL}
BY DEF Delete

\* A task waits for s exactly if the list of s is not empty.
LEMMA SomeWaiter ==
    ASSUME ObjInv, NEW s \in Valid
    PROVE  next[s] # NULL <=> \E t \in Slot : wait_id[t] = s
<1>1. /\ s \in Obj /\ Linked(Now, s) /\ Now.next = next /\ Now.wait_id = wait_id
  BY DEF ObjInv, ObjInv, Good, Valid, Now
<1>2. next[s] # NULL => \E t \in Slot : wait_id[t] = s
  BY <1>1, HeadFacts
<1>3. ASSUME NEW t \in Slot, wait_id[t] = s
      PROVE  next[s] # NULL
  <2>1. Now.wait_id[t] = s
    BY <1>1, <1>3
  <2>2. Now.next[s] # NULL
    BY <1>1, <2>1, Neighbours
  <2>3. QED
    BY <1>1, <2>2
<1>4. QED
  BY <1>2, <1>3

\* Waiters wait for semaphores that exist.
LEMMA WaitedExists ==
    ASSUME ObjInv, NEW t \in Slot, wait_id[t] # NULL
    PROVE  wait_id[t] \in Valid
BY DEF ObjInv, ObjInv, Good, Now

LEMMA SameProofs ==
    /\ KP!Slot = Slot /\ KP!PEND = PEND
    /\ KP!MayBlock <=> MayBlock
    /\ \A d : BlockCur(d) => KP!BlockCur(d)
    /\ K!Tick => KP!Tick
BY DEF BlockCur, KP!BlockCur, task_sched, KP!task_sched, task_needsched,
       KP!task_needsched, task_getnextrun, KP!task_getnextrun, Candidates,
       KP!Candidates, Dist, KP!Dist, Live, KP!Live, Slot, KP!Slot, Idle, KP!Idle,
       READY, KP!READY, RUN, KP!RUN, PEND, KP!PEND, UNLOCK, KP!UNLOCK,
       MayBlock, KP!MayBlock, K!Tick, KP!Tick, K!TickTasks, KP!TickTasks,
       K!task_nextrun, KP!task_nextrun, K!task_needsched, K!task_getnextrun,
       K!Candidates, K!Dist, K!Live, K!Slot, K!READY, K!RUN, K!UNLOCK, K!Unlink,
       KP!Unlink, K!Due, KP!Due, K!Sleeping, KP!Sleeping

\* Who waits after a step: the caller that blocks, and some of those who did.
LEMMA BlockedPends ==
    ASSUME ObjInv, MayBlock, NEW d \in Delay, BlockCur(d), NEW t \in Slot
    PROVE  task_state'[t] = PEND <=> task_state[t] = PEND \/ t = task_cur
<1>1. KP!Inv /\ KP!MayBlock /\ KP!BlockCur(d)
  BY SameProofs DEF ObjInv
<1>2. QED
  BY <1>1, KP!BlockPends, SameProofs, TaskAssumption, NodeFacts

LEMMA TickedPends ==
    ASSUME ObjInv, task_tickdo, NEW t \in Slot
    PROVE  task_state'[t] = PEND => task_state[t] = PEND
<1>1. KP!Inv /\ KP!Tick
  BY TickStep, SameProofs DEF ObjInv
<1>2. QED
  BY <1>1, KP!TickPends, SameProofs, TaskAssumption, NodeFacts

LEMMA ObjStart == ObjInit => ObjInv /\ K!Init
<1> SUFFICES ASSUME ObjInit
             PROVE  ObjInv /\ K!Init
  OBVIOUS
<1>1. Valid = {} /\ wait_id = [t \in Slot |-> NULL]
      /\ next = [n \in Node |-> NULL] /\ prev = [n \in Node |-> NULL]
  BY DEF ObjInit, Valid
<1>2. ListTypeOK(Now)
  BY <1>1 DEF ListTypeOK, Now
<1>3. Good(Now, Valid)
  BY <1>1, <1>2 DEF Good, Now
<1>4. K!Init
  <2>1. \A t \in Slot : Ahead(t) = {}
    BY <1>1 DEF Ahead
  <2>2. [t \in Slot |-> Ahead(t)] = [t \in Slot |-> {}]
    BY <2>1
  <2>3. K!TaskInit
    BY DEF ObjInit, TaskInit, K!TaskInit, Slot, K!Slot, Idle, K!Idle, READY, K!READY,
           UNUSED, K!UNUSED, UNLOCK, K!UNLOCK
  <2>4. QED
    BY <1>1, <2>2, <2>3, SameTask DEF K!Init
<1>5. KP!Inv
  BY <1>4, SameInit, KP!InitInv, TaskAssumption, NodeFacts
<1>6. ObjTypeOK
  <2>1. TaskTypeOK
    BY <1>5, TaskFacts
  <2>2. valid \in [Obj -> BOOLEAN] /\ masked \in BOOLEAN
    BY DEF ObjInit
  <2>3. QED
    BY <1>2, <2>1, <2>2 DEF ObjTypeOK, ListTypeOK, Now
<1>7. QED
  BY <1>3, <1>4, <1>5, <1>6 DEF ObjInv

\* What Kernel promises holds of whatever implements it.
LEMMA KernelPromises ==
    K!Spec => K!NoOvertaking /\ K!LockKeepsProcessor /\ K!NoQueueJumping
<1>1. K!Init => KP!Init
  BY SameInit
<1>2. [K!Next]_(K!vars) => [KP!Next]_(KP!vars)
  <2>1. UNCHANGED K!vars => UNCHANGED KP!vars
    BY DEF K!vars, KP!vars, K!taskVars, KP!taskVars, K!listVars, KP!listVars
  <2>2. QED
    BY <2>1, SameNext
<1>3. KP!Spec => KP!NoOvertaking /\ KP!LockKeepsProcessor /\ KP!NoQueueJumping
  BY KP!RoundRobinFair, KP!LockHolds, KP!FirstComeFirstServed, TaskAssumption, NodeFacts
<1>4. K!Spec => KP!Spec
  BY <1>1, <1>2, PTL DEF K!Spec, KP!Spec
<1>5. KP!NoOvertaking => K!NoOvertaking
    BY PTL DEF K!vars, KP!vars, K!taskVars, KP!taskVars, K!listVars, KP!listVars,
           K!Live, KP!Live, K!READY, KP!READY, K!Dist, KP!Dist, KP!NoOvertaking, K!NoOvertaking
<1>6. KP!LockKeepsProcessor => K!LockKeepsProcessor
    BY PTL DEF K!vars, KP!vars, K!taskVars, KP!taskVars, K!listVars, KP!listVars,
           K!LOCK, KP!LOCK, KP!LockKeepsProcessor, K!LockKeepsProcessor
<1>7. KP!NoQueueJumping => K!NoQueueJumping
    BY PTL DEF K!vars, KP!vars, K!taskVars, KP!taskVars, K!listVars, KP!listVars,
           K!Slot, KP!Slot, KP!NoQueueJumping, K!NoQueueJumping
<1>9. QED
  BY <1>3, <1>4, <1>5, <1>6, <1>7

-----------------------------------------------------------------------------
(* Semaphores. *)

(* The calls that tasks are in the middle of. *)

\* A task is in the middle of one call, on an object that still exists and
\* on no list.
CallersReady ==
    \A t \in Slot :
        /\ call[t] # NoCall => wait_id[t] = NULL
        /\ call[t].op \in {"take", "give"} => valid[call[t].obj]

\* What EnterTake found of MayBlock is still true when sem_take blocks.
TakersMayBlock ==
    \A t \in Slot :
        call[t].op = "take" =>
            /\ t # Idle
            /\ t = task_cur => task_sched_sign = UNLOCK

\* A delete keeps the processor to the end, and its object to itself.
DeletersAlone ==
    \A t \in Slot :
        call[t].op = "delete" =>
            /\ t = task_cur
            /\ task_sched_sign = LOCK
            /\ valid[call[t].obj]
            /\ Stale(Now, call[t].obj, call[t].list)
            /\ \A u \in Slot \ {t} : call[u] # NoCall => call[u].obj # call[t].obj

CallInv ==
    /\ call \in [Slot -> Call]
    /\ CallersReady
    /\ TakersMayBlock
    /\ DeletersAlone

SemListInv == ObjInv /\ CallInv

\* The records of Call.
LEMMA CallKinds ==
    ASSUME NEW c \in Call
    PROVE  /\ c = NoCall <=> c.op = "none"
           /\ c.op = "take" => c.obj \in Obj /\ c.delay \in Delay
           /\ c.op = "give" => c.obj \in Obj
           /\ c.op = "delete" => c.obj \in Obj /\ c.list \in Slot \cup {NULL}
           /\ c.op \in {"none", "take", "give", "delete"}
BY DEF Call, NoCall

\* A switch needs an unlocked scheduler.
LEMMA SwitchUnlocked ==
    /\ task_tickdo => /\ task_sched_sign = LOCK => task_cur' = task_cur
                      /\ task_sched_sign' = task_sched_sign
    /\ \A d : BlockCur(d) => task_sched_sign' = task_sched_sign
BY DEF task_tickdo, TickTasks, task_nextrun, task_needsched, LOCK, UNLOCK, BlockCur

\* While the running task is in no call, no delete is under way.
LEMMA NoDelete ==
    ASSUME CallInv, call[task_cur].op # "delete"
    PROVE  \A t \in Slot : call[t].op # "delete"
BY DEF CallInv, DeletersAlone

LEMMA SchedCallStep ==
    ASSUME SemListInv, SchedCall
    PROVE  SemListInv' /\ [K!Next]_(K!vars)
<1>1. /\ ObjInv /\ CallInv /\ CanCall /\ masked' = FALSE
      /\ UNCHANGED <<valid, ptrVars, call>>
  BY DEF SemListInv, SchedCall, TaskCall
<1>2. ObjInv' /\ [K!Next]_(K!vars)
  <2>1. Good(Now', Valid) /\ valid' = valid /\ K!Next
    BY <1>1, SchedStep
  <2>2. Valid' = Valid /\ valid' \in [Obj -> BOOLEAN] /\ masked' \in BOOLEAN
    BY <1>1 DEF Valid, ObjInv, ObjTypeOK
  <2>3. QED
    BY <1>1, <2>1, <2>2, CloseObj
<1>3. \A t \in Slot : call[t].op # "delete"
  BY <1>1, NoDelete DEF CanCall, NoCall
<1>4. call[task_cur].op # "take"
  BY <1>1 DEF CanCall, NoCall
<1>5. TakersMayBlock'
  <2>1. CASE \E d \in Delay : MayBlock /\ task_delay(d)
    <3>1. task_sched_sign' = UNLOCK
      BY <2>1, SwitchUnlocked DEF MayBlock, task_delay
    <3>2. QED
      BY <1>1, <3>1 DEF CallInv, TakersMayBlock
  <2>2. CASE task_cur' = task_cur
    BY <1>1, <1>4, <2>2 DEF CallInv, TakersMayBlock
  <2>3. (\E d \in Delay : MayBlock /\ task_delay(d)) \/ task_cur' = task_cur
    BY DEF SchedCall, TaskCall, task_create, task_locksched, task_unlocksched, SetSchedSign
  <2>4. QED
    BY <2>1, <2>2, <2>3
<1>6. CallInv'
  BY <1>1, <1>3, <1>5 DEF CallInv, CallersReady, DeletersAlone, ptrVars
<1>7. QED
  BY <1>2, <1>6 DEF SemListInv

LEMMA SemCreateStep ==
    ASSUME SemListInv, Create
    PROVE  SemListInv' /\ [K!Next]_(K!vars)
<1>1. /\ ObjInv /\ CallInv /\ CanCall /\ masked' \in BOOLEAN
      /\ UNCHANGED <<taskVars, wait_id, call>>
      /\ \A o \in Obj : valid[o] => valid'[o]
  BY DEF SemListInv, Create, ObjInv, ObjTypeOK
<1>2. ObjInv' /\ [K!Next]_(K!vars)
  BY <1>1, CreateStep, CloseObj
<1>3. \A t \in Slot : call[t].op # "delete"
  BY <1>1, NoDelete DEF CanCall, NoCall
<1>4. CallersReady'
  BY <1>1, CallKinds DEF CallInv, CallersReady
<1>5. CallInv'
  BY <1>1, <1>3, <1>4 DEF CallInv, TakersMayBlock, DeletersAlone, taskVars
<1>6. QED
  BY <1>2, <1>5 DEF SemListInv

LEMMA EnterStep ==
    ASSUME SemListInv, NEW c \in Call, Enter(c),
           \/ c.op = "take" /\ MayBlock
           \/ c.op = "give"
           \/ c.op = "delete" /\ EnterDelete(c.obj)
    PROVE  SemListInv' /\ [K!Next]_(K!vars)
<1>1. /\ ObjInv /\ CallInv /\ CanCall /\ valid[c.obj]
      /\ call' = [call EXCEPT ![task_cur] = c]
      /\ UNCHANGED <<taskVars, valid, ptrVars, masked>>
  BY DEF SemListInv, Enter
<1>2. Now' = Now /\ UNCHANGED <<taskVars, ptrVars>>
  BY <1>1 DEF Now, ptrVars
<1>3. ObjInv' /\ [K!Next]_(K!vars)
  <2>1. Good(Now', Valid) /\ UNCHANGED K!vars
    BY <1>1, <1>2, QuietStep
  <2>2. Valid' = Valid /\ valid' \in [Obj -> BOOLEAN] /\ masked' \in BOOLEAN
    BY <1>1 DEF Valid, ObjInv, ObjTypeOK
  <2>3. QED
    BY <1>1, <2>1, <2>2, CloseObj
<1>4. \A t \in Slot : call[t].op # "delete"
  BY <1>1, NoDelete DEF CanCall, NoCall
<1>5. /\ task_cur \in Slot /\ wait_id[task_cur] = NULL /\ call \in [Slot -> Call]
      /\ task_cur' = task_cur /\ task_sched_sign' = task_sched_sign
      /\ valid' = valid /\ wait_id' = wait_id
      /\ \A t \in Slot : call'[t] = IF t = task_cur THEN c ELSE call[t]
  BY <1>1, TaskFacts DEF ObjInv, CallInv, taskVars, ptrVars
<1>6. call' \in [Slot -> Call]
  BY <1>1, <1>5
<1>7. CallersReady'
  BY <1>1, <1>5 DEF CallInv, CallersReady
<1>8. TakersMayBlock'
  <2>1. ASSUME NEW t \in Slot, call'[t].op = "take"
        PROVE  t # Idle /\ (t = task_cur => task_sched_sign = UNLOCK)
    <3>1. CASE t = task_cur
      BY <1>5, <2>1, <3>1 DEF MayBlock
    <3>2. CASE t # task_cur
      BY <1>1, <1>5, <2>1, <3>2 DEF CallInv, TakersMayBlock
    <3>3. QED
      BY <3>1, <3>2
  <2>2. QED
    BY <1>5, <2>1 DEF TakersMayBlock
<1>9. DeletersAlone'
  <2>1. ASSUME NEW t \in Slot, call'[t].op = "delete"
        PROVE  /\ t = task_cur /\ task_sched_sign = LOCK /\ valid[call'[t].obj]
               /\ Stale(Now, call'[t].obj, call'[t].list)
               /\ \A u \in Slot \ {t} : call'[u] # NoCall => call'[u].obj # call'[t].obj
    <3>1. t = task_cur /\ call'[t] = c /\ c.op = "delete"
      BY <1>4, <1>5, <2>1
    <3>2. /\ task_sched_sign = LOCK
          /\ ~\E u \in Slot : call[u] # NoCall /\ call[u].obj = c.obj /\ wait_id[u] # c.obj
          /\ Enter([op |-> "delete", obj |-> c.obj, list |-> next[c.obj]])
      BY <3>1 DEF EnterDelete
    <3>3. c.obj \in Obj
      BY <3>1, CallKinds
    <3>4. c.list = next[c.obj]
      <4>1. call'[task_cur] = [op |-> "delete", obj |-> c.obj, list |-> next[c.obj]]
        BY <1>5, <3>2 DEF Enter
      <4>2. QED
        BY <3>1, <4>1
    <3>5. Stale(Now, c.obj, c.list)
      <4>1. Now.next[c.obj] = c.list /\ Now.next[c.obj] \in Slot \cup {NULL}
        BY <1>1, <3>3, <3>4, NodeFacts DEF ObjInv, ObjTypeOK, Now
      <4> DEFINE L == Now
      <4>2. L.next[c.obj] = c.list /\ L.next[c.obj] \in Slot \cup {NULL}
        BY <4>1
      <4> HIDE DEF L
      <4>3. Stale(L, c.obj, L.next[c.obj])
        BY <4>2, StaleStart
      <4>4. QED
        BY <4>2, <4>3 DEF L
    <3>6. \A u \in Slot \ {t} : call'[u] # NoCall => call'[u].obj # c.obj
      <4>1. ASSUME NEW u \in Slot \ {t}, call[u] # NoCall, call[u].obj = c.obj
            PROVE  FALSE
        <5>1. wait_id[u] = NULL
          BY <1>1, <4>1 DEF CallInv, CallersReady
        <5>2. QED
          BY <3>2, <3>3, <4>1, <5>1, NodeFacts
      <4>2. QED
        BY <1>5, <3>1, <4>1
    <3>7. QED
      BY <1>1, <3>1, <3>2, <3>5, <3>6
  <2>2. QED
    BY <1>2, <1>5, <2>1 DEF DeletersAlone
<1>10. QED
  BY <1>3, <1>6, <1>7, <1>8, <1>9 DEF SemListInv, CallInv

\* The end of a call that takes a task off a list, or none.
LEMMA FinishCalls ==
    ASSUME SemListInv, NEW op \in {"take", "give"}, Finish(op),
           \A t \in Slot : wait_id'[t] \in {wait_id[t], NULL} \/ t = task_cur,
           task_cur' = task_cur \/ task_sched_sign = UNLOCK,
           task_sched_sign' = task_sched_sign, valid' = valid
    PROVE  CallInv'
<1>1. /\ ObjInv /\ CallInv /\ call[task_cur].op = op
      /\ task_cur \in Slot /\ call \in [Slot -> Call]
      /\ call' = [call EXCEPT ![task_cur] = NoCall]
  BY TaskFacts DEF SemListInv, ObjInv, CallInv, Finish
<1>2. \A t \in Slot : call[t].op # "delete"
  BY <1>1, NoDelete
<1>3. \A t \in Slot : call'[t] = IF t = task_cur THEN NoCall ELSE call[t]
  BY <1>1
<1>4. call' \in [Slot -> Call]
  BY <1>1 DEF Call
<1>5. NoCall.op = "none"
  BY DEF NoCall
<1>6. CallersReady'
  BY <1>1, <1>3, <1>5 DEF CallInv, CallersReady
<1>7. TakersMayBlock'
  BY <1>1, <1>3, <1>5 DEF CallInv, TakersMayBlock
<1>8. DeletersAlone'
  BY <1>2, <1>3, <1>5 DEF DeletersAlone
<1>9. QED
  BY <1>4, <1>6, <1>7, <1>8 DEF CallInv

LEMMA TakeStep ==
    ASSUME SemListInv, sem_take
    PROVE  SemListInv' /\ [K!Next]_(K!vars)
<1> DEFINE c == call[task_cur]
<1>1. /\ ObjInv /\ CallInv /\ Finish("take") /\ c.op = "take" /\ c \in Call
      /\ masked' = FALSE /\ valid' = valid /\ task_cur \in Slot
      /\ TakeToken(c.obj) \/ TakeBlock(c.obj, c.delay)
  BY TaskFacts DEF SemListInv, sem_take, Finish, CallInv, ObjInv
<1>2. /\ c.obj \in Obj /\ c.delay \in Delay /\ c.obj \in Valid /\ MayBlock
      /\ Valid' = Valid /\ valid' \in [Obj -> BOOLEAN]
  <2>1. c.obj \in Obj /\ c.delay \in Delay
    BY <1>1, CallKinds
  <2>2. QED
    BY <1>1, <2>1 DEF CallInv, CallersReady, TakersMayBlock, Valid, MayBlock,
                      ObjInv, ObjTypeOK
<1> HIDE DEF c
<1>3. CASE TakeToken(c.obj)
  <2>1. UNCHANGED <<taskVars, ptrVars>>
    BY <1>3 DEF TakeToken
  <2>2. ObjInv' /\ [K!Next]_(K!vars)
    BY <1>1, <1>2, <2>1, QuietStep, CloseObj
  <2>3. CallInv'
    BY <1>1, <2>1, FinishCalls DEF taskVars, ptrVars
  <2>4. QED
    BY <2>2, <2>3 DEF SemListInv
<1>4. CASE TakeBlock(c.obj, c.delay)
  <2>1. Block(c.obj, c.delay)
    BY <1>4 DEF TakeBlock
  <2>2. Good(Now', Valid) /\ K!Wait(c.obj, c.delay)
    BY <1>1, <1>2, <2>1, BlockStep
  <2>3. ObjInv' /\ [K!Next]_(K!vars)
    BY <1>1, <1>2, <2>2, CloseObj DEF K!Next
  <2>4. CallInv'
    <3>1. \A t \in Slot : wait_id'[t] \in {wait_id[t], NULL} \/ t = task_cur
      BY <1>1, <2>1 DEF Block, ObjInv, ObjTypeOK
    <3>2. task_sched_sign' = task_sched_sign /\ task_sched_sign = UNLOCK
      BY <1>2, <2>1, SwitchUnlocked DEF Block, MayBlock
    <3>3. QED
      BY <1>1, <3>1, <3>2, FinishCalls
  <2>5. QED
    BY <2>3, <2>4 DEF SemListInv
<1>5. QED
  BY <1>1, <1>3, <1>4

LEMMA GiveStep ==
    ASSUME SemListInv, sem_give
    PROVE  SemListInv' /\ [K!Next]_(K!vars)
<1> DEFINE s == call[task_cur].obj
<1>1. /\ ObjInv /\ CallInv /\ Finish("give") /\ call[task_cur].op = "give"
      /\ call[task_cur] \in Call
      /\ masked' = FALSE /\ valid' = valid /\ task_cur \in Slot /\ WakeHead(s)
  BY TaskFacts DEF SemListInv, sem_give, Finish, CallInv, ObjInv
<1>2. s \in Obj /\ s \in Valid /\ Valid' = Valid /\ valid' \in [Obj -> BOOLEAN]
  <2>1. s \in Obj
    BY <1>1, CallKinds
  <2>2. QED
    BY <1>1, <2>1 DEF CallInv, CallersReady, Valid, ObjInv, ObjTypeOK
<1> HIDE DEF s
<1>3. ObjInv' /\ [K!Next]_(K!vars)
  <2>1. Good(Now', Valid) /\ (K!Signal(s) \/ UNCHANGED K!vars)
    BY <1>1, <1>2, WakeStep
  <2>2. K!Signal(s) => K!Next
    BY <1>2 DEF K!Next
  <2>3. QED
    BY <1>1, <1>2, <2>1, <2>2, CloseObj
<1>4. CallInv'
  <2>1. \A t \in Slot : wait_id'[t] \in {wait_id[t], NULL}
    BY <1>1, <1>2, WakeWaits
  <2>2. task_cur' = task_cur /\ task_sched_sign' = task_sched_sign
    BY <1>1 DEF WakeHead, ReadyTask, taskVars
  <2>3. QED
    BY <1>1, <2>1, <2>2, FinishCalls
<1>5. QED
  BY <1>3, <1>4 DEF SemListInv

LEMMA DeleteCallStep ==
    ASSUME SemListInv, Delete
    PROVE  SemListInv' /\ [K!Next]_(K!vars)
<1> DEFINE c == call[task_cur]
           o == c.obj
<1>1. /\ ObjInv /\ CallInv /\ c.op = "delete" /\ c \in Call /\ masked' = FALSE
      /\ task_cur \in Slot /\ UNCHANGED taskVars
      /\ call' = [call EXCEPT ![task_cur] = NoCall]
      /\ valid' = [valid EXCEPT ![o] = FALSE]
  BY TaskFacts DEF SemListInv, Delete, Finish, CallInv, ObjInv
<1>2. o \in Obj /\ c.list \in Slot \cup {NULL}
  BY <1>1, CallKinds
<1>3. /\ o \in Valid /\ Stale(Now, o, c.list)
      /\ \A u \in Slot \ {task_cur} : call[u] # NoCall => call[u].obj # o
  BY <1>1, <1>2 DEF CallInv, DeletersAlone, Valid
<1>4. ObjInv' /\ [K!Next]_(K!vars)
  <2>1. /\ Good(Now', Valid') /\ valid' \in [Obj -> BOOLEAN]
        /\ K!Delete(o) \/ UNCHANGED K!vars
    <3> DEFINE list == c.list
    <3>1. list \in Slot \cup {NULL} /\ call[task_cur].obj = o
          /\ call[task_cur].list = list /\ Stale(Now, o, list)
      BY <1>2, <1>3
    <3> HIDE DEF c, o, list
    <3>2. QED
      BY <1>1, <1>3, <3>1, DeleteStep
  <2>2. K!Delete(o) => K!Next
    BY <1>2 DEF K!Next
  <2>3. QED
    BY <1>1, <2>1, <2>2, CloseObj
<1>5. /\ call \in [Slot -> Call]
      /\ \A t \in Slot : call'[t] = IF t = task_cur THEN NoCall ELSE call[t]
      /\ \A t \in Slot : wait_id'[t] \in {wait_id[t], NULL}
      /\ \A t \in Slot : call[t].op = "delete" => t = task_cur
      /\ NoCall.op = "none"
  BY <1>1, DeleteWaits DEF CallInv, DeletersAlone, NoCall
<1>6. call' \in [Slot -> Call]
  BY <1>1, <1>5 DEF Call
<1>7. CallersReady'
  <2>1. ASSUME NEW t \in Slot, call'[t] # NoCall
        PROVE  wait_id'[t] = NULL
    BY <1>1, <1>5, <2>1 DEF CallInv, CallersReady
  <2>2. ASSUME NEW t \in Slot, call'[t].op \in {"take", "give"}
        PROVE  valid'[call'[t].obj]
    <3>1. t # task_cur /\ call'[t] = call[t] /\ call[t] # NoCall
      BY <1>5, <2>2
    <3>2. call[t].obj # o /\ call[t].obj \in Obj /\ valid[call[t].obj]
      BY <1>1, <1>3, <1>5, <2>2, <3>1, CallKinds DEF CallInv, CallersReady
    <3>3. QED
      BY <1>1, <3>1, <3>2 DEF ObjInv, ObjTypeOK
  <2>3. QED
    BY <2>1, <2>2 DEF CallersReady
<1>8. TakersMayBlock'
  BY <1>1, <1>5 DEF CallInv, TakersMayBlock, taskVars
<1>9. DeletersAlone'
  BY <1>5 DEF DeletersAlone
<1>10. QED
  BY <1>4, <1>6, <1>7, <1>8, <1>9 DEF SemListInv, CallInv

LEMMA TickCallStep ==
    ASSUME SemListInv, task_tickdo
    PROVE  SemListInv' /\ [K!Next]_(K!vars)
<1>1. /\ ObjInv /\ CallInv /\ UNCHANGED <<valid, call, masked>>
      /\ task_sched_sign' = task_sched_sign
      /\ task_sched_sign = LOCK => task_cur' = task_cur
  BY SwitchUnlocked DEF SemListInv, task_tickdo
<1>2. ObjInv' /\ [K!Next]_(K!vars)
  <2>1. Good(Now', Valid) /\ K!Tick
    BY <1>1, TickStep
  <2>2. Valid' = Valid /\ valid' \in [Obj -> BOOLEAN] /\ masked' \in BOOLEAN
    BY <1>1 DEF Valid, ObjInv, ObjTypeOK
  <2>3. QED
    BY <1>1, <2>1, <2>2, CloseObj DEF K!Next
<1>3. CallersReady'
  BY <1>1, TickWaits DEF CallInv, CallersReady
<1>4. TakersMayBlock'
  BY <1>1 DEF CallInv, TakersMayBlock, ObjInv, ObjTypeOK, TaskTypeOK
<1>5. DeletersAlone'
  <2>1. ASSUME NEW t \in Slot, call[t].op = "delete"
        PROVE  /\ t = task_cur' /\ task_sched_sign = LOCK /\ valid[call[t].obj]
               /\ Stale(Now', call[t].obj, call[t].list)
               /\ \A u \in Slot \ {t} : call[u] # NoCall => call[u].obj # call[t].obj
    <3>1. /\ t = task_cur /\ task_sched_sign = LOCK /\ valid[call[t].obj]
          /\ Stale(Now, call[t].obj, call[t].list)
          /\ \A u \in Slot \ {t} : call[u] # NoCall => call[u].obj # call[t].obj
      BY <1>1, <2>1 DEF CallInv, DeletersAlone
    <3>2. call[t].obj \in Valid
      BY <1>1, <2>1, <3>1, CallKinds DEF CallInv, Valid
    <3>3. Stale(Now', call[t].obj, call[t].list)
      BY <1>1, <3>1, <3>2, StaleTick
    <3>4. QED
      BY <1>1, <3>1, <3>3
  <2>2. QED
    BY <1>1, <2>1 DEF DeletersAlone
<1>6. QED
  BY <1>1, <1>2, <1>3, <1>4, <1>5 DEF SemListInv, CallInv

LEMMA SemStart == Init => SemListInv /\ K!Init
<1> SUFFICES ASSUME Init
             PROVE  SemListInv /\ K!Init
  OBVIOUS
<1>1. ObjInv /\ K!Init
  BY ObjStart DEF Init
<1>2. call = [t \in Slot |-> NoCall] /\ NoCall.op = "none"
  BY DEF Init, ObjInit, NoCall
<1>3. CallInv
  BY <1>2 DEF CallInv, Call, CallersReady, TakersMayBlock, DeletersAlone
<1>4. QED
  BY <1>1, <1>3 DEF SemListInv

LEMMA SemStep == SemListInv /\ [Next]_vars => SemListInv' /\ [K!Next]_(K!vars)
<1> SUFFICES ASSUME SemListInv, [Next]_vars
             PROVE  SemListInv' /\ [K!Next]_(K!vars)
  OBVIOUS
<1>1. CASE SchedCall
  BY <1>1, SchedCallStep
<1>2. CASE \E z \in Sizes : sem_create(z[1], z[2])
  BY <1>2, SemCreateStep DEF sem_create
<1>3. ASSUME NEW s \in Obj, NEW d \in Delay, EnterTake(s, d)
      PROVE  SemListInv' /\ [K!Next]_(K!vars)
  <2> DEFINE c == [op |-> "take", obj |-> s, delay |-> d]
  <2>1. c \in Call /\ c.op = "take" /\ MayBlock /\ Enter(c)
    BY <1>3 DEF EnterTake, Call
  <2> HIDE DEF c
  <2>2. QED
    BY <2>1, EnterStep
<1>4. ASSUME NEW s \in Obj, EnterGive(s)
      PROVE  SemListInv' /\ [K!Next]_(K!vars)
  <2> DEFINE c == [op |-> "give", obj |-> s]
  <2>1. c \in Call /\ c.op = "give" /\ Enter(c)
    BY <1>4 DEF EnterGive, Call
  <2> HIDE DEF c
  <2>2. QED
    BY <2>1, EnterStep
<1>5. ASSUME NEW s \in Obj, EnterDelete(s)
      PROVE  SemListInv' /\ [K!Next]_(K!vars)
  <2> DEFINE c == [op |-> "delete", obj |-> s, list |-> next[s]]
  <2>1. next[s] \in Slot \cup {NULL}
    BY NodeFacts DEF SemListInv, ObjInv, ObjTypeOK
  <2>2. c \in Call /\ c.op = "delete" /\ c.obj = s /\ Enter(c)
    BY <1>5, <2>1 DEF EnterDelete, Call
  <2> HIDE DEF c
  <2>3. QED
    BY <1>5, <2>2, EnterStep
<1>6. CASE sem_take
  BY <1>6, TakeStep
<1>7. CASE sem_give
  BY <1>7, GiveStep
<1>8. CASE Delete
  BY <1>8, DeleteCallStep
<1>9. CASE task_tickdo
  BY <1>9, TickCallStep
<1>10. CASE UNCHANGED vars
  <2>1. UNCHANGED <<taskVars, ptrVars, valid, call, masked>>
    BY <1>10 DEF vars, objVars
  <2>2. ObjInv /\ CallInv
    BY DEF SemListInv
  <2>3. Good(Now', Valid) /\ UNCHANGED K!vars /\ Valid' = Valid /\ Now' = Now
    BY <2>1, <2>2, QuietStep DEF Valid, Now, ptrVars
  <2>4. ObjInv' /\ [K!Next]_(K!vars)
    BY <2>1, <2>2, <2>3, CloseObj DEF ObjInv, ObjTypeOK
  <2>5. CallInv'
    BY <2>1, <2>2, <2>3 DEF CallInv, CallersReady, TakersMayBlock, DeletersAlone,
                            taskVars, ptrVars
  <2>6. QED
    BY <2>4, <2>5 DEF SemListInv
<1>11. QED
  BY <1>1, <1>2, <1>3, <1>4, <1>5, <1>6, <1>7, <1>8, <1>9, <1>10 DEF Next

LEMMA SemListInvariance == Spec => []SemListInv
<1>1. SemListInv /\ [Next]_vars => SemListInv'
  BY SemStep
<1>2. QED
  BY <1>1, SemStart, PTL DEF Spec

(* The list of every semaphore that exists holds exactly the tasks whose    *)
(* sem_id it is, linked both ways, with the calls, clock interrupts and     *)
(* deletes of any number of tasks interleaved.                              *)
THEOREM SemListsLinked == Spec => []ListsLinked
<1>1. SemListInv => ListsLinked
  BY InvLists DEF SemListInv
<1>2. QED
  BY <1>1, SemListInvariance, PTL

(* What sem.c and the clock interrupt do to the pointers is, step by step,  *)
(* what Kernel does to the wait lists, or nothing that Kernel sees.         *)
THEOREM SemImplementsKernel == Spec => ImplementsKernel
<1>1. SemListInv /\ [Next]_vars => [K!Next]_(K!vars)
  BY SemStep
<1>2. QED
  BY <1>1, SemStart, SemListInvariance, PTL DEF Spec, ImplementsKernel, K!Spec

(* So what Kernel promises holds of the semaphores as they are in memory:   *)
(* nobody gets in front of a waiter, no switch overtakes a ready task, and  *)
(* the scheduler lock keeps the processor.                                  *)
THEOREM SemServedInOrder ==
    Spec => K!NoQueueJumping /\ K!NoOvertaking /\ K!LockKeepsProcessor
BY SemImplementsKernel, KernelPromises DEF ImplementsKernel

-----------------------------------------------------------------------------
(* The tokens. *)

\* No semaphore is created with the maximum 0 (sem_give would count down
\* from 0 after waking a task), or with more tokens than its maximum.
SomeMaximum == \A z \in Sizes : z[2] # 0
FitsMaximum == \A z \in Sizes : z[1] <= z[2]

Counts ==
    /\ cnt \in [Obj -> 0 .. WORD - 1]
    /\ max \in [Obj -> 0 .. WORD - 1]

TokenInv ==
    /\ Counts
    /\ \A s \in Valid : max[s] # 0
    /\ NoLostToken

RangeInv == \A s \in Valid : cnt[s] <= max[s]

\* A step that leaves the tokens alone and makes no task wait.
LEMMA QuietTokens ==
    ASSUME TokenInv, UNCHANGED <<cnt, max>>, Valid' \subseteq Valid,
           \A t \in Slot : wait_id'[t] \in {wait_id[t], NULL}
    PROVE  TokenInv' /\ (RangeInv => RangeInv')
<1>1. Counts' /\ NoLostToken'
  BY NodeFacts DEF TokenInv, Counts, NoLostToken
<1>2. (\A s \in Valid : max[s] # 0)' /\ (RangeInv => RangeInv')
  BY DEF TokenInv, RangeInv
<1>3. QED
  BY <1>1, <1>2 DEF TokenInv

LEMMA TokenStep ==
    ASSUME SomeMaximum, SemListInv, TokenInv, [Next]_vars
    PROVE  /\ TokenInv'
           /\ FitsMaximum /\ RangeInv => RangeInv'
<1>0. /\ ObjInv /\ ObjTypeOK /\ CallInv /\ Valid \in SUBSET Obj /\ WORD \in Nat \ {0}
      /\ valid \in [Obj -> BOOLEAN] /\ wait_id \in [Slot -> Obj \cup {NULL}]
      /\ Counts /\ task_cur \in Slot
  BY SemAssumption, TaskFacts DEF SemListInv, ObjInv, ObjTypeOK, Valid, TokenInv
<1>1. CASE SchedCall /\ UNCHANGED <<cnt, max>>
  <2>1. UNCHANGED ptrVars /\ UNCHANGED valid /\ UNCHANGED <<cnt, max>>
    BY <1>1 DEF SchedCall, TaskCall
  <2>2. QED
    BY <2>1, QuietTokens DEF ptrVars, Valid
<1>2. ASSUME NEW z \in Sizes, sem_create(z[1], z[2])
      PROVE  TokenInv' /\ (FitsMaximum /\ RangeInv => RangeInv')
  <2>1. Create /\ wait_id' = wait_id
    BY <1>2 DEF sem_create, Create
  <2>2. CASE Free = {}
    <3>1. UNCHANGED <<cnt, max>> /\ valid' = valid
      BY <1>2, <2>2 DEF sem_create, Create
    <3>2. QED
      BY <2>1, <3>1, QuietTokens DEF Valid
  <2>3. CASE Free # {}
    <3> DEFINE o == First(Free)
    <3>1. /\ valid' = [valid EXCEPT ![o] = TRUE]
          /\ cnt' = [cnt EXCEPT ![o] = z[1]]
          /\ max' = [max EXCEPT ![o] = z[2]]
      BY <1>2, <2>3 DEF sem_create, Create
    <3>2. o \in Obj /\ ~valid[o]
      BY <2>3, FirstFree DEF Free
    <3> HIDE DEF o
    <3>3. /\ z[1] \in 0 .. WORD - 1 /\ z[2] \in 0 .. WORD - 1 /\ z[2] # 0
          /\ FitsMaximum => z[1] <= z[2]
      BY SemAssumption DEF SomeMaximum, FitsMaximum
    <3>4. \A t \in Slot : wait_id[t] # o
      BY <1>0, <3>2, NodeFacts, WaitedExists DEF Valid
    <3>5. \A s \in Obj : s # o => cnt'[s] = cnt[s] /\ max'[s] = max[s] /\ valid'[s] = valid[s]
      BY <1>0, <3>1 DEF Counts
    <3>6. cnt'[o] = z[1] /\ max'[o] = z[2]
      BY <1>0, <3>1, <3>2 DEF Counts
    <3>7. Counts'
      BY <1>0, <3>1, <3>2, <3>3 DEF Counts
    <3>8. NoLostToken'
      BY <2>1, <3>4, <3>5 DEF TokenInv, NoLostToken
    <3>9. (\A s \in Valid : max[s] # 0)' /\ (FitsMaximum /\ RangeInv => RangeInv')
      BY <3>3, <3>5, <3>6 DEF TokenInv, RangeInv, Valid
    <3>10. QED
      BY <3>7, <3>8, <3>9 DEF TokenInv
  <2>4. QED
    BY <2>2, <2>3
<1>3. CASE /\ \E s \in Obj : (\E d \in Delay : EnterTake(s, d)) \/ EnterGive(s) \/ EnterDelete(s)
           /\ UNCHANGED <<cnt, max>>
  <2>1. UNCHANGED ptrVars /\ valid' = valid
    BY <1>3 DEF EnterTake, EnterGive, EnterDelete, Enter
  <2>2. QED
    BY <1>3, <2>1, QuietTokens DEF ptrVars, Valid
<1>4. CASE sem_take
  <2> DEFINE c == call[task_cur]
             s == c.obj
  <2>1. /\ c.op = "take" /\ c \in Call
        /\ TakeToken(s) \/ TakeBlock(s, c.delay)
        /\ valid' = valid /\ max' = max
    BY <1>0, <1>4 DEF sem_take, Finish, CallInv
  <2>2. s \in Obj /\ Valid' = Valid
    BY <2>1, CallKinds DEF Valid
  <2> HIDE DEF c, s
  <2>3. CASE TakeToken(s)
    <3>1. cnt[s] > 0 /\ cnt' = [cnt EXCEPT ![s] = @ - 1] /\ wait_id' = wait_id
      BY <2>3 DEF TakeToken, ptrVars
    <3>2. cnt[s] \in 0 .. WORD - 1 /\ \A t \in Slot : wait_id[t] # s
      BY <1>0, <2>2, <3>1 DEF Counts, TokenInv, NoLostToken
    <3>3. cnt[s] - 1 \in 0 .. WORD - 1 /\ cnt[s] - 1 <= cnt[s]
      BY <1>0, <3>1, <3>2
    <3>4. \A q \in Obj : cnt'[q] = IF q = s THEN cnt[s] - 1 ELSE cnt[q]
      BY <1>0, <2>2, <3>1 DEF Counts
    <3>5. Counts'
      BY <1>0, <2>1, <3>1, <3>3 DEF Counts
    <3>6. NoLostToken'
      BY <3>1, <3>2, <3>4 DEF TokenInv, NoLostToken
    <3>7. RangeInv => RangeInv'
      <4> SUFFICES ASSUME RangeInv, NEW q \in Valid
                   PROVE  cnt'[q] <= max[q]
        BY <2>1, <2>2 DEF RangeInv
      <4>1. cnt[q] <= max[q] /\ q \in Obj /\ cnt[q] \in Nat /\ max[q] \in Nat
        BY <1>0 DEF RangeInv, Counts
      <4>2. QED
        BY <3>2, <3>4, <4>1
    <3>8. QED
      BY <2>1, <2>2, <3>5, <3>6, <3>7 DEF TokenInv
  <2>4. CASE TakeBlock(s, c.delay)
    <3>1. cnt[s] = 0 /\ cnt' = cnt /\ wait_id' = [wait_id EXCEPT ![task_cur] = s]
      BY <2>4 DEF TakeBlock, Block
    <3>2. NoLostToken'
      BY <1>0, <3>1 DEF TokenInv, NoLostToken
    <3>3. QED
      BY <2>1, <2>2, <3>1, <3>2 DEF TokenInv, Counts, RangeInv
  <2>5. QED
    BY <2>1, <2>3, <2>4
<1>5. CASE sem_give
  <2> DEFINE s == call[task_cur].obj
  <2>1. /\ call[task_cur].op = "give" /\ call[task_cur] \in Call
        /\ valid' = valid /\ max' = max /\ WakeHead(s)
        /\ cnt' = [cnt EXCEPT ![s] = Given(s)]
    BY <1>0, <1>5 DEF sem_give, Finish, CallInv
  <2>2. s \in Obj /\ s \in Valid /\ Valid' = Valid
    BY <1>0, <2>1, CallKinds DEF CallInv, CallersReady, Valid
  <2> HIDE DEF s
  <2>3. /\ cnt[s] \in 0 .. WORD - 1 /\ max[s] \in 0 .. WORD - 1 /\ max[s] # 0
        /\ \A t \in Slot : wait_id'[t] \in {wait_id[t], NULL}
    BY <1>0, <2>1, <2>2, WakeWaits DEF Counts, TokenInv, SemListInv
  <2>4. /\ Given(s) \in 0 .. WORD - 1
        /\ next[s] # NULL => Given(s) = 0
        /\ cnt[s] <= max[s] => Given(s) <= max[s]
    <3>1. CASE next[s] = NULL
      BY <1>0, <2>3, <3>1 DEF Given
    <3>2. CASE next[s] # NULL
      <4>1. cnt[s] = 0
        BY <1>0, <2>2, <3>2, SomeWaiter DEF TokenInv, NoLostToken
      <4>2. Given(s) = (1 + WORD - 1) % WORD
        BY <2>3, <3>2, <4>1 DEF Given
      <4>3. (1 + WORD - 1) % WORD = 0
        <5>1. 1 + WORD - 1 = WORD /\ WORD % WORD = 0
          BY <1>0
        <5>2. QED
          BY <5>1
      <4>4. QED
        BY <1>0, <2>3, <4>2, <4>3
    <3>3. QED
      BY <3>1, <3>2
  <2>5. \A q \in Obj : cnt'[q] = IF q = s THEN Given(s) ELSE cnt[q]
    BY <1>0, <2>1, <2>2 DEF Counts
  <2>6. Counts'
    BY <1>0, <2>1, <2>2, <2>4 DEF Counts
  <2>7. NoLostToken'
    <3>1. ASSUME NEW q \in Obj, NEW t \in Slot, wait_id'[t] = q
          PROVE  cnt'[q] = 0
      <4>1. wait_id[t] = q /\ cnt[q] = 0
        BY <2>3, <3>1, NodeFacts DEF TokenInv, NoLostToken
      <4>2. q = s => next[s] # NULL
        BY <1>0, <2>2, <4>1, SomeWaiter
      <4>3. QED
        BY <2>4, <2>5, <4>1, <4>2
    <3>2. QED
      BY <3>1 DEF NoLostToken
  <2>8. RangeInv => RangeInv'
    BY <2>1, <2>2, <2>4, <2>5 DEF RangeInv, Valid
  <2>9. QED
    BY <2>1, <2>2, <2>6, <2>7, <2>8 DEF TokenInv
<1>6. CASE Delete /\ UNCHANGED <<cnt, max>>
  <2>1. Valid' \subseteq Valid
    BY <1>0, <1>6 DEF Delete, Valid
  <2>2. QED
    BY <1>6, <2>1, DeleteWaits, QuietTokens
<1>7. CASE task_tickdo /\ UNCHANGED <<cnt, max>>
  <2>1. Valid' = Valid
    BY <1>7 DEF task_tickdo, Valid
  <2>2. \A t \in Slot : wait_id'[t] \in {wait_id[t], NULL}
    BY <1>7, TickWaits DEF SemListInv
  <2>3. QED
    BY <1>7, <2>1, <2>2, QuietTokens
<1>8. CASE UNCHANGED vars
  BY <1>8, QuietTokens DEF vars, objVars, ptrVars, Valid
<1>9. QED
  BY <1>1, <1>2, <1>3, <1>4, <1>5, <1>6, <1>7, <1>8 DEF Next

LEMMA TokenStart == Init => TokenInv /\ RangeInv
BY SemAssumption, NodeFacts DEF Init, ObjInit, TokenInv, Counts, RangeInv, NoLostToken, Valid

(* A task waits for a semaphore only while the semaphore has no token, for  *)
(* any sizes with a maximum above 0: neither a give before the take blocks, *)
(* nor a timeout or a delete while it waits, leaves both.                   *)
THEOREM TokensNotLost == SomeMaximum => (Spec => []NoLostToken)
<1> SUFFICES ASSUME SomeMaximum
             PROVE  Spec => []NoLostToken
  OBVIOUS
<1>1. SemListInv /\ TokenInv /\ [Next]_vars => TokenInv'
  BY TokenStep
<1>2. TokenInv => NoLostToken
  BY DEF TokenInv
<1>3. QED
  BY <1>1, <1>2, TokenStart, SemListInvariance, PTL DEF Spec

(* Every variable keeps its type, and no semaphore counts more tokens than  *)
(* its creator allowed.                                                     *)
THEOREM SemTypeCorrect == SomeMaximum /\ FitsMaximum => (Spec => []TypeOK)
<1> SUFFICES ASSUME SomeMaximum, FitsMaximum
             PROVE  Spec => []TypeOK
  OBVIOUS
<1>1. SemListInv /\ (TokenInv /\ RangeInv) /\ [Next]_vars => (TokenInv /\ RangeInv)'
  BY TokenStep
<1>2. SemListInv /\ (TokenInv /\ RangeInv) => TypeOK
  BY DEF SemListInv, ObjInv, CallInv, TokenInv, Counts, RangeInv, Valid, TypeOK
<1>3. QED
  BY <1>1, <1>2, TokenStart, SemListInvariance, PTL DEF Spec

-----------------------------------------------------------------------------
(* Message queues. *)

(* The lists. *)

LEMMA MsgStart == MsgInit => ObjInv /\ K!Init
BY ObjStart DEF MsgInit

LEMMA MsgStep == ObjInv /\ [MsgNext]_msgVars => ObjInv' /\ [K!Next]_(K!vars)
<1> SUFFICES ASSUME ObjInv, [MsgNext]_msgVars
             PROVE  ObjInv' /\ [K!Next]_(K!vars)
  OBVIOUS
<1>0. valid \in [Obj -> BOOLEAN] /\ masked \in BOOLEAN
  BY DEF ObjInv, ObjTypeOK
<1>1. CASE SchedCall
  <2>1. Good(Now', Valid) /\ valid' = valid /\ K!Next /\ masked' = FALSE
    BY <1>1, SchedStep DEF SchedCall, TaskCall
  <2>2. Valid' = Valid
    BY <2>1 DEF Valid
  <2>3. QED
    BY <1>0, <2>1, <2>2, CloseObj
<1>2. CASE Create
  <2>1. masked' \in BOOLEAN
    BY <1>2 DEF Create
  <2>2. QED
    BY <1>2, <2>1, CreateStep, CloseObj
<1>3. ASSUME NEW q \in Obj, NEW d \in Delay, NEW b \in BufLens, msg_rcv(q, d, b)
      PROVE  ObjInv' /\ [K!Next]_(K!vars)
  <2>1. valid' = valid /\ Valid' = Valid /\ masked' = FALSE /\ q \in Valid
    BY <1>3 DEF msg_rcv, Valid
  <2>2. CASE chan[q] # << >>
    <3>1. UNCHANGED <<taskVars, ptrVars>>
      BY <1>3, <2>2 DEF msg_rcv
    <3>2. QED
      BY <1>0, <2>1, <3>1, QuietStep, CloseObj
  <2>3. CASE chan[q] = << >>
    <3>1. MayBlock /\ Block(q, d)
      BY <1>3, <2>3 DEF msg_rcv
    <3>2. Good(Now', Valid) /\ K!Wait(q, d)
      BY <2>1, <3>1, BlockStep
    <3>3. QED
      BY <1>0, <2>1, <3>2, CloseObj DEF K!Next
  <2>4. QED
    BY <2>2, <2>3
<1>4. ASSUME NEW q \in Obj, NEW n \in Lens, msg_send(q, n)
      PROVE  ObjInv' /\ [K!Next]_(K!vars)
  <2>1. valid' = valid /\ Valid' = Valid /\ masked' = FALSE /\ q \in Valid /\ WakeHead(q)
    BY <1>4 DEF msg_send, WakeFor, Valid
  <2>2. Good(Now', Valid) /\ (K!Signal(q) \/ UNCHANGED K!vars)
    BY <2>1, WakeStep
  <2>3. K!Signal(q) => K!Next
    BY DEF K!Next
  <2>4. QED
    BY <1>0, <2>1, <2>2, <2>3, CloseObj
<1>5. ASSUME NEW t \in Slot, msg_rcv_resume(t)
      PROVE  ObjInv' /\ [K!Next]_(K!vars)
  <2>1. UNCHANGED <<taskVars, ptrVars>> /\ valid' = valid /\ Valid' = Valid
        /\ masked' = FALSE
    BY <1>5 DEF msg_rcv_resume, Finish, Valid
  <2>2. QED
    BY <1>0, <2>1, QuietStep, CloseObj
<1>6. CASE task_tickdo
  <2>1. Good(Now', Valid) /\ K!Tick
    BY <1>6, TickStep
  <2>2. UNCHANGED <<valid, masked>> /\ Valid' = Valid
    BY <1>6 DEF task_tickdo, Valid
  <2>3. QED
    BY <1>0, <2>1, <2>2, CloseObj DEF K!Next
<1>7. CASE UNCHANGED msgVars
  <2>1. UNCHANGED <<taskVars, ptrVars>> /\ UNCHANGED <<valid, masked>> /\ Valid' = Valid
    BY <1>7 DEF msgVars, objVars, Valid
  <2>2. QED
    BY <1>0, <2>1, QuietStep, CloseObj
<1>8. QED
  BY <1>1, <1>2, <1>3, <1>4, <1>5, <1>6, <1>7 DEF MsgNext, msg_create, Tick

LEMMA MsgListInvariance == MsgSpec => []ObjInv
<1>1. ObjInv /\ [MsgNext]_msgVars => ObjInv'
  BY MsgStep
<1>2. QED
  BY <1>1, MsgStart, PTL DEF MsgSpec

(* The list of every queue holds exactly the tasks whose msg_id it is,      *)
(* linked both ways, whatever sends come from interrupts and tasks while    *)
(* receivers block, time out and return.                                    *)
THEOREM MsgListsLinked == MsgSpec => []ListsLinked
BY InvLists, MsgListInvariance, PTL

(* What msg.c and the clock interrupt do to the pointers is, step by step,  *)
(* what Kernel does to the wait lists, or nothing that Kernel sees.         *)
THEOREM MsgImplementsKernel == MsgSpec => ImplementsKernel
<1>1. ObjInv /\ [MsgNext]_msgVars => [K!Next]_(K!vars)
  BY MsgStep
<1>2. QED
  BY <1>1, MsgStart, MsgListInvariance, PTL DEF MsgSpec, ImplementsKernel, K!Spec

(* So what Kernel promises holds of the queues as they are in memory:       *)
(* nobody gets in front of a waiting receiver, no switch overtakes a ready  *)
(* task, and the scheduler lock keeps the processor.                        *)
THEOREM MsgServedInOrder ==
    MsgSpec => K!NoQueueJumping /\ K!NoOvertaking /\ K!LockKeepsProcessor
BY MsgImplementsKernel, KernelPromises DEF ImplementsKernel

-----------------------------------------------------------------------------
(* The messages. *)

QueueTypeOK ==
    /\ chan \in [Obj -> Seq(Lens)]
    /\ \A q \in Obj : Len(chan[q]) <= Room
    /\ call \in [Slot -> MsgCall]

LEMMA RcvCallKinds ==
    /\ NoCall \in MsgCall /\ NoCall.op = "none"
    /\ \A c \in MsgCall : c.op = "rcv" => c.obj \in Obj /\ c.len \in BufLens
    /\ \A q \in Obj, b \in BufLens : [op |-> "rcv", obj |-> q, len |-> b] \in MsgCall
BY DEF MsgCall, NoCall

\* Taking a message leaves a shorter queue of messages.
LEMMA TailSeq ==
    ASSUME NEW s \in Seq(Lens), s # << >>
    PROVE  /\ Tail(s) \in Seq(Lens) /\ Len(Tail(s)) = Len(s) - 1
           /\ Head(s) \in Lens /\ Len(s) \in Nat /\ Len(s) # 0
BY HeadTailProperties, EmptySeq

LEMMA AppendSeq ==
    ASSUME NEW s \in Seq(Lens), NEW n \in Lens
    PROVE  Append(s, n) \in Seq(Lens) /\ Len(Append(s, n)) = Len(s) + 1
BY AppendProperties

LEMMA QueueTypeStep ==
    ASSUME ObjInv, QueueTypeOK, [MsgNext]_msgVars
    PROVE  QueueTypeOK'
<1>0. Room \in Nat /\ task_cur \in Slot
  BY MsgQueueAssumption, TaskFacts DEF ObjInv
<1>1. ASSUME NEW q \in Obj, NEW d \in Delay, NEW b \in BufLens, msg_rcv(q, d, b)
      PROVE  QueueTypeOK'
  <2>1. CASE chan[q] # << >>
    <3>1. /\ chan' = chan \/ chan' = [chan EXCEPT ![q] = Tail(@)]
          /\ call' = call
      BY <1>1, <2>1 DEF msg_rcv
    <3>2. chan[q] \in Seq(Lens) /\ Len(chan[q]) <= Room
      BY DEF QueueTypeOK
    <3>3. Tail(chan[q]) \in Seq(Lens) /\ Len(Tail(chan[q])) <= Room
      BY <1>0, <2>1, <3>2, TailSeq
    <3>4. QED
      BY <3>1, <3>3 DEF QueueTypeOK
  <2>2. CASE chan[q] = << >>
    <3>1. /\ chan' = chan
          /\ call' = [call EXCEPT ![task_cur] = [op |-> "rcv", obj |-> q, len |-> b]]
      BY <1>1, <2>2 DEF msg_rcv
    <3>2. QED
      BY <3>1, RcvCallKinds DEF QueueTypeOK
  <2>3. QED
    BY <2>1, <2>2
<1>2. ASSUME NEW q \in Obj, NEW n \in Lens, msg_send(q, n)
      PROVE  QueueTypeOK'
  <2>1. chan' = [chan EXCEPT ![q] = Append(@, n)] /\ call' = call /\ Len(chan[q]) < Room
    BY <1>2 DEF msg_send, HasRoom
  <2>2. chan[q] \in Seq(Lens) /\ Len(chan[q]) \in Nat
    BY LenProperties DEF QueueTypeOK
  <2>3. Append(chan[q], n) \in Seq(Lens) /\ Len(Append(chan[q], n)) <= Room
    BY <1>0, <2>1, <2>2, AppendSeq
  <2>4. QED
    BY <2>1, <2>3 DEF QueueTypeOK
<1>3. ASSUME NEW t \in Slot, msg_rcv_resume(t)
      PROVE  QueueTypeOK'
  <2> DEFINE q == call[t].obj
  <2>1. /\ chan' = (IF Fits(q, call[t].len) THEN [chan EXCEPT ![q] = Tail(@)] ELSE chan)
        /\ call' = [call EXCEPT ![t] = NoCall]
        /\ call[t].op = "rcv"
    BY <1>3 DEF msg_rcv_resume, Finish
  <2>2. q \in Obj /\ chan[q] \in Seq(Lens) /\ Len(chan[q]) <= Room
    BY <2>1, RcvCallKinds DEF QueueTypeOK
  <2> HIDE DEF q
  <2>3. call' \in [Slot -> MsgCall]
    BY <2>1, RcvCallKinds DEF QueueTypeOK
  <2>4. CASE chan[q] # << >>
    <3>1. Tail(chan[q]) \in Seq(Lens) /\ Len(Tail(chan[q])) <= Room
      BY <1>0, <2>2, <2>4, TailSeq
    <3>2. chan' = chan \/ chan' = [chan EXCEPT ![q] = Tail(@)]
      BY <2>1
    <3>3. QED
      BY <2>3, <3>1, <3>2 DEF QueueTypeOK
  <2>5. CASE chan[q] = << >>
    <3>1. chan' = chan
      BY <2>1, <2>5 DEF Fits
    <3>2. QED
      BY <2>3, <3>1 DEF QueueTypeOK
  <2>6. QED
    BY <2>4, <2>5
<1>4. CASE UNCHANGED <<chan, call>>
  BY <1>4 DEF QueueTypeOK
<1>5. QED
  BY <1>1, <1>2, <1>3, <1>4
     DEF MsgNext, SchedCall, TaskCall, msg_create, Create, Tick, task_tickdo, msgVars, objVars

LEMMA QueueTypeStart == MsgInit => QueueTypeOK
<1>1. << >> \in Seq(Lens) /\ Len(<< >>) = 0 /\ Room \in Nat
  BY MsgQueueAssumption, EmptySeq
<1>2. QED
  BY <1>1, RcvCallKinds DEF MsgInit, ObjInit, QueueTypeOK

(* Every variable keeps its type; no queue holds more than it has room for. *)
THEOREM MsgTypeCorrect == MsgSpec => []MsgTypeOK
<1>1. ObjInv /\ QueueTypeOK /\ [MsgNext]_msgVars => QueueTypeOK'
  BY QueueTypeStep
<1>2. ObjInv /\ QueueTypeOK => MsgTypeOK
  BY DEF ObjInv, QueueTypeOK, MsgTypeOK
<1>3. QED
  BY <1>1, <1>2, QueueTypeStart, MsgListInvariance, PTL DEF MsgSpec

-----------------------------------------------------------------------------
(* No message is left behind. *)

\* Every receiver's buffer holds every message.
BuffersFit == \A n \in Lens, b \in BufLens : n <= b

ReceiversWait ==
    \A t \in Slot :
        wait_id[t] # NULL => call[t].op = "rcv" /\ call[t].obj = wait_id[t]

MessagesSeen ==
    \A q \in Obj :
        (\E t \in Slot : wait_id[t] = q) => Len(chan[q]) <= Cardinality(Returning(q))

StrandInv == ReceiversWait /\ MessagesSeen

LEMMA SlotsFinite ==
    ASSUME NEW S \in SUBSET Slot
    PROVE  IsFiniteSet(S) /\ Cardinality(S) \in Nat
<1>1. IsFiniteSet(Slot)
  BY NodeFacts, FS_Interval DEF Slot
<1>2. IsFiniteSet(S)
  BY <1>1, FS_Subset
<1>3. QED
  BY <1>2, FS_CardinalityType

LEMMA MoreReturning ==
    ASSUME NEW S \in SUBSET Slot, NEW T \in SUBSET Slot, S \subseteq T
    PROVE  Cardinality(S) <= Cardinality(T)
<1>1. IsFiniteSet(T) /\ S \in SUBSET T
  BY SlotsFinite
<1>2. QED
  BY <1>1, FS_Subset

LEMMA OneReturning ==
    ASSUME NEW S \in SUBSET Slot, NEW t \in Slot
    PROVE  /\ t \notin S => Cardinality(S \cup {t}) = Cardinality(S) + 1
           /\ t \in S => Cardinality(S \ {t}) = Cardinality(S) - 1
BY SlotsFinite, FS_AddElement, FS_RemoveElement

\* A step that touches no queue, makes nobody wait for one and puts no
\* receiver back to sleep.
LEMMA QuietQueues ==
    ASSUME QueueTypeOK, StrandInv, chan' = chan, call' = call,
           \A t \in Slot : wait_id'[t] \in {wait_id[t], NULL},
           \A t \in Slot : call[t].op = "rcv" /\ task_state'[t] = PEND
                              => task_state[t] = PEND
    PROVE  StrandInv'
<1>1. ReceiversWait'
  BY DEF StrandInv, ReceiversWait
<1>2. ASSUME NEW q \in Obj, NEW t \in Slot, wait_id'[t] = q
      PROVE  (Len(chan[q]) <= Cardinality(Returning(q)))'
  <2>1. wait_id[t] = q
    BY <1>2, NodeFacts
  <2>2. Len(chan[q]) <= Cardinality(Returning(q))
    BY <2>1 DEF StrandInv, MessagesSeen
  <2> DEFINE S == Returning(q)
             T == Returning(q)'
  <2>3. S \in SUBSET Slot /\ T \in SUBSET Slot /\ S \subseteq T
    BY DEF Returning, PEND
  <2> HIDE DEF S, T
  <2>4. Cardinality(S) <= Cardinality(T) /\ Cardinality(S) \in Nat
        /\ Cardinality(T) \in Nat
    BY <2>3, MoreReturning, SlotsFinite
  <2>5. Len(chan[q]) \in Nat
    BY LenProperties DEF QueueTypeOK
  <2>6. QED
    BY <2>2, <2>4, <2>5 DEF S, T
<1>3. QED
  BY <1>1, <1>2 DEF StrandInv, MessagesSeen

\* The queue the step is about, and the others.
LEMMA OneQueue ==
    ASSUME StrandInv, NEW q \in Obj,
           \A p \in Obj \ {q} :
              /\ chan'[p] = chan[p]
              /\ Returning(p)' = Returning(p)
              /\ (\E t \in Slot : wait_id'[t] = p) => \E t \in Slot : wait_id[t] = p,
           (\E t \in Slot : wait_id'[t] = q)
              => (Len(chan[q]) <= Cardinality(Returning(q)))'
    PROVE  MessagesSeen'
<1>1. ASSUME NEW p \in Obj, \E t \in Slot : wait_id'[t] = p
      PROVE  (Len(chan[p]) <= Cardinality(Returning(p)))'
  <2>1. CASE p = q
    BY <1>1, <2>1
  <2>2. CASE p # q
    <3>1. Len(chan[p]) <= Cardinality(Returning(p))
      BY <1>1, <2>2 DEF StrandInv, MessagesSeen
    <3>2. QED
      BY <2>2, <3>1
  <2>3. QED
    BY <2>1, <2>2
<1>2. QED
  BY <1>1 DEF MessagesSeen

LEMMA RcvStrand ==
    ASSUME BuffersFit, ObjInv, QueueTypeOK, StrandInv,
           NEW q \in Obj, NEW d \in Delay, NEW b \in BufLens, msg_rcv(q, d, b)
    PROVE  StrandInv'
<1>0. /\ call \in [Slot -> MsgCall] /\ chan \in [Obj -> Seq(Lens)] /\ task_cur \in Slot
      /\ wait_id \in [Slot -> Obj \cup {NULL}] /\ wait_id[task_cur] = NULL
      /\ call[task_cur] = NoCall /\ NULL \notin Obj
  BY TaskFacts, NodeFacts DEF ObjInv, ObjTypeOK, QueueTypeOK, msg_rcv, CanCall
<1>1. CASE chan[q] # << >>
  <2>1. UNCHANGED <<taskVars, ptrVars, call>>
    BY <1>1 DEF msg_rcv
  <2>2. Fits(q, b)
    BY <1>0, <1>1, TailSeq DEF Fits, BuffersFit
  <2>3. chan' = [chan EXCEPT ![q] = Tail(@)]
    BY <1>1, <2>2 DEF msg_rcv
  <2>4. \A p \in Obj : Returning(p)' = Returning(p)
    BY <2>1 DEF Returning, taskVars
  <2>5. ReceiversWait' /\ wait_id' = wait_id
    BY <2>1 DEF StrandInv, ReceiversWait, ptrVars
  <2>6. (\E t \in Slot : wait_id'[t] = q) => (Len(chan[q]) <= Cardinality(Returning(q)))'
    <3> SUFFICES ASSUME NEW t \in Slot, wait_id'[t] = q
                 PROVE  Len(chan'[q]) <= Cardinality(Returning(q)')
      OBVIOUS
    <3>1. Len(chan[q]) <= Cardinality(Returning(q))
      BY <2>5 DEF StrandInv, MessagesSeen
    <3>2. chan'[q] = Tail(chan[q]) /\ Len(Tail(chan[q])) = Len(chan[q]) - 1
          /\ Len(chan[q]) \in Nat
      BY <1>0, <1>1, <2>3, TailSeq
    <3>3. Cardinality(Returning(q)) \in Nat
      BY SlotsFinite DEF Returning
    <3>4. QED
      BY <2>4, <3>1, <3>2, <3>3
  <2>7. \A p \in Obj \ {q} : chan'[p] = chan[p]
    BY <1>0, <2>3
  <2>8. MessagesSeen'
    BY <2>4, <2>5, <2>6, <2>7, OneQueue
  <2>9. QED
    BY <2>5, <2>8 DEF StrandInv
<1>2. CASE chan[q] = << >>
  <2>1. /\ MayBlock /\ BlockCur(d) /\ chan' = chan
        /\ wait_id' = [wait_id EXCEPT ![task_cur] = q]
        /\ call' = [call EXCEPT ![task_cur] = [op |-> "rcv", obj |-> q, len |-> b]]
    BY <1>2 DEF msg_rcv, Block
  <2>2. ReceiversWait'
    BY <1>0, <2>1 DEF StrandInv, ReceiversWait
  <2>3. \A t \in Slot : task_state'[t] = PEND <=> task_state[t] = PEND \/ t = task_cur
    BY <2>1, BlockedPends
  <2>4. \A t \in Slot : call'[t] = IF t = task_cur
                                   THEN [op |-> "rcv", obj |-> q, len |-> b] ELSE call[t]
    BY <1>0, <2>1
  <2>5. \A p \in Obj : Returning(p)' = Returning(p)
    BY <1>0, <2>3, <2>4, RcvCallKinds DEF Returning, PEND
  <2>6. (Len(chan[q]) <= Cardinality(Returning(q)))'
    <3>1. Len(chan'[q]) = 0
      BY <1>2, <2>1, EmptySeq
    <3>2. Cardinality(Returning(q)) \in Nat
      BY SlotsFinite DEF Returning
    <3>3. QED
      BY <2>5, <3>1, <3>2
  <2>7. \A p \in Obj \ {q} :
           (\E t \in Slot : wait_id'[t] = p) => \E t \in Slot : wait_id[t] = p
    BY <1>0, <2>1
  <2>8. MessagesSeen'
    BY <2>1, <2>5, <2>6, <2>7, OneQueue
  <2>9. QED
    BY <2>2, <2>8 DEF StrandInv
<1>3. QED
  BY <1>1, <1>2

LEMMA ResumeStrand ==
    ASSUME BuffersFit, ObjInv, QueueTypeOK, StrandInv, NEW t \in Slot, msg_rcv_resume(t)
    PROVE  StrandInv'
<1>0. /\ call \in [Slot -> MsgCall] /\ chan \in [Obj -> Seq(Lens)] /\ t = task_cur
      /\ wait_id[t] = NULL /\ task_state[t] # PEND
      /\ call[t].op = "rcv" /\ call' = [call EXCEPT ![t] = NoCall]
      /\ UNCHANGED <<taskVars, ptrVars>>
  <2>1. task_state[task_cur] # PEND
    BY DEF ObjInv, KP!Inv, KP!OneRunning, KP!RUN, KP!READY, PEND
  <2>2. QED
    BY <2>1, TaskFacts DEF ObjInv, QueueTypeOK, msg_rcv_resume, Finish
<1>1. PICK q \in Obj : call[t].obj = q
  BY <1>0, RcvCallKinds
<1>1a. call[t].len \in BufLens /\ chan[q] \in Seq(Lens)
  BY <1>0, RcvCallKinds DEF QueueTypeOK
<1>2. chan' = IF Fits(q, call[t].len) THEN [chan EXCEPT ![q] = Tail(@)] ELSE chan
  BY <1>1 DEF msg_rcv_resume
<1>3. t \in Returning(q) /\ Returning(q)' = Returning(q) \ {t}
      /\ \A p \in Obj \ {q} : Returning(p)' = Returning(p)
  BY <1>0, <1>1, RcvCallKinds DEF Returning, taskVars, PEND
<1>4. ReceiversWait' /\ wait_id' = wait_id
  BY <1>0 DEF StrandInv, ReceiversWait, ptrVars
<1>5. \A p \in Obj \ {q} : chan'[p] = chan[p]
  BY <1>0, <1>2
<1>6. (\E u \in Slot : wait_id'[u] = q) => (Len(chan[q]) <= Cardinality(Returning(q)))'
  <2> SUFFICES ASSUME \E u \in Slot : wait_id[u] = q
               PROVE  Len(chan'[q]) <= Cardinality(Returning(q)')
    BY <1>4
  <2>1. Len(chan[q]) <= Cardinality(Returning(q))
    BY <1>1 DEF StrandInv, MessagesSeen
  <2> DEFINE S == Returning(q)
  <2>2. S \in SUBSET Slot /\ t \in S
    BY <1>3 DEF Returning
  <2> HIDE DEF S
  <2>3. Cardinality(S \ {t}) = Cardinality(S) - 1 /\ Cardinality(S) \in Nat
        /\ Cardinality(S \ {t}) \in Nat
    BY <2>2, OneReturning, SlotsFinite
  <2>4. CASE chan[q] = << >>
    <3>1. chan'[q] = << >> /\ Len(chan'[q]) = 0
      BY <1>2, <2>4, EmptySeq DEF Fits
    <3>2. QED
      BY <1>3, <2>3, <3>1 DEF S
  <2>5. CASE chan[q] # << >>
    <3>1. Fits(q, call[t].len)
      BY <1>1a, <2>5, TailSeq DEF Fits, BuffersFit
    <3>2. chan'[q] = Tail(chan[q]) /\ Len(Tail(chan[q])) = Len(chan[q]) - 1
          /\ Len(chan[q]) \in Nat
      BY <1>0, <1>1a, <1>2, <2>5, <3>1, TailSeq
    <3>3. QED
      BY <1>3, <2>1, <2>3, <3>2 DEF S
  <2>6. QED
    BY <2>4, <2>5
<1>7. MessagesSeen'
  BY <1>1, <1>3, <1>4, <1>5, <1>6, OneQueue
<1>8. QED
  BY <1>4, <1>7 DEF StrandInv

LEMMA SendStrand ==
    ASSUME ObjInv, QueueTypeOK, StrandInv, NEW q \in Obj, NEW n \in Lens, msg_send(q, n)
    PROVE  StrandInv'
<1> DEFINE h == next[q]
<1>0. /\ chan \in [Obj -> Seq(Lens)] /\ q \in Valid /\ NULL \notin Obj
      /\ chan' = [chan EXCEPT ![q] = Append(@, n)] /\ call' = call /\ WakeHead(q)
      /\ wait_id \in [Slot -> Obj \cup {NULL}] /\ NULL \notin Slot
      /\ task_state \in [Slot -> {UNUSED, READY, RUN, PEND}]
      /\ chan[q] \in Seq(Lens) /\ Len(chan[q]) \in Nat
  BY NodeFacts, LenProperties
     DEF ObjInv, ObjTypeOK, TaskTypeOK, QueueTypeOK, msg_send, WakeFor, Valid
<1>1. \A t \in Slot : wait_id'[t] \in {wait_id[t], NULL}
  BY <1>0, WakeWaits
<1>2. ReceiversWait'
  BY <1>0, <1>1 DEF StrandInv, ReceiversWait
<1>3. \A p \in Obj \ {q} : chan'[p] = chan[p]
  BY <1>0
<1>4. \A p \in Obj : (\E t \in Slot : wait_id'[t] = p) => \E t \in Slot : wait_id[t] = p
  BY <1>0, <1>1
<1>5. CASE h = NULL
  <2>1. UNCHANGED <<taskVars, ptrVars>>
    BY <1>0, <1>5 DEF WakeHead
  <2>2. \A p \in Obj : Returning(p)' = Returning(p)
    BY <1>0, <2>1 DEF Returning, taskVars
  <2>3. ~\E t \in Slot : wait_id'[t] = q
    BY <1>0, <1>4, <1>5, SomeWaiter
  <2>4. MessagesSeen'
    BY <1>3, <1>4, <2>2, <2>3, OneQueue
  <2>5. QED
    BY <1>2, <2>4 DEF StrandInv
<1>6. CASE h # NULL
  <2>1. /\ h \in Slot /\ wait_id[h] = q /\ task_state[h] = PEND
        /\ call[h].op = "rcv" /\ call[h].obj = q
    <3>1. Linked(Now, q) /\ Now.next = next /\ Now.wait_id = wait_id
      BY <1>0 DEF ObjInv, Good, Now
    <3>2. h \in Slot /\ wait_id[h] = q
      BY <1>6, <3>1, HeadFacts
    <3>3. QED
      BY <1>0, <3>2, TaskFacts DEF ObjInv, StrandInv, ReceiversWait
  <2>2. task_state' = [task_state EXCEPT ![h] = READY]
    BY <1>0, <1>6 DEF WakeHead, ReadyTask
  <2> HIDE DEF h
  <2>3. /\ h \notin Returning(q) /\ Returning(q)' = Returning(q) \cup {h}
        /\ \A p \in Obj \ {q} : Returning(p)' = Returning(p)
    BY <1>0, <2>1, <2>2 DEF Returning, PEND, READY
  <2>4. (\E t \in Slot : wait_id'[t] = q) => (Len(chan[q]) <= Cardinality(Returning(q)))'
    <3>1. Len(chan[q]) <= Cardinality(Returning(q))
      BY <2>1 DEF StrandInv, MessagesSeen
    <3>2. Len(chan'[q]) = Len(chan[q]) + 1
      BY <1>0, AppendSeq
    <3> DEFINE S == Returning(q)
    <3>3. S \in SUBSET Slot /\ h \notin S
      BY <2>3 DEF Returning
    <3> HIDE DEF S
    <3>4. Cardinality(S \cup {h}) = Cardinality(S) + 1 /\ Cardinality(S) \in Nat
      BY <2>1, <3>3, OneReturning, SlotsFinite
    <3>5. QED
      BY <1>0, <2>3, <3>1, <3>2, <3>4 DEF S
  <2>5. MessagesSeen'
    BY <1>3, <1>4, <2>3, <2>4, OneQueue
  <2>6. QED
    BY <1>2, <2>5 DEF StrandInv
<1>7. QED
  BY <1>5, <1>6

LEMMA StrandStep ==
    ASSUME BuffersFit, ObjInv, QueueTypeOK, StrandInv, [MsgNext]_msgVars
    PROVE  StrandInv'
<1>1. CASE SchedCall /\ UNCHANGED chan
  <2>1. UNCHANGED ptrVars /\ call' = call /\ call[task_cur] = NoCall
    BY <1>1 DEF SchedCall, TaskCall, CanCall
  <2>2. ASSUME NEW t \in Slot, call[t].op = "rcv", task_state'[t] = PEND
        PROVE  task_state[t] = PEND
    <3>1. t # task_cur
      BY <2>1, <2>2, RcvCallKinds
    <3>2. CASE \E d \in Delay : MayBlock /\ task_delay(d)
      BY <2>2, <3>1, <3>2, BlockedPends DEF task_delay
    <3>3. CASE task_create
      BY <2>2, <3>3 DEF task_create, ObjInv, ObjTypeOK, TaskTypeOK, READY, PEND
    <3>4. CASE task_locksched \/ task_unlocksched
      BY <2>2, <3>4 DEF task_locksched, task_unlocksched, SetSchedSign
    <3>5. QED
      BY <1>1, <3>2, <3>3, <3>4 DEF SchedCall, TaskCall
  <2>3. QED
    BY <1>1, <2>1, <2>2, QuietQueues DEF ptrVars
<1>2. CASE msg_create
  BY <1>2, QuietQueues DEF msg_create, Create, taskVars
<1>3. ASSUME NEW q \in Obj, NEW d \in Delay, NEW b \in BufLens, msg_rcv(q, d, b)
      PROVE  StrandInv'
  BY <1>3, RcvStrand
<1>4. ASSUME NEW q \in Obj, NEW n \in Lens, msg_send(q, n)
      PROVE  StrandInv'
  BY <1>4, SendStrand
<1>5. ASSUME NEW t \in Slot, msg_rcv_resume(t)
      PROVE  StrandInv'
  BY <1>5, ResumeStrand
<1>6. CASE Tick
  <2>1. task_tickdo /\ chan' = chan /\ call' = call
    BY <1>6 DEF Tick, task_tickdo
  <2>2. QED
    BY <2>1, TickWaits, TickedPends, QuietQueues
<1>7. CASE UNCHANGED msgVars
  BY <1>7, QuietQueues DEF msgVars, taskVars, objVars, ptrVars
<1>8. QED
  BY <1>1, <1>2, <1>3, <1>4, <1>5, <1>6, <1>7 DEF MsgNext

LEMMA StrandStart == MsgInit => StrandInv
BY NodeFacts DEF MsgInit, ObjInit, StrandInv, ReceiversWait, MessagesSeen

(* While tasks wait on a queue, every message in it has a receiver on its   *)
(* way to look for it, if every buffer holds every message: no interleaving *)
(* of sends, timeouts and second looks leaves a task asleep beside a        *)
(* message.                                                                 *)
THEOREM MessagesNotStranded == BuffersFit => (MsgSpec => []NoMessageStranded)
<1> SUFFICES ASSUME BuffersFit
             PROVE  MsgSpec => []NoMessageStranded
  OBVIOUS
<1>1. ObjInv /\ QueueTypeOK /\ StrandInv /\ [MsgNext]_msgVars => QueueTypeOK' /\ StrandInv'
  BY QueueTypeStep, StrandStep
<1>2. ObjInv /\ StrandInv => NoMessageStranded
  BY SomeWaiter DEF StrandInv, MessagesSeen, NoMessageStranded, Valid
<1>3. QED
  BY <1>1, <1>2, QueueTypeStart, StrandStart, MsgListInvariance, PTL DEF MsgSpec
=============================================================================
