---------------------------- MODULE TaskRingProofs ----------------------------
(***************************************************************************)
(* Proofs about TaskRing, for any number of slots: the circular list stays *)
(* in the order of the slots, the walks along it do what the scheduler of  *)
(* Kernel promises, and task_show lists every task.                        *)
(*                                                                         *)
(* The walk from task_cur is a recursive function; WalkAt finds it equal   *)
(* to (task_cur + k) % n, by the least k where it would not be.  From there *)
(* on a search is a minimum over distances, as in Task.  RingInOrder is    *)
(* inductive together with PickInv, which keeps the slot found free until  *)
(* it is used, and ShowInv, which ties the listing to where the walk is.   *)
(***************************************************************************)
EXTENDS TaskRing, FiniteSetTheorems, SequenceTheorems, TLAPS

\* The proofs about Kernel, for what the ring stands for.  The histories of
\* KernelTime play no part.
KP == INSTANCE KernelProofs WITH
        ntask <- Cardinality(used),
        Obj <- {},
        wait_id <- [s \in Slot |-> NULL],
        ahead <- [s \in Slot |-> {}],
        asked <- [s \in Slot |-> 0],
        age <- [s \in Slot |-> 0]

Count == Cardinality(used)

RingInv ==
    /\ Count \in 1 .. TASK_INIT_NUM
    /\ RingInOrder
    /\ next \in [Slot -> Slot \cup {NULL}]
    /\ DOMAIN task_state = Slot
    /\ task_state = [t \in Slot |-> task_state[t]]
    /\ task_sleeptime = [t \in Slot |-> task_sleeptime[t]]

\* One of the tasks at most is in task_create, and there is room for its slot.
PickInv ==
    /\ picked \in [Slot -> Slot \cup {NULL}]
    /\ \A t \in Slot : picked[t] # NULL => t \in used /\ Count < TASK_INIT_NUM
    /\ \A t, u \in Slot : picked[t] # NULL /\ picked[u] # NULL => t = u

\* What task_show has listed so far is what lies before the slot it stands at.
ShowInv ==
    show.by # NULL =>
        /\ show.at \in used
        /\ show.listed = [k \in 1 .. show.at |-> k - 1]

-----------------------------------------------------------------------------
(* Going round. *)

LEMMA Multiple ==
    ASSUME NEW n \in Nat \ {0}, NEW d \in Nat \ {0}
    PROVE  n * d >= n
<1>1. n * d = n * (d - 1) + n
  OBVIOUS
<1>2. d - 1 \in Nat
  OBVIOUS
<1>3. n * (d - 1) \in Int /\ n * (d - 1) >= 0
  BY <1>2
<1>4. QED
  BY <1>1, <1>3

LEMMA OneRemainder ==
    ASSUME NEW n \in Nat \ {0}, NEW p \in Int, NEW q \in Int,
           NEW r \in 0 .. n - 1, NEW s \in 0 .. n - 1,
           n * p + r = n * q + s
    PROVE  r = s
<1>0. n * p \in Int /\ n * q \in Int
  OBVIOUS
<1>1. CASE p = q
  BY <1>1
<1>2. CASE p > q
  <2>1. p - q \in Nat \ {0} /\ n * (p - q) = n * p - n * q
    BY <1>2
  <2>2. QED
    BY <1>0, <2>1, Multiple
<1>3. CASE p < q
  <2>1. q - p \in Nat \ {0} /\ n * (q - p) = n * q - n * p
    BY <1>3
  <2>2. QED
    BY <1>0, <2>1, Multiple
<1>4. QED
  BY <1>1, <1>2, <1>3

LEMMA OwnRemainder ==
    ASSUME NEW n \in Nat \ {0}, NEW x \in 0 .. n - 1
    PROVE  x % n = x
OBVIOUS

LEMMA OneFurther ==
    ASSUME NEW n \in Nat \ {0}, NEW x \in Nat
    PROVE  ((x % n) + 1) % n = (x + 1) % n
<1>1. /\ x \div n \in Int /\ x % n \in 0 .. n - 1
      /\ x = n * (x \div n) + (x % n)
      /\ (x + 1) \div n \in Int /\ (x + 1) % n \in 0 .. n - 1
      /\ x + 1 = n * ((x + 1) \div n) + ((x + 1) % n)
  OBVIOUS
<1>2. CASE (x % n) + 1 < n
  <2>1. (x % n) + 1 \in 0 .. n - 1 /\ ((x % n) + 1) % n = (x % n) + 1
    BY <1>1, <1>2
  <2>2. n * (x \div n) + ((x % n) + 1) = n * ((x + 1) \div n) + ((x + 1) % n)
    BY <1>1
  <2>3. QED
    BY <1>1, <2>1, <2>2, OneRemainder
<1>3. CASE (x % n) + 1 = n
  <2>1. ((x % n) + 1) % n = 0
    BY <1>1, <1>3
  <2>2. n * ((x \div n) + 1) = n * (x \div n) + n
    BY <1>1
  <2>3. n * ((x \div n) + 1) + 0 = n * ((x + 1) \div n) + ((x + 1) % n)
    BY <1>1, <1>3, <2>2
  <2>4. (x \div n) + 1 \in Int /\ 0 \in 0 .. n - 1
    BY <1>1
  <2>5. QED
    BY <1>1, <2>1, <2>3, <2>4, OneRemainder
<1>4. QED
  BY <1>1, <1>2, <1>3

LEMMA CountFacts ==
    ASSUME RingInv
    PROVE  /\ Count \in Nat \ {0} /\ Count <= TASK_INIT_NUM
           /\ TASK_INIT_NUM \in Nat
           /\ used = 0 .. Count - 1 /\ used \subseteq Slot
           /\ task_cur \in 0 .. Count - 1
           /\ \A s \in used : next[s] = (s + 1) % Count
BY TaskRingAssumption DEF RingInv, RingInOrder, Count, Slot

\* The walk from task_cur goes round the slots in use.
LEMMA WalkAt ==
    ASSUME RingInv
    PROVE  \A k \in 0 .. TASK_INIT_NUM : At[k] = (task_cur + k) % Count
<1> DEFINE w == [k \in 0 .. TASK_INIT_NUM |-> (task_cur + k) % Count]
           Is(f) == f = [k \in 0 .. TASK_INIT_NUM |->
                           IF k = 0 THEN task_cur ELSE next[f[k - 1]]]
<1>0. NULL \notin {}
  OBVIOUS
<1>1. w[0] = task_cur /\ \A k \in 1 .. TASK_INIT_NUM : w[k] = next[w[k - 1]]
  <2>1. w[0] = task_cur
    BY CountFacts
  <2>2. ASSUME NEW k \in 1 .. TASK_INIT_NUM
        PROVE  w[k] = next[w[k - 1]]
    <3>1. k - 1 \in 0 .. TASK_INIT_NUM /\ task_cur + (k - 1) \in Nat
          /\ k \in 0 .. TASK_INIT_NUM
      BY CountFacts
    <3>2. w[k - 1] \in 0 .. Count - 1
      BY <3>1, CountFacts
    <3>3. next[w[k - 1]] = (w[k - 1] + 1) % Count
      BY <3>2, CountFacts
    <3>4. (((task_cur + (k - 1)) % Count) + 1) % Count
             = ((task_cur + (k - 1)) + 1) % Count
      BY <3>1, CountFacts, OneFurther
    <3>5. (task_cur + (k - 1)) + 1 = task_cur + k
      BY <3>1, CountFacts
    <3>6. QED
      BY <3>1, <3>3, <3>4, <3>5
  <2>3. QED
    BY <2>1, <2>2
<1>2. At[0] = task_cur /\ \A k \in 1 .. TASK_INIT_NUM : At[k] = next[At[k - 1]]
  <2>1. Is(w)
    <3>1. \A k \in 0 .. TASK_INIT_NUM : k = 0 \/ k \in 1 .. TASK_INIT_NUM
      BY CountFacts
    <3>2. \A k \in 0 .. TASK_INIT_NUM :
             w[k] = IF k = 0 THEN task_cur ELSE next[w[k - 1]]
      <4> HIDE DEF w
      <4>1. QED
        BY <1>1, <3>1
    <3>3. QED
      BY <3>2
  <2>2. At = CHOOSE f : Is(f)
    BY DEF At
  <2> HIDE DEF Is
  <2>3. Is(At)
    BY <2>1, <2>2
  <2>4. QED
    BY <2>3, CountFacts DEF Is
<1>3. \A k \in 0 .. TASK_INIT_NUM : At[k] = w[k]
  <2> HIDE DEF w
  <2> DEFINE Bad == {k \in 0 .. TASK_INIT_NUM : At[k] # w[k]}
  <2>1. SUFFICES ASSUME Bad # {}
                 PROVE  FALSE
    OBVIOUS
  <2>2. PICK k \in Bad : \A j \in Bad : k <= j
    <3>1. Bad \in SUBSET Nat
      OBVIOUS
    <3> HIDE DEF Bad
    <3>2. QED
      BY <2>1, <3>1, KP!LeastNat, TaskRingAssumption, <1>0
  <2>3. k \in 1 .. TASK_INIT_NUM /\ k - 1 \in 0 .. TASK_INIT_NUM
    BY <1>1, <1>2, <2>2, CountFacts
  <2>4. At[k - 1] = w[k - 1]
    BY <2>2, <2>3
  <2>5. QED
    BY <1>1, <1>2, <2>2, <2>3, <2>4
<1>4. QED
  BY <1>3

\* It takes as many steps back to task_cur as there are slots in use, and
\* passes each of the others once.
LEMMA WalkRound ==
    ASSUME RingInv
    PROVE  /\ Round = Count
           /\ At[Count] = task_cur
           /\ \A k \in 1 .. Count - 1 :
                 At[k] = IF task_cur + k < Count THEN task_cur + k
                                                 ELSE task_cur + k - Count
<1>1. Count \in 1 .. TASK_INIT_NUM /\ task_cur \in 0 .. Count - 1
  BY CountFacts
<1>2. \A k \in 1 .. Count - 1 :
         At[k] = IF task_cur + k < Count THEN task_cur + k
                                         ELSE task_cur + k - Count
  <2> TAKE k \in 1 .. Count - 1
  <2>1. At[k] = (task_cur + k) % Count
    BY <1>1, WalkAt, CountFacts
  <2> HIDE DEF At
  <2>2. QED
    BY <1>1, <2>1, CountFacts
<1>3. At[Count] = task_cur
  <2>1. At[Count] = (task_cur + Count) % Count
    BY <1>1, WalkAt
  <2>2. QED
    BY <1>1, <2>1
<1>4. \A j \in 1 .. Count - 1 : At[j] # task_cur
  BY <1>1, <1>2
<1> DEFINE Back(k) == At[k] = task_cur /\ \A j \in 1 .. k - 1 : At[j] # task_cur
<1>5. \A k \in 1 .. TASK_INIT_NUM : Back(k) <=> k = Count
  BY <1>1, <1>3, <1>4
<1>6. Round = Count
  <2>1. Round = CHOOSE k \in 1 .. TASK_INIT_NUM : Back(k)
    BY DEF Round
  <2> HIDE DEF Back
  <2>2. QED
    BY <1>1, <1>5, <2>1
<1>7. QED
  BY <1>2, <1>3, <1>6

LEMMA WalkIn ==
    ASSUME RingInv, NEW k \in 1 .. Count
    PROVE  At[k] \in 0 .. Count - 1
<1>1. CASE k = Count
  BY <1>1, WalkRound, CountFacts
<1>2. CASE k \in 1 .. Count - 1
  BY <1>2, WalkRound, CountFacts
<1>3. QED
  BY <1>1, <1>2, CountFacts

\* The walk finds what Task says it finds.
LEMMA SameNextrun ==
    ASSUME RingInv, NEW st
    PROVE  /\ task_getnextrun(st) = K!task_getnextrun(st)
           /\ task_getnextrun(st) \in used
<1>0. NULL \notin {}
  OBVIOUS
<1>1. Count \in 1 .. TASK_INIT_NUM /\ task_cur \in 0 .. Count - 1
  BY CountFacts
<1> DEFINE Found(k) == /\ k = Round \/ st[At[k]] = "READY"
                       /\ \A j \in 1 .. k - 1 : st[At[j]] # "READY"
           Stop == {k \in 1 .. Count : k = Count \/ st[At[k]] = "READY"}
<1>2. PICK k \in Stop : \A j \in Stop : k <= j
  <2>1. Stop \in SUBSET Nat /\ Stop # {}
    BY <1>1
  <2> HIDE DEF Stop
  <2>2. QED
    BY <2>1, KP!LeastNat, TaskRingAssumption, <1>0
<1>3. \A j \in 1 .. Round : Found(j) <=> j = k
  BY <1>1, <1>2, WalkRound
<1>4. task_getnextrun(st) = At[k]
  <2>1. task_getnextrun(st) = At[CHOOSE j \in 1 .. Round : Found(j)]
    BY DEF task_getnextrun
  <2>2. k \in 1 .. Round
    BY <1>2, WalkRound
  <2> HIDE DEF Found
  <2>3. QED
    BY <1>3, <2>1, <2>2
<1>a. task_getnextrun(st) \in used
  BY <1>1, <1>2, <1>4, WalkIn, CountFacts
<1> DEFINE C == K!Candidates(st)
<1>5. C = {t \in 0 .. Count - 1 : t # task_cur /\ st[t] = "READY"}
  BY DEF K!Candidates, K!Live, K!READY, Count
<1>6. ASSUME NEW t \in 0 .. Count - 1, t # task_cur
      PROVE  /\ K!Dist(task_cur, t) \in 1 .. Count - 1
             /\ At[K!Dist(task_cur, t)] = t
  BY <1>1, <1>6, WalkRound DEF K!Dist, Count
<1>7. CASE k = Count
  <2>1. C = {}
    <3>1. SUFFICES ASSUME NEW t \in C
                   PROVE  FALSE
      OBVIOUS
    <3>2. K!Dist(task_cur, t) \in Stop /\ K!Dist(task_cur, t) < Count
      BY <1>1, <1>5, <1>6
    <3>3. QED
      BY <1>1, <1>2, <1>7, <3>2
  <2>2. QED
    BY <1>4, <1>7, <1>a, <2>1, WalkRound DEF K!task_getnextrun
<1>8. CASE k # Count
  <2>1. k \in 1 .. Count - 1 /\ st[At[k]] = "READY"
    BY <1>1, <1>2, <1>8, CountFacts
  <2>2. At[k] \in C /\ K!Dist(task_cur, At[k]) = k
    BY <1>1, <1>5, <2>1, WalkRound DEF K!Dist, Count
  <2>3. \A u \in C : /\ k <= K!Dist(task_cur, u)
                     /\ K!Dist(task_cur, u) = k => u = At[k]
    <3>1. ASSUME NEW u \in C
          PROVE  K!Dist(task_cur, u) \in Stop /\ At[K!Dist(task_cur, u)] = u
      BY <1>1, <1>5, <1>6
    <3>2. QED
      BY <1>2, <3>1
  <2>4. \A u \in C : (\A v \in C : K!Dist(task_cur, u) <= K!Dist(task_cur, v))
                       <=> u = At[k]
    <3>1. ASSUME NEW u \in C
          PROVE  K!Dist(task_cur, u) \in Int
      BY <1>5, <1>6, <1>1
    <3> HIDE DEF C
    <3>2. QED
      BY <2>1, <2>2, <2>3, <3>1
  <2>5. K!task_getnextrun(st) =
           CHOOSE t \in C : \A u \in C : K!Dist(task_cur, t) <= K!Dist(task_cur, u)
    BY <2>2 DEF K!task_getnextrun
  <2> HIDE DEF C
  <2>6. QED
    BY <1>4, <1>a, <2>2, <2>4, <2>5
<1>9. QED
  BY <1>7, <1>8, <1>a

-----------------------------------------------------------------------------
(* The steps: each keeps the invariant, and is one of Kernel. *)

RingAll == RingInv /\ PickInv /\ ShowInv

\* What the invariant says of the slots does not mention the scheduler.
LEMMA SameRing ==
    ASSUME RingInv, UNCHANGED ringVars, task_cur' \in used,
           \A t \in used : picked'[t] \in {NULL, Count},
           DOMAIN task_state' = Slot,
           task_state' = [t \in Slot |-> task_state'[t]],
           task_sleeptime' = [t \in Slot |-> task_sleeptime'[t]]
    PROVE  RingInv'
BY DEF RingInv, RingInOrder, ringVars, Count

LEMMA SamePickShow ==
    ASSUME PickInv, ShowInv, UNCHANGED <<ringVars, picked, show>>
    PROVE  PickInv' /\ ShowInv'
BY DEF PickInv, ShowInv, ringVars, Count

\* The states a switch leaves behind.
LEMMA SwitchFromEffect ==
    ASSUME RingInv, NEW st, NEW old, st = [t \in Slot |-> st[t]],
           SwitchFrom(st, old)
    PROVE  /\ task_cur' \in used
           /\ DOMAIN task_state' = Slot
           /\ task_state' = [t \in Slot |-> task_state'[t]]
<1>1. task_cur \in used /\ task_getnextrun(st) \in used
  BY SameNextrun DEF RingInv, RingInOrder
<1> DEFINE after == [st EXCEPT ![task_cur] = old, ![task_getnextrun(st)] = "RUN"]
<1>2. DOMAIN st = Slot
  OBVIOUS
<1>3. DOMAIN after = Slot /\ after = [t \in Slot |-> after[t]]
  BY <1>2
<1>4. task_cur' \in used /\ (task_state' = after \/ task_state' = st)
  BY <1>1 DEF SwitchFrom
<1>5. QED
  BY <1>2, <1>3, <1>4

\* The tasks the clock interrupt looks at are the others in the table.
LEMMA Others ==
    ASSUME RingInv
    PROVE  {At[k] : k \in 1 .. Round - 1} = (0 .. Count - 1) \ {task_cur}
<1>1. Count \in Nat \ {0} /\ task_cur \in 0 .. Count - 1 /\ Round = Count
  BY CountFacts, WalkRound
<1>2. ASSUME NEW k \in 1 .. Count - 1
      PROVE  At[k] \in (0 .. Count - 1) \ {task_cur}
  BY <1>1, WalkRound
<1>3. ASSUME NEW t \in (0 .. Count - 1) \ {task_cur}
      PROVE  \E k \in 1 .. Count - 1 : At[k] = t
  <2>1. CASE t > task_cur
    <3>1. t - task_cur \in 1 .. Count - 1 /\ task_cur + (t - task_cur) = t
      BY <1>1, <2>1
    <3>2. At[t - task_cur] = t
      BY <1>1, <3>1, WalkRound
    <3>3. QED
      BY <3>1, <3>2
  <2>2. CASE t < task_cur
    <3>1. /\ t - task_cur + Count \in 1 .. Count - 1
          /\ task_cur + (t - task_cur + Count) - Count = t
          /\ ~(task_cur + (t - task_cur + Count) < Count)
      BY <1>1, <2>2
    <3>2. At[t - task_cur + Count] = t
      BY <1>1, <3>1, WalkRound
    <3>3. QED
      BY <3>1, <3>2
  <2>3. QED
    BY <1>1, <2>1, <2>2
<1>4. QED
  BY <1>1, <1>2, <1>3

LEMMA TickStep ==
    ASSUME RingAll, task_tickdo
    PROVE  RingAll' /\ K!Tick
<1> DEFINE others == {At[k] : k \in 1 .. Round - 1}
           counting == {t \in others : /\ task_state[t] \notin {"READY", "RUN"}
                                       /\ task_sleeptime[t] # 0}
           due == {t \in counting : task_sleeptime[t] = 1}
           st == [t \in Slot |-> IF t \in due THEN "READY" ELSE task_state[t]]
<1>1. RingInv /\ PickInv /\ ShowInv
  BY DEF RingAll
<1>2. /\ ticknum' = IF ticknum + 1 = TICK_WRAP THEN 0 ELSE ticknum + 1
      /\ task_sleeptime' = [t \in Slot |-> IF t \in counting THEN task_sleeptime[t] - 1
                                                             ELSE task_sleeptime[t]]
      /\ SwitchFrom(st, "READY")
      /\ UNCHANGED <<ringVars, task_sched_sign, picked, show>>
  BY DEF task_tickdo
<1>3. others = (0 .. Count - 1) \ {task_cur}
  BY <1>1, Others
<1>4. counting = K!Sleeping /\ due = K!Due
  <2> HIDE DEF others
  <2>1. QED
    BY <1>3 DEF K!Sleeping, K!Due, K!Live, K!READY, K!RUN, Count
<1>5. st = [t \in Slot |-> st[t]]
  OBVIOUS
<1> HIDE DEF counting, due
<1>6. st = [t \in K!Slot |-> IF t \in K!Due THEN K!READY ELSE task_state[t]]
  BY <1>4 DEF K!Slot, Slot, K!READY
<1> HIDE DEF st
<1>7. RingAll'
  <2>1. task_cur' \in used /\ DOMAIN task_state' = Slot
        /\ task_state' = [t \in Slot |-> task_state'[t]]
    BY <1>1, <1>2, <1>5, SwitchFromEffect
  <2>2. task_sleeptime' = [t \in Slot |-> task_sleeptime'[t]]
    BY <1>2
  <2>3. \A t \in used : picked'[t] \in {NULL, Count}
    BY <1>1, <1>2 DEF RingInv, RingInOrder, Count
  <2>4. QED
    BY <1>1, <1>2, <2>1, <2>2, <2>3, SameRing, SamePickShow DEF RingAll
<1>8. K!task_nextrun(st)
  BY <1>1, <1>2, SameNextrun
     DEF SwitchFrom, needsched, K!task_nextrun, K!task_needsched, K!UNLOCK, K!READY, K!RUN
<1>9. K!TickTasks
  BY <1>2, <1>4, <1>6, <1>8 DEF K!TickTasks, ringVars, K!Slot, Slot
<1>10. K!Unlink(K!Due)
  BY <1>2 DEF K!Unlink, K!Slot, Slot
<1>11. QED
  BY <1>7, <1>9, <1>10 DEF K!Tick

LEMMA DelayStep ==
    ASSUME RingAll, NEW d \in Delay, task_delay(d)
    PROVE  RingAll' /\ K!Sleep(d)
<1> DEFINE st == [task_state EXCEPT ![task_cur] = "PEND"]
<1>1. RingInv /\ PickInv /\ ShowInv /\ task_cur \in Slot /\ DOMAIN task_state = Slot
  BY CountFacts DEF RingAll, RingInv, RingInOrder
<1>2. /\ task_cur # task_head /\ task_sched_sign = "UNLOCK"
      /\ task_sleeptime' = [task_sleeptime EXCEPT ![task_cur] = d]
      /\ SwitchFrom(st, "PEND")
      /\ UNCHANGED <<ringVars, task_sched_sign, ticknum, picked, show>>
  BY DEF task_delay
<1>3. DOMAIN st = Slot /\ st = [t \in Slot |-> st[t]] /\ st[task_cur] = "PEND"
  BY <1>1
<1>4. RingAll'
  <2> HIDE DEF st
  <2>1. task_cur' \in used /\ DOMAIN task_state' = Slot
        /\ task_state' = [t \in Slot |-> task_state'[t]]
    BY <1>1, <1>2, <1>3, SwitchFromEffect
  <2>2. task_sleeptime' = [t \in Slot |-> task_sleeptime'[t]]
    BY <1>1, <1>2 DEF RingInv
  <2>3. \A t \in used : picked'[t] \in {NULL, Count}
    BY <1>1, <1>2 DEF RingInv, RingInOrder, Count
  <2>4. QED
    BY <1>1, <1>2, <2>1, <2>2, <2>3, SameRing, SamePickShow DEF RingAll
<1>5. K!task_sched(st)
  <2> HIDE DEF st
  <2>1. st = [st EXCEPT ![task_cur] = "PEND"]
    BY <1>1, <1>3
  <2> DEFINE n == task_getnextrun(st)
  <2>2. [st EXCEPT ![task_cur] = "PEND", ![n] = "RUN"] = [st EXCEPT ![n] = "RUN"]
    <3> HIDE DEF n
    <3>1. QED
      BY <1>1, <1>3
  <2>3. QED
    BY <1>1, <1>2, <2>2, SameNextrun
       DEF SwitchFrom, needsched, K!task_sched, K!task_needsched, K!UNLOCK, K!RUN
<1>6. K!task_delay(d)
  BY <1>2, <1>5 DEF K!task_delay, K!BlockCur, K!Idle, task_head, K!PEND, ringVars
<1>7. QED
  BY <1>2, <1>4, <1>6
     DEF K!Sleep, K!MayBlock, K!Idle, task_head, K!UNLOCK, K!listVars

LEMMA SignStep ==
    ASSUME RingAll, NEW sign \in {"LOCK", "UNLOCK"}, SetSchedSign(sign)
    PROVE  RingAll' /\ (K!Lock \/ K!Unlock)
<1>1. RingAll'
  BY SameRing, SamePickShow
     DEF SetSchedSign, RingAll, RingInv, RingInOrder, Count, PickInv, ShowInv, ringVars
<1>2. K!Lock \/ K!Unlock
  BY DEF SetSchedSign, K!Lock, K!Unlock, K!task_locksched, K!task_unlocksched,
         K!SetSchedSign, K!LOCK, K!UNLOCK, K!listVars, ringVars
<1>3. QED
  BY <1>1, <1>2

LEMMA PickStep ==
    ASSUME RingAll, task_get_resource
    PROVE  RingAll' /\ UNCHANGED K!vars
<1>1. /\ Count \in Nat \ {0} /\ Count <= TASK_INIT_NUM /\ TASK_INIT_NUM \in Nat
      /\ used = 0 .. Count - 1 /\ task_cur \in 0 .. Count - 1 /\ task_cur \in Slot
      /\ RingInv /\ PickInv /\ ShowInv
  BY CountFacts DEF RingAll
<1>2. Count < TASK_INIT_NUM /\ Count \in Slot \ used
      /\ \A r \in Slot \ used : Count <= r
  BY <1>1 DEF task_get_resource, Slot
<1>3. (CHOOSE s \in Slot \ used : \A r \in Slot \ used : s <= r) = Count
  <2> HIDE DEF Count
  <2>1. \A s \in Slot \ used : (\A r \in Slot \ used : s <= r) => s = Count
    BY <1>1, <1>2 DEF Slot
  <2>2. QED
    BY <1>2, <2>1
<1>4. /\ picked' = [picked EXCEPT ![task_cur] = Count]
      /\ \A t \in Slot : picked[t] = NULL
      /\ UNCHANGED <<ringVars, schedVars, show>>
  BY <1>3 DEF task_get_resource, MayCreate
<1>5. RingInv'
  BY <1>1, <1>4, SameRing DEF RingInv, RingInOrder, Count, PickInv, schedVars
<1>6. PickInv'
  BY <1>1, <1>2, <1>4 DEF PickInv, ringVars, Count
<1>7. ShowInv'
  BY <1>1, <1>4 DEF ShowInv, ringVars
<1>8. QED
  BY <1>4, <1>5, <1>6, <1>7
     DEF RingAll, K!vars, K!taskVars, K!listVars, ringVars, schedVars

LEMMA CreateStep ==
    ASSUME RingAll, task_create
    PROVE  RingAll' /\ K!Create
<1>1. /\ Count \in Nat \ {0} /\ Count <= TASK_INIT_NUM /\ TASK_INIT_NUM \in Nat
      /\ used = 0 .. Count - 1 /\ task_cur \in 0 .. Count - 1 /\ task_cur \in Slot
      /\ task_tail = Count - 1
      /\ RingInv /\ PickInv /\ ShowInv
  BY CountFacts DEF RingAll, RingInv, RingInOrder, Count
<1>a. picked[task_cur] # NULL
  BY DEF task_create
<1>2. picked[task_cur] = Count /\ Count < TASK_INIT_NUM /\ Count \in Slot
  BY <1>1 DEF RingInv, RingInOrder, PickInv, task_create, Count, Slot
<1>3. /\ used' = used \cup {Count}
      /\ task_sleeptime' = [task_sleeptime EXCEPT ![Count] = 0]
      /\ task_state' = [task_state EXCEPT ![Count] = "READY"]
      /\ next' = [next EXCEPT ![task_tail] = Count, ![Count] = task_head]
      /\ task_tail' = Count
      /\ picked' = [picked EXCEPT ![task_cur] = NULL]
      /\ UNCHANGED <<task_cur, task_sched_sign, ticknum, show>>
  BY <1>2 DEF task_create, NewTail
<1>4. used' = 0 .. Count
  BY <1>1, <1>3
<1>5. Count' = Count + 1
  <2>1. Cardinality(0 .. Count) = Count + 1
    BY <1>1, FS_Interval
  <2>2. QED
    BY <1>4, <2>1 DEF Count
<1>6. \A t \in Slot : picked'[t] = NULL
  <2>1. \A t \in Slot : t # task_cur => picked[t] = NULL
    BY <1>1, <1>2, <1>a DEF PickInv
  <2>2. DOMAIN picked = Slot
    BY <1>1 DEF PickInv
  <2> HIDE DEF Count
  <2>3. QED
    BY <1>3, <2>1, <2>2
<1> HIDE DEF Count
<1>7. \A s \in used' : next'[s] = (s + 1) % (Count + 1)
  <2> SUFFICES ASSUME NEW s \in 0 .. Count
               PROVE  next'[s] = (s + 1) % (Count + 1)
    BY <1>4
  <2>0. next \in [Slot -> Slot \cup {NULL}] /\ Count - 1 \in Slot /\ s \in Slot
    BY <1>1, <1>2 DEF RingInv, Slot
  <2>1. CASE s = Count
    BY <1>1, <1>3, <2>0, <2>1 DEF task_head
  <2>2. CASE s = Count - 1
    BY <1>1, <1>3, <2>0, <2>2
  <2>3. CASE s \in 0 .. Count - 2
    <3>1. next'[s] = next[s] /\ s \in used
      BY <1>1, <1>3, <2>0, <2>3
    <3>2. next[s] = (s + 1) % Count
      BY <1>1, <3>1, CountFacts
    <3>3. QED
      BY <1>1, <2>3, <3>1, <3>2
  <2>4. QED
    BY <1>1, <2>1, <2>2, <2>3
<1>8. RingInv'
  <2>1. RingInOrder'
    <3>1. used' = 0 .. Count' - 1 /\ task_tail' = Count' - 1 /\ task_cur' \in used'
      BY <1>1, <1>3, <1>4, <1>5
    <3>2. \A t \in used' : picked'[t] \in {NULL, Count'}
      BY <1>1, <1>2, <1>4, <1>6 DEF Slot
    <3>3. \A r \in used' : next'[r] = (r + 1) % Count'
      BY <1>5, <1>7
    <3>4. QED
      BY <3>1, <3>2, <3>3 DEF RingInOrder, Count
  <2>2. next' \in [Slot -> Slot \cup {NULL}]
    BY <1>1, <1>2, <1>3 DEF RingInv, task_head, Slot
  <2>3. /\ DOMAIN task_state' = Slot
        /\ task_state' = [t \in Slot |-> task_state'[t]]
        /\ task_sleeptime' = [t \in Slot |-> task_sleeptime'[t]]
    BY <1>1, <1>3 DEF RingInv
  <2>4. QED
    BY <1>1, <1>2, <1>5, <2>1, <2>2, <2>3 DEF RingInv
<1>9. PickInv' /\ ShowInv'
  BY <1>1, <1>3, <1>6 DEF PickInv, ShowInv
<1>10. K!Create
  BY <1>2, <1>3, <1>5 DEF K!Create, K!task_create, K!listVars, K!READY, Count
<1>11. QED
  BY <1>8, <1>9, <1>10 DEF RingAll

LEMMA ShowStep ==
    ASSUME RingAll, task_show
    PROVE  RingAll' /\ UNCHANGED K!vars
<1>1. RingInv' /\ PickInv'
  BY SameRing
     DEF task_show, RingAll, RingInv, RingInOrder, Count, PickInv, ringVars, schedVars
<1>2. ShowInv'
  <2>1. task_head \in used /\ task_head = 0
    BY CountFacts DEF RingAll, task_head
  <2>2. << >> = [k \in 1 .. 0 |-> k - 1]
    OBVIOUS
  <2>3. QED
    BY <2>1, <2>2 DEF task_show, ShowInv, ringVars
<1>3. QED
  BY <1>1, <1>2
     DEF task_show, RingAll, K!vars, K!taskVars, K!listVars, ringVars, schedVars

\* The walk of task_show goes one task further, or has listed them all.
LEMMA ShowNextStep ==
    ASSUME RingAll, ShowNext
    PROVE  /\ RingAll' /\ UNCHANGED K!vars
           /\ show'.by = NULL => show'.listed = [k \in 1 .. Count |-> k - 1]
<1>1. /\ Count \in Nat \ {0} /\ used = 0 .. Count - 1 /\ task_cur \in 0 .. Count - 1
      /\ RingInv /\ PickInv /\ ShowInv
      /\ \A s \in used : next[s] = (s + 1) % Count
  BY CountFacts DEF RingAll
<1> DEFINE n == show.at
<1>2. n \in 0 .. Count - 1 /\ show.listed = [k \in 1 .. n |-> k - 1]
  BY <1>1 DEF ShowInv, ShowNext, NULL
<1>3. show'.listed = [k \in 1 .. n + 1 |-> k - 1]
  <2>1. show'.listed = Append(show.listed, n)
    BY DEF ShowNext
  <2>2. Append([k \in 1 .. n |-> k - 1], n) = [k \in 1 .. n + 1 |-> k - 1]
    <3>1. n \in Nat
      BY <1>1, <1>2
    <3> HIDE DEF n
    <3> DEFINE f == [k \in 1 .. n |-> k - 1]
               g == [k \in 1 .. n + 1 |-> k - 1]
    <3>2. f \in Seq(Int) /\ Len(f) = n
      BY <3>1
    <3>3. /\ Append(f, n) \in Seq(Int) /\ Len(Append(f, n)) = n + 1
          /\ \A k \in 1 .. n : Append(f, n)[k] = f[k]
          /\ Append(f, n)[n + 1] = n
      <4> HIDE DEF f
      <4>1. QED
        BY <3>1, <3>2, AppendProperties
    <3>4. \A k \in 1 .. n + 1 : Append(f, n)[k] = g[k]
      BY <3>1, <3>3
    <3>5. g \in Seq(Int) /\ Len(g) = n + 1
      BY <3>1
    <3>6. QED
      BY <3>1, <3>3, <3>4, <3>5, SeqEqual
  <2>3. QED
    BY <1>2, <2>1, <2>2
<1>4. next[n] = IF n = Count - 1 THEN 0 ELSE n + 1
  <2> HIDE DEF n, Count
  <2>1. next[n] = (n + 1) % Count
    BY <1>1, <1>2
  <2>2. CASE n = Count - 1
    <3>1. (n + 1) % Count = 0
      BY <1>1, <2>2
    <3>2. QED
      BY <2>1, <2>2, <3>1
  <2>3. CASE n \in 0 .. Count - 2
    <3>1. n + 1 \in 1 .. Count - 1
      BY <1>1, <2>3
    <3>2. (n + 1) % Count = n + 1
      BY <1>1, <3>1, OwnRemainder
    <3>3. QED
      BY <1>1, <2>1, <2>3, <3>2
  <2>4. QED
    BY <1>1, <1>2, <2>2, <2>3
<1>5. UNCHANGED <<ringVars, schedVars, picked>>
  BY DEF ShowNext
<1>6. RingInv' /\ PickInv'
  BY <1>1, <1>5, SameRing
     DEF RingInv, RingInOrder, Count, PickInv, ringVars, schedVars
<1>7. show'.at = next[n] /\ show'.by = IF next[n] = 0 THEN NULL ELSE task_cur
  BY DEF ShowNext, ShowEnds, task_head
<1>8. ShowInv'
  <2> SUFFICES ASSUME show'.by # NULL
               PROVE  /\ show'.at \in used'
                      /\ show'.listed = [k \in 1 .. show'.at |-> k - 1]
    BY DEF ShowInv
  <2>1. show'.at = n + 1 /\ n + 1 \in 0 .. Count - 1
    BY <1>1, <1>2, <1>4, <1>7
  <2>2. used' = used
    BY <1>5 DEF ringVars
  <2>3. QED
    BY <1>1, <1>3, <2>1, <2>2
<1>9. show'.by = NULL => show'.listed = [k \in 1 .. Count |-> k - 1]
  <2> SUFFICES ASSUME show'.by = NULL
               PROVE  n + 1 = Count
    BY <1>3
  <2>1. QED
    BY <1>1, <1>2, <1>4, <1>7 DEF NULL
<1>10. QED
  BY <1>5, <1>6, <1>8, <1>9 DEF RingAll, K!vars, K!taskVars, K!listVars, ringVars, schedVars

LEMMA RingStep ==
    ASSUME RingAll, [Next]_vars
    PROVE  RingAll' /\ [K!Next]_(K!vars)
<1>1. CASE task_tickdo
  BY <1>1, TickStep DEF K!Next
<1>2. ASSUME NEW d \in Delay, task_delay(d)
      PROVE  RingAll' /\ [K!Next]_(K!vars)
  BY <1>2, DelayStep DEF K!Next
<1>3. CASE SetSchedSign("LOCK") \/ SetSchedSign("UNLOCK")
  BY <1>3, SignStep DEF K!Next
<1>4. CASE task_get_resource
  BY <1>4, PickStep
<1>5. CASE task_create
  BY <1>5, CreateStep DEF K!Next
<1>6. CASE task_show
  BY <1>6, ShowStep
<1>7. CASE ShowNext
  BY <1>7, ShowNextStep
<1>8. CASE UNCHANGED vars
  BY <1>8 DEF vars, RingAll, RingInv, RingInOrder, Count, PickInv, ShowInv, ringVars,
              schedVars, K!vars, K!taskVars, K!listVars
<1>9. QED
  BY <1>1, <1>2, <1>3, <1>4, <1>5, <1>6, <1>7, <1>8 DEF Next

LEMMA RingStart == Init => RingAll /\ K!Init
<1> SUFFICES ASSUME Init
             PROVE  RingAll /\ K!Init
  OBVIOUS
<1>1. Count = 1
  BY FS_Singleton DEF Init, Count, task_head
<1>2. RingInv
  <2>1. RingInOrder
    BY <1>1, TaskRingAssumption DEF Init, RingInOrder, Count, task_head, Slot
  <2>2. QED
    BY <1>1, <2>1, TaskRingAssumption DEF Init, RingInv, task_head, Slot
<1>3. PickInv /\ ShowInv
  BY DEF Init, PickInv, ShowInv, NoShow
<1>4. K!Init
  BY <1>1 DEF Init, K!Init, K!TaskInit, K!Slot, Slot, K!Idle, K!READY, K!UNUSED,
              K!UNLOCK, task_head, Count
<1>5. QED
  BY <1>2, <1>3, <1>4 DEF RingAll

LEMMA RingInvariance == Spec => []RingAll
<1>1. RingAll /\ [Next]_vars => RingAll'
  BY RingStep
<1>2. QED
  BY <1>1, RingStart, PTL DEF Spec

(* The circular list is 0 -> 1 -> ... -> 0 over exactly the slots in use,   *)
(* and the slot that task_get_resource has found is still the first free    *)
(* one when task_create comes to use it, whatever interrupts and switches   *)
(* came in between, for any number of slots.                                *)
THEOREM RingStaysInOrder == Spec => []RingInOrder
<1>1. RingAll => RingInOrder
  BY DEF RingAll, RingInv
<1>2. QED
  BY <1>1, RingInvariance, PTL

(* The walks along next do what the abstract scheduler of Kernel does: each *)
(* step on the ring is a step of Kernel or leaves it as it is.              *)
THEOREM RingImplementsKernel == Spec => ImplementsKernel
<1>1. RingAll /\ [Next]_vars => [K!Next]_(K!vars)
  BY RingStep
<1>2. QED
  BY <1>1, RingStart, RingInvariance, PTL DEF Spec, ImplementsKernel, K!Spec

(* task_show lists every task once, in order, those that are created while  *)
(* it prints included.                                                      *)
THEOREM ListingIsComplete == Spec => ListingComplete
<1>1. ASSUME RingAll, [Next]_vars, show.by # NULL, show'.by = NULL
      PROVE  show'.listed = [k \in 1 .. Count |-> k - 1]
  <2>1. ShowNext
    BY <1>1 DEF Next, vars, task_tickdo, task_delay, SetSchedSign, task_get_resource,
                task_create, task_show
  <2>2. QED
    BY <1>1, <2>1, ShowNextStep
<1>2. RingAll /\ [Next]_vars =>
        [show.by # NULL /\ show'.by = NULL =>
            show'.listed = [k \in 1 .. Cardinality(used) |-> k - 1]]_vars
  BY <1>1 DEF Count
<1>3. QED
  BY <1>2, RingInvariance, PTL DEF Spec, ListingComplete
=============================================================================
