---------------------------- MODULE KernelProofs ----------------------------
(***************************************************************************)
(* Proofs about Kernel and KernelTime: type correctness, the invariant     *)
(* Inv, the action properties NoOvertaking, LockKeepsProcessor and         *)
(* NoQueueJumping, and that a wait with a timeout ends on time, for any    *)
(* number of task slots, any objects and any delays.                       *)
(*                                                                         *)
(* Inv is inductive as it stands.  The round robin is dealt with once, in  *)
(* the lemmas about task_getnextrun, task_sched and task_nextrun, which    *)
(* say where a switch may lead; the steps of Kernel then need no more than *)
(* that.                                                                   *)
(***************************************************************************)
EXTENDS KernelTime, WellFoundedInduction, TLAPS

-----------------------------------------------------------------------------
(* The round robin. *)

\* A nonempty set of naturals has a least element.
LEMMA LeastNat ==
    \A T \in SUBSET Nat : T # {} => \E x \in T : \A y \in T : x <= y
<1> SUFFICES ASSUME NEW T \in SUBSET Nat, T # {}
             PROVE  \E x \in T : \A y \in T : x <= y
  OBVIOUS
<1> DEFINE R == {ss \in Nat \X Nat : ss[1] < ss[2]}
<1>1. IsWellFoundedOn(R, Nat)
  BY NatLessThanWellFounded DEF OpToRel
<1>2. PICK x \in T : \A y \in T : ~ (<<y, x>> \in R)
  <2> HIDE DEF R
  <2> QED BY <1>1, WFMin
<1>3. \A y \in T : ~ (y < x)
  BY <1>2
<1>4. QED
  BY <1>3

LEMMA LiveIsSlot == TaskTypeOK => Live \subseteq Slot
BY TaskAssumption DEF TaskTypeOK, Live, Slot

LEMMA IdleIsSlot == Idle \in Slot
BY TaskAssumption DEF Idle, Slot

\* The walk along the circular list finds the nearest READY task, if any.
LEMMA NearestCandidate ==
    ASSUME NEW st, TaskTypeOK, task_cur \in Live, Candidates(st) # {}
    PROVE  /\ task_getnextrun(st) \in Candidates(st)
           /\ \A u \in Candidates(st) :
                 Dist(task_cur, task_getnextrun(st)) <= Dist(task_cur, u)
<1> DEFINE D == {Dist(task_cur, u) : u \in Candidates(st)}
<1>1. \A u \in Candidates(st) : Dist(task_cur, u) \in Nat
  BY DEF Candidates, Dist, Live, TaskTypeOK, Slot
<1>2. D \subseteq Nat /\ D # {}
  BY <1>1
<1>3. PICK d \in D : \A e \in D : d <= e
  <2> HIDE DEF D
  <2> QED BY <1>2, LeastNat
<1>4. PICK t \in Candidates(st) : d = Dist(task_cur, t)
  BY <1>3
<1>5. \A u \in Candidates(st) : Dist(task_cur, t) <= Dist(task_cur, u)
  BY <1>3, <1>4
<1>6. QED
  BY <1>5 DEF task_getnextrun

\* Where the switch at the end of a blocking call leads: to the nearest
\* READY task, of which the idle task is one.
LEMMA SchedEffect ==
    ASSUME NEW st, TaskTypeOK, task_cur \in Live, task_cur # Idle,
           st[Idle] = READY, task_sched_sign = UNLOCK, task_sched(st)
    PROVE  \E n \in Candidates(st) :
              /\ task_cur' = n
              /\ task_state' = [st EXCEPT ![n] = RUN]
              /\ \A u \in Candidates(st) : Dist(task_cur, n) <= Dist(task_cur, u)
<1>1. Idle \in Candidates(st)
  BY DEF Candidates, Live, Idle, TaskTypeOK
<1>2. task_getnextrun(st) \in Candidates(st)
  BY <1>1, NearestCandidate
<1>3. task_needsched(st)
  BY <1>2 DEF task_needsched, Candidates
<1>4. QED
  BY <1>1, <1>2, <1>3, NearestCandidate DEF task_sched

\* Where the switch at the end of the clock interrupt leads: nowhere, or to
\* the nearest READY task when the scheduler is not locked.
LEMMA NextrunEffect ==
    ASSUME NEW st, TaskTypeOK, task_cur \in Live, task_nextrun(st)
    PROVE  \/ task_cur' = task_cur /\ task_state' = st
           \/ \E n \in Candidates(st) :
                 /\ task_sched_sign = UNLOCK
                 /\ task_cur' = n
                 /\ task_state' = [st EXCEPT ![task_cur] = READY, ![n] = RUN]
                 /\ \A u \in Candidates(st) : Dist(task_cur, n) <= Dist(task_cur, u)
<1>1. CASE Candidates(st) = {}
  BY <1>1 DEF task_nextrun, task_needsched, task_getnextrun
<1>2. CASE Candidates(st) # {}
  BY <1>2, NearestCandidate DEF task_nextrun, task_needsched
<1>3. QED
  BY <1>1, <1>2

-----------------------------------------------------------------------------
(* Inv holds of the initial state, and every step keeps it. *)

\* What blocking does to the table of tasks.
LEMMA BlockEffect ==
    ASSUME Inv, MayBlock, NEW d \in Delay, BlockCur(d)
    PROVE  \E n \in Live \ {task_cur} :
              /\ task_state[n] = READY
              /\ task_cur' = n
              /\ task_state' = [task_state EXCEPT ![task_cur] = PEND, ![n] = RUN]
              /\ task_sleeptime' = [task_sleeptime EXCEPT ![task_cur] = d]
              /\ UNCHANGED <<ntask, task_sched_sign, ticknum>>
<1> DEFINE st == [task_state EXCEPT ![task_cur] = PEND]
<1>1. task_sched(st) /\ task_cur \in Live /\ task_cur # Idle /\ TaskTypeOK
      /\ task_sched_sign = UNLOCK
  BY DEF BlockCur, MayBlock, Inv, TypeOK, TableInUse
<1>2. st[Idle] = READY
  BY <1>1, IdleIsSlot DEF Inv, IdleReady, OneRunning, TaskTypeOK
<1>3. PICK n \in Candidates(st) : task_cur' = n /\ task_state' = [st EXCEPT ![n] = RUN]
  <2> HIDE DEF st
  <2> QED BY <1>1, <1>2, SchedEffect
<1>4. n \in Live \ {task_cur} /\ task_state[n] = READY
  BY <1>1, LiveIsSlot DEF Candidates, TaskTypeOK
<1>5. task_state' = [task_state EXCEPT ![task_cur] = PEND, ![n] = RUN]
  BY <1>1, <1>3, <1>4 DEF TaskTypeOK
<1>6. QED
  BY <1>3, <1>4, <1>5 DEF BlockCur

\* The part of Inv that does not mention the wait lists.
LEMMA BlockTaskInv ==
    ASSUME Inv, MayBlock, NEW d \in Delay, BlockCur(d)
    PROVE  TaskTypeOK' /\ TableInUse' /\ OneRunning' /\ IdleReady'
<1>1. PICK n \in Live \ {task_cur} :
              /\ task_state[n] = READY
              /\ task_cur' = n
              /\ task_state' = [task_state EXCEPT ![task_cur] = PEND, ![n] = RUN]
              /\ task_sleeptime' = [task_sleeptime EXCEPT ![task_cur] = d]
              /\ UNCHANGED <<ntask, task_sched_sign, ticknum>>
  BY BlockEffect
<1>2. TaskTypeOK /\ Live \subseteq Slot /\ d \in Nat /\ n \in Slot /\ task_cur \in Slot
  BY <1>1, LiveIsSlot, TaskAssumption DEF Inv, TypeOK, TableInUse
<1>3. TaskTypeOK'
  BY <1>1, <1>2 DEF TaskTypeOK, Slot
<1>4. TableInUse'
  BY <1>1, <1>2 DEF Inv, TableInUse, TaskTypeOK, Live, Slot, UNUSED, PEND, RUN
<1>5. OneRunning'
  BY <1>1, <1>2 DEF Inv, OneRunning, TaskTypeOK, RUN, PEND, Slot
<1>6. IdleReady'
  BY <1>1, <1>2, IdleIsSlot DEF Inv, IdleReady, MayBlock, TaskTypeOK
<1>7. QED
  BY <1>3, <1>4, <1>5, <1>6

LEMMA SleepInv ==
    ASSUME Inv, NEW d \in Delay, Sleep(d)
    PROVE  Inv'
<1>1. MayBlock /\ BlockCur(d) /\ UNCHANGED listVars
  BY DEF Sleep, task_delay
<1>2. TaskTypeOK' /\ TableInUse' /\ OneRunning' /\ IdleReady'
  BY <1>1, BlockTaskInv
<1>3. PICK n \in Live \ {task_cur} :
              /\ task_state[n] = READY
              /\ task_cur' = n
              /\ task_state' = [task_state EXCEPT ![task_cur] = PEND, ![n] = RUN]
              /\ task_sleeptime' = [task_sleeptime EXCEPT ![task_cur] = d]
  BY <1>1, BlockEffect
<1>4. WaitingIsPending'
  BY <1>1, <1>3 DEF Inv, TypeOK, TaskTypeOK, WaitingIsPending, listVars, READY, PEND
<1>5. TypeOK' /\ ListsInOrder'
  BY <1>1, <1>2 DEF Inv, TypeOK, ListsInOrder, listVars
<1>6. QED
  BY <1>2, <1>4, <1>5 DEF Inv

LEMMA WaitInv ==
    ASSUME Inv, NEW o \in Obj, NEW d \in Delay, Wait(o, d)
    PROVE  Inv'
<1>1. /\ MayBlock /\ BlockCur(d)
      /\ wait_id' = [wait_id EXCEPT ![task_cur] = o]
      /\ ahead' = [ahead EXCEPT ![task_cur] = Waiters(o)]
  BY DEF Wait
<1>2. TaskTypeOK' /\ TableInUse' /\ OneRunning' /\ IdleReady'
  BY <1>1, BlockTaskInv
<1>3. PICK n \in Live \ {task_cur} :
              /\ task_state[n] = READY
              /\ task_cur' = n
              /\ task_state' = [task_state EXCEPT ![task_cur] = PEND, ![n] = RUN]
              /\ task_sleeptime' = [task_sleeptime EXCEPT ![task_cur] = d]
  BY <1>1, BlockEffect
<1>4. TypeOK'
  BY <1>1, <1>2 DEF Inv, TypeOK, Waiters
<1>5. WaitingIsPending'
  BY <1>1, <1>3 DEF Inv, TypeOK, TaskTypeOK, WaitingIsPending, READY, PEND
<1>6. wait_id[task_cur] = NULL
  BY DEF Inv, OneRunning, WaitingIsPending, TypeOK, TaskTypeOK, RUN, READY, PEND
<1>7. ListsInOrder'
  BY <1>1, <1>6, KernelAssumption DEF Inv, TypeOK, TaskTypeOK, ListsInOrder, Waiters
<1>8. QED
  BY <1>2, <1>4, <1>5, <1>7 DEF Inv

\* Taking tasks off the lists leaves the lists in order.
LEMMA UnlinkLists ==
    ASSUME Inv, NEW S \in SUBSET Slot, Unlink(S)
    PROVE  /\ wait_id' \in [Slot -> Obj \cup {NULL}]
           /\ ahead' \in [Slot -> SUBSET Slot]
           /\ ListsInOrder'
<1>1. /\ wait_id' = [t \in Slot |-> IF t \in S THEN NULL ELSE wait_id[t]]
      /\ ahead' = [t \in Slot |-> IF t \in S THEN {} ELSE ahead[t] \ S]
  BY DEF Unlink
<1>2. wait_id' \in [Slot -> Obj \cup {NULL}] /\ ahead' \in [Slot -> SUBSET Slot]
  BY <1>1 DEF Inv, TypeOK
<1>3. ListsInOrder'
  BY <1>1 DEF Inv, TypeOK, ListsInOrder
<1>4. QED
  BY <1>2, <1>3

LEMMA CreateInv ==
    ASSUME Inv, Create
    PROVE  Inv'
<1>1. /\ ntask < TASK_INIT_NUM
      /\ ntask' = ntask + 1
      /\ task_state' = [task_state EXCEPT ![ntask] = READY]
      /\ task_sleeptime' = [task_sleeptime EXCEPT ![ntask] = 0]
      /\ UNCHANGED <<task_cur, task_sched_sign, ticknum, wait_id, ahead>>
  BY DEF Create, task_create, listVars
<1>2. ntask \in Slot /\ task_state[ntask] = UNUSED /\ ntask # task_cur
  BY <1>1, TaskAssumption DEF Inv, TypeOK, TaskTypeOK, TableInUse, Live, Slot
<1>3. TypeOK'
  BY <1>1, <1>2, TaskAssumption DEF Inv, TypeOK, TaskTypeOK
<1>4. TableInUse'
  BY <1>1, <1>2, TaskAssumption
     DEF Inv, TypeOK, TaskTypeOK, TableInUse, Live, Slot, UNUSED, READY
<1>5. OneRunning' /\ IdleReady'
  BY <1>1, <1>2, IdleIsSlot DEF Inv, TypeOK, TaskTypeOK, OneRunning, IdleReady, READY, RUN
<1>6. WaitingIsPending'
  BY <1>1, <1>2 DEF Inv, TypeOK, TaskTypeOK, WaitingIsPending, UNUSED, PEND
<1>7. ListsInOrder'
  BY <1>1 DEF Inv, ListsInOrder
<1>8. QED
  BY <1>3, <1>4, <1>5, <1>6, <1>7 DEF Inv

LEMMA SignalInv ==
    ASSUME Inv, NEW o \in Obj, Signal(o)
    PROVE  Inv'
<1>1. PICK t \in Waiters(o) : ReadyTask(t) /\ Unlink({t})
  BY DEF Signal
<1>2. /\ task_state' = [task_state EXCEPT ![t] = READY]
      /\ task_sleeptime' = [task_sleeptime EXCEPT ![t] = 0]
      /\ UNCHANGED <<ntask, task_cur, task_sched_sign, ticknum>>
      /\ wait_id' = [u \in Slot |-> IF u \in {t} THEN NULL ELSE wait_id[u]]
  BY <1>1 DEF ReadyTask, Unlink
<1>3. t \in Slot /\ task_state[t] = PEND
  BY KernelAssumption DEF Waiters, Inv, WaitingIsPending
<1>4. TypeOK' /\ ListsInOrder'
  BY <1>1, <1>2, <1>3, UnlinkLists DEF Inv, TypeOK, TaskTypeOK
<1>5. TableInUse'
  BY <1>2, <1>3 DEF Inv, TypeOK, TaskTypeOK, TableInUse, Live, UNUSED, READY, PEND
<1>6. OneRunning' /\ IdleReady'
  BY <1>2, <1>3, IdleIsSlot
     DEF Inv, TypeOK, TaskTypeOK, OneRunning, IdleReady, READY, RUN, PEND
<1>7. WaitingIsPending'
  BY <1>2, <1>3 DEF Inv, TypeOK, TaskTypeOK, WaitingIsPending
<1>8. QED
  BY <1>4, <1>5, <1>6, <1>7 DEF Inv

LEMMA DeleteInv ==
    ASSUME Inv, NEW o \in Obj, Delete(o)
    PROVE  Inv'
<1>1. Unlink(Waiters(o)) /\ UNCHANGED taskVars
  BY DEF Delete
<1>2. TypeOK' /\ ListsInOrder'
  BY <1>1, UnlinkLists DEF Waiters, Inv, TypeOK, TaskTypeOK, taskVars
<1>3. TableInUse' /\ OneRunning' /\ IdleReady'
  BY <1>1 DEF Inv, TableInUse, OneRunning, IdleReady, taskVars, Live
<1>4. WaitingIsPending'
  BY <1>1 DEF Inv, WaitingIsPending, taskVars, Unlink
<1>5. QED
  BY <1>2, <1>3, <1>4 DEF Inv

LEMMA LockInv ==
    ASSUME Inv, Lock \/ Unlock
    PROVE  Inv'
<1>1. /\ task_sched_sign' \in {LOCK, UNLOCK}
      /\ UNCHANGED <<ntask, task_cur, task_state, task_sleeptime, ticknum, wait_id, ahead>>
  BY DEF Lock, Unlock, task_locksched, task_unlocksched, SetSchedSign, listVars
<1>2. QED
  BY <1>1 DEF Inv, TypeOK, TaskTypeOK, TableInUse, Live, OneRunning, IdleReady,
              WaitingIsPending, ListsInOrder

\* The clock interrupt: due tasks become READY, then the processor may go to
\* the nearest READY task.
LEMMA TickEffect ==
    ASSUME Inv, Tick
    PROVE  LET st == [t \in Slot |-> IF t \in Due THEN READY ELSE task_state[t]]
           IN  \/ task_cur' = task_cur /\ task_state' = st
               \/ \E n \in Candidates(st) :
                     /\ task_sched_sign = UNLOCK
                     /\ task_cur' = n
                     /\ task_state' = [st EXCEPT ![task_cur] = READY, ![n] = RUN]
                     /\ \A u \in Candidates(st) :
                           Dist(task_cur, n) <= Dist(task_cur, u)
<1> DEFINE st == [t \in Slot |-> IF t \in Due THEN READY ELSE task_state[t]]
<1>1. task_nextrun(st) /\ TaskTypeOK /\ task_cur \in Live
  BY DEF Tick, TickTasks, Inv, TypeOK, TableInUse
<1> HIDE DEF st
<1>2. \/ task_cur' = task_cur /\ task_state' = st
      \/ \E n \in Candidates(st) :
            /\ task_sched_sign = UNLOCK
            /\ task_cur' = n
            /\ task_state' = [st EXCEPT ![task_cur] = READY, ![n] = RUN]
            /\ \A u \in Candidates(st) : Dist(task_cur, n) <= Dist(task_cur, u)
  BY <1>1, NextrunEffect
<1>3. QED
  BY <1>2 DEF st

\* The tick touches only sleeping tasks, and those are PEND.
LEMMA SleepersPend ==
    Inv => /\ Due \subseteq Sleeping
           /\ Sleeping \subseteq Slot
           /\ \A t \in Sleeping : task_state[t] = PEND /\ t # task_cur
BY LiveIsSlot DEF Inv, TypeOK, WaitingIsPending, Due, Sleeping

LEMMA TickTypeOK ==
    ASSUME Inv, Tick
    PROVE  TypeOK'
<1> DEFINE st == [t \in Slot |-> IF t \in Due THEN READY ELSE task_state[t]]
<1>1. st \in [Slot -> {UNUSED, READY, RUN, PEND}]
  BY DEF Inv, TypeOK, TaskTypeOK
<1>2. task_cur' \in Slot /\ task_state' \in [Slot -> {UNUSED, READY, RUN, PEND}]
  <2>1. CASE task_cur' = task_cur /\ task_state' = st
    BY <2>1, <1>1 DEF Inv, TypeOK, TaskTypeOK
  <2>2. CASE \E n \in Candidates(st) :
                /\ task_cur' = n
                /\ task_state' = [st EXCEPT ![task_cur] = READY, ![n] = RUN]
    <3> HIDE DEF st
    <3> QED BY <2>2, <1>1, LiveIsSlot DEF Inv, TypeOK, Candidates
  <2>3. QED
    BY <2>1, <2>2, TickEffect
<1>3. task_sleeptime' \in [Slot -> Nat]
  <2>1. task_sleeptime' = [t \in Slot |-> IF t \in Sleeping
                                          THEN task_sleeptime[t] - 1
                                          ELSE task_sleeptime[t]]
    BY DEF Tick, TickTasks
  <2>2. \A t \in Sleeping : task_sleeptime[t] # 0
    BY DEF Sleeping
  <2>3. QED
    BY <2>1, <2>2 DEF Inv, TypeOK, TaskTypeOK
<1>4. ticknum' \in 0 .. TICK_WRAP - 1
  BY TaskAssumption DEF Inv, TypeOK, TaskTypeOK, Tick, TickTasks
<1>5. UNCHANGED <<ntask, task_sched_sign>>
  BY DEF Tick, TickTasks
<1>6. wait_id' \in [Slot -> Obj \cup {NULL}] /\ ahead' \in [Slot -> SUBSET Slot]
  BY SleepersPend, UnlinkLists DEF Tick
<1>7. QED
  BY <1>2, <1>3, <1>4, <1>5, <1>6 DEF Inv, TypeOK, TaskTypeOK

LEMMA TickInv ==
    ASSUME Inv, Tick
    PROVE  Inv'
<1> DEFINE st == [t \in Slot |-> IF t \in Due THEN READY ELSE task_state[t]]
<1>1. TypeOK' /\ ntask' = ntask
  BY TickTypeOK DEF Tick, TickTasks
<1>2. task_cur \in Live /\ task_cur \in Slot /\ Live \subseteq Slot
  BY LiveIsSlot DEF Inv, TypeOK, TableInUse
<1>3. /\ st \in [Slot -> {UNUSED, READY, RUN, PEND}]
      /\ st[task_cur] = task_state[task_cur]
      /\ st[Idle] = task_state[Idle]
      /\ \A t \in Slot : st[t] = RUN => t = task_cur
      /\ \A t \in Slot : t \in Live <=> st[t] # UNUSED
  BY <1>2, SleepersPend, IdleIsSlot
     DEF Inv, TypeOK, TaskTypeOK, IdleReady, OneRunning, TableInUse,
         UNUSED, READY, RUN, PEND
<1>4. TableInUse' /\ OneRunning' /\ IdleReady'
  <2>1. CASE task_cur' = task_cur /\ task_state' = st
    <3> HIDE DEF st
    <3> QED
      BY <1>1, <1>2, <1>3, <2>1 DEF Inv, TableInUse, OneRunning, IdleReady, Live
  <2>2. CASE \E n \in Candidates(st) :
                /\ task_cur' = n
                /\ task_state' = [st EXCEPT ![task_cur] = READY, ![n] = RUN]
    <3> HIDE DEF st
    <3>1. PICK n \in Candidates(st) :
                /\ task_cur' = n
                /\ task_state' = [st EXCEPT ![task_cur] = READY, ![n] = RUN]
      BY <2>2
    <3>2. n \in Live /\ n \in Slot /\ n # task_cur /\ st[n] = READY
      BY <1>2 DEF Candidates
    <3>3. QED
      BY <1>1, <1>2, <1>3, <3>1, <3>2, IdleIsSlot
         DEF Inv, TableInUse, OneRunning, IdleReady, Live, UNUSED, READY, RUN
  <2>3. QED
    BY <2>1, <2>2, TickEffect
<1>5. WaitingIsPending'
  <2>1. SUFFICES ASSUME NEW t \in Slot, task_sleeptime'[t] # 0 \/ wait_id'[t] # NULL
                 PROVE  task_state'[t] = PEND
    BY DEF WaitingIsPending
  <2>2. /\ task_sleeptime'[t] = IF t \in Sleeping THEN task_sleeptime[t] - 1
                                                  ELSE task_sleeptime[t]
        /\ wait_id'[t] = IF t \in Due THEN NULL ELSE wait_id[t]
    BY DEF Tick, TickTasks, Unlink
  <2>3. t \notin Due
    BY <2>1, <2>2, SleepersPend DEF Due
  <2>4. task_state[t] = PEND
    BY <2>1, <2>2, <2>3, SleepersPend DEF Inv, WaitingIsPending
  <2>5. st[t] = PEND /\ t # task_cur
    BY <2>3, <2>4 DEF Inv, OneRunning, READY, RUN, PEND
  <2>6. QED
    <3> HIDE DEF st
    <3>1. CASE task_cur' = task_cur /\ task_state' = st
      BY <2>5, <3>1
    <3>2. ASSUME NEW n \in Candidates(st),
                 task_state' = [st EXCEPT ![task_cur] = READY, ![n] = RUN]
          PROVE  task_state'[t] = PEND
      BY <1>3, <2>5, <3>2 DEF Candidates, READY, PEND
    <3>3. QED
      BY <3>1, <3>2, TickEffect DEF st
<1>6. ListsInOrder'
  BY SleepersPend, UnlinkLists DEF Tick
<1>7. QED
  BY <1>1, <1>4, <1>5, <1>6 DEF Inv

\* A block makes the caller wait, and nobody else.
LEMMA BlockPends ==
    Inv /\ MayBlock =>
        \A d \in Delay : BlockCur(d) =>
            \A t \in Slot : task_state'[t] = PEND <=> task_state[t] = PEND \/ t = task_cur
<1> SUFFICES ASSUME Inv, MayBlock, NEW d \in Delay, BlockCur(d), NEW t \in Slot
             PROVE  task_state'[t] = PEND <=> task_state[t] = PEND \/ t = task_cur
  OBVIOUS
<1>1. PICK n \in Live \ {task_cur} :
              /\ task_state[n] = READY
              /\ task_state' = [task_state EXCEPT ![task_cur] = PEND, ![n] = RUN]
  BY BlockEffect
<1>2. n \in Slot /\ task_cur \in Slot /\ n # task_cur
  BY <1>1, LiveIsSlot DEF Inv, TypeOK, TaskTypeOK
<1>3. QED
  BY <1>1, <1>2 DEF Inv, TypeOK, TaskTypeOK, READY, RUN, PEND

\* A tick ends the waits that are due, and no others.
LEMMA TickPends ==
    Inv /\ Tick =>
        \A t \in Slot : task_state'[t] = PEND <=> task_state[t] = PEND /\ t \notin Due
<1> SUFFICES ASSUME Inv, Tick, NEW t \in Slot
             PROVE  task_state'[t] = PEND <=> task_state[t] = PEND /\ t \notin Due
  OBVIOUS
<1> DEFINE st == [u \in Slot |-> IF u \in Due THEN READY ELSE task_state[u]]
<1>1. st[t] = PEND <=> task_state[t] = PEND /\ t \notin Due
  BY DEF READY, PEND
<1>2. st \in [Slot -> {UNUSED, READY, RUN, PEND}] /\ st[task_cur] # PEND
  BY SleepersPend, LiveIsSlot
     DEF Inv, TypeOK, TaskTypeOK, TableInUse, OneRunning, READY, RUN, PEND
<1>3. (task_cur' = task_cur /\ task_state' = st)
        \/ \E n \in Candidates(st) :
              task_state' = [st EXCEPT ![task_cur] = READY, ![n] = RUN]
  BY TickEffect
<1>4. task_state'[t] = PEND <=> st[t] = PEND
  <2> HIDE DEF st
  <2>1. CASE task_state' = st
    BY <2>1
  <2>2. ASSUME NEW n \in Candidates(st),
               task_state' = [st EXCEPT ![task_cur] = READY, ![n] = RUN]
        PROVE  task_state'[t] = PEND <=> st[t] = PEND
    BY <1>2, <2>2 DEF Candidates, READY, RUN, PEND
  <2>3. QED
    BY <1>3, <2>1, <2>2
<1>5. QED
  BY <1>1, <1>4

LEMMA InitInv == Init => Inv
<1> SUFFICES ASSUME Init
             PROVE  Inv
  OBVIOUS
<1>1. TypeOK
  BY TaskAssumption DEF Init, TaskInit, TypeOK, TaskTypeOK, Slot, Idle
<1>2. TableInUse
  BY IdleIsSlot DEF Init, TaskInit, TableInUse, Live, Idle, READY, UNUSED
<1>3. OneRunning /\ IdleReady
  BY IdleIsSlot DEF Init, TaskInit, OneRunning, IdleReady, READY, RUN, UNUSED
<1>4. WaitingIsPending /\ ListsInOrder
  BY DEF Init, TaskInit, WaitingIsPending, ListsInOrder
<1>5. QED
  BY <1>1, <1>2, <1>3, <1>4 DEF Inv

LEMMA NextInv == Inv /\ [Next]_vars => Inv'
<1> SUFFICES ASSUME Inv, [Next]_vars
             PROVE  Inv'
  OBVIOUS
<1>1. CASE Create
  BY <1>1, CreateInv
<1>2. ASSUME NEW d \in Delay, Sleep(d)
      PROVE  Inv'
  BY <1>2, SleepInv
<1>3. ASSUME NEW o \in Obj, NEW d \in Delay, Wait(o, d)
      PROVE  Inv'
  BY <1>3, WaitInv
<1>4. ASSUME NEW o \in Obj, Signal(o)
      PROVE  Inv'
  BY <1>4, SignalInv
<1>5. ASSUME NEW o \in Obj, Delete(o)
      PROVE  Inv'
  BY <1>5, DeleteInv
<1>6. CASE Tick
  BY <1>6, TickInv
<1>7. CASE Lock \/ Unlock
  BY <1>7, LockInv
<1>8. CASE UNCHANGED vars
  BY <1>8 DEF vars, taskVars, listVars, Inv, TypeOK, TaskTypeOK, TableInUse, Live,
              OneRunning, IdleReady, WaitingIsPending, ListsInOrder
<1>9. QED
  BY <1>1, <1>2, <1>3, <1>4, <1>5, <1>6, <1>7, <1>8 DEF Next

(* In every reachable state the table of tasks and the wait lists are as    *)
(* Inv says, for any number of slots, any objects and any delays.           *)
THEOREM Invariance == Spec => []Inv
BY InitInv, NextInv, PTL DEF Spec

(* Every variable keeps its type. *)
THEOREM TypeCorrect == Spec => []TypeOK
<1>1. Inv => TypeOK
  BY DEF Inv
<1>2. QED
  BY <1>1, Invariance, PTL

(* At most one task is RUN, and it has the processor. *)
THEOREM OneTaskRuns == Spec => []OneRunning
<1>1. Inv => OneRunning
  BY DEF Inv
<1>2. QED
  BY <1>1, Invariance, PTL

(* Each wait list is in one total order. *)
THEOREM OrderedLists == Spec => []ListsInOrder
<1>1. Inv => ListsInOrder
  BY DEF Inv
<1>2. QED
  BY <1>1, Invariance, PTL

(* Only a blocked task has a timeout running or is on a wait list. *)
THEOREM WaitersPend == Spec => []WaitingIsPending
<1>1. Inv => WaitingIsPending
  BY DEF Inv
<1>2. QED
  BY <1>1, Invariance, PTL

-----------------------------------------------------------------------------
(* What a step may do. *)

\* Going from a to a task n that is nearer to it than t is, t gets nearer.
LEMMA NearerAfter ==
    ASSUME TaskTypeOK, NEW a \in Live, NEW n \in Live, NEW t \in Live,
           a # n, a # t, n # t, Dist(a, n) <= Dist(a, t)
    PROVE  Dist(n, t) < Dist(a, t)
BY DEF Dist, Live, TaskTypeOK

\* The step that gives the processor to another task is a blocking call or a
\* tick; st is the table at the time of the choice.
LEMMA SwitchStep ==
    ASSUME Inv, Next, task_cur' # task_cur
    PROVE  /\ task_sched_sign = UNLOCK
           /\ \A t \in Live \ {task_cur, task_cur'} :
                 task_state'[t] = READY => Dist(task_cur', t) < Dist(task_cur, t)
<1> DEFINE Goal ==
        /\ task_sched_sign = UNLOCK
        /\ \A t \in Live \ {task_cur, task_cur'} :
              task_state'[t] = READY => Dist(task_cur', t) < Dist(task_cur, t)
<1>1. TaskTypeOK /\ task_cur \in Live /\ Live \subseteq Slot
  BY LiveIsSlot DEF Inv, TypeOK, TableInUse
<1>2. ASSUME NEW st, NEW n \in Candidates(st), task_cur' = n,
             task_sched_sign = UNLOCK,
             \A t \in Live \ {task_cur, n} : task_state'[t] = st[t],
             \A u \in Candidates(st) : Dist(task_cur, n) <= Dist(task_cur, u)
      PROVE  Goal
  <2>1. SUFFICES ASSUME NEW t \in Live \ {task_cur, n}, task_state'[t] = READY
                 PROVE  Dist(n, t) < Dist(task_cur, t)
    BY <1>2
  <2>2. t \in Candidates(st) /\ n \in Live \ {task_cur}
    BY <1>2, <2>1 DEF Candidates
  <2>3. QED
    BY <1>1, <1>2, <2>2, NearerAfter
<1>3. ASSUME NEW d \in Delay, MayBlock, BlockCur(d)
      PROVE  Goal
  <2> DEFINE st == [task_state EXCEPT ![task_cur] = PEND]
  <2>1. task_sched(st) /\ task_cur # Idle /\ task_sched_sign = UNLOCK
    BY <1>3 DEF BlockCur, MayBlock
  <2>2. st[Idle] = READY /\ st \in [Slot -> {UNUSED, READY, RUN, PEND}]
    BY <1>1, <2>1, IdleIsSlot DEF Inv, IdleReady, OneRunning, TaskTypeOK
  <2> HIDE DEF st
  <2>3. PICK n \in Candidates(st) :
              /\ task_cur' = n
              /\ task_state' = [st EXCEPT ![n] = RUN]
              /\ \A u \in Candidates(st) : Dist(task_cur, n) <= Dist(task_cur, u)
    BY <1>1, <2>1, <2>2, SchedEffect
  <2>4. \A t \in Live \ {task_cur, n} : task_state'[t] = st[t]
    BY <1>1, <2>2, <2>3
  <2> HIDE DEF Goal
  <2>5. QED
    BY <1>2, <2>1, <2>3, <2>4
<1>4. ASSUME Tick
      PROVE  Goal
  <2> DEFINE st == [t \in Slot |-> IF t \in Due THEN READY ELSE task_state[t]]
  <2>1. st \in [Slot -> {UNUSED, READY, RUN, PEND}]
    BY <1>1 DEF TaskTypeOK
  <2>2. PICK n \in Candidates(st) :
              /\ task_sched_sign = UNLOCK
              /\ task_cur' = n
              /\ task_state' = [st EXCEPT ![task_cur] = READY, ![n] = RUN]
              /\ \A u \in Candidates(st) : Dist(task_cur, n) <= Dist(task_cur, u)
    BY <1>4, TickEffect
  <2> HIDE DEF st
  <2>3. \A t \in Live \ {task_cur, n} : task_state'[t] = st[t]
    BY <1>1, <2>1, <2>2
  <2> HIDE DEF Goal
  <2>4. QED
    BY <1>2, <2>2, <2>3
<1>5. (\E d \in Delay : MayBlock /\ BlockCur(d)) \/ Tick
  BY DEF Next, Create, task_create, Sleep, task_delay, Wait, Signal, ReadyTask, Delete,
         Lock, Unlock, task_locksched, task_unlocksched, SetSchedSign, taskVars
<1>6. QED
  BY <1>3, <1>4, <1>5

(* No switch lets a task overtake another one that is READY for ever: each  *)
(* brings the processor strictly nearer to every READY task it passes by.   *)
THEOREM RoundRobinFair == Spec => NoOvertaking
<1>1. Inv /\ [Next]_vars =>
        [task_cur' # task_cur =>
            \A t \in Live \ {task_cur, task_cur'} :
               task_state'[t] = READY => Dist(task_cur', t) < Dist(task_cur, t)]_vars
  BY SwitchStep DEF vars, taskVars
<1>2. QED
  BY <1>1, Invariance, PTL DEF Spec, NoOvertaking

(* A locked scheduler keeps the processor where it is. *)
THEOREM LockHolds == Spec => LockKeepsProcessor
<1>1. Inv /\ [Next]_vars =>
        [task_sched_sign = LOCK => task_cur' = task_cur]_vars
  BY SwitchStep DEF vars, taskVars, LOCK, UNLOCK
<1>2. QED
  BY <1>1, Invariance, PTL DEF Spec, LockKeepsProcessor

(* Nobody gets in front of a task that stays on a wait list. *)
THEOREM FirstComeFirstServed == Spec => NoQueueJumping
<1> DEFINE A == \A t \in Slot : (wait_id[t] # NULL /\ wait_id'[t] = wait_id[t])
                                   => ahead'[t] \subseteq ahead[t]
<1>1. ASSUME Inv, Next
      PROVE  A
  <2>1. ASSUME NEW o \in Obj, NEW d \in Delay, Wait(o, d)
        PROVE  A
    <3>1. wait_id[task_cur] = NULL
      BY <1>1 DEF Inv, OneRunning, WaitingIsPending, TypeOK, TaskTypeOK, RUN, READY, PEND
    <3>2. QED
      BY <1>1, <2>1, <3>1 DEF Wait, Inv, TypeOK
  <2>2. ASSUME NEW S \in SUBSET Slot, Unlink(S)
        PROVE  A
    BY <2>2, <1>1 DEF Unlink, Inv, TypeOK
  <2>3. CASE UNCHANGED listVars
    BY <2>3 DEF listVars
  <2>4. \/ \E o \in Obj, d \in Delay : Wait(o, d)
        \/ \E S \in SUBSET Slot : Unlink(S)
        \/ UNCHANGED listVars
    BY <1>1, SleepersPend DEF Next, Create, Sleep, Signal, Delete, Tick, Lock, Unlock, Waiters
  <2>5. QED
    BY <2>1, <2>2, <2>3, <2>4
<1>2. Inv /\ [Next]_vars => [A]_vars
  BY <1>1
<1>3. QED
  BY <1>2, Invariance, PTL DEF Spec, NoQueueJumping

-----------------------------------------------------------------------------
(* The history of KernelTime.  OnTime alone is not inductive: that a task   *)
(* is still waiting says nothing of how long it will.  TimeInv adds the     *)
(* countdown, and Inv that a waiting task is in the circular list and not   *)
(* running, so that every tick counts for it.                               *)

\* The steps with the history are steps of Kernel.
LEMMA TimeStep == [TimeNext]_timeVars => [Next]_vars
BY DEF TimeNext, Begin, CutShort, Elapse, Other, Next, timeVars, vars

LEMMA TimeInvariance == TimeSpec => []Inv
<1>1. TimeInit => Inv
  BY InitInv DEF TimeInit
<1>2. Inv /\ [TimeNext]_timeVars => Inv'
  BY TimeStep, NextInv
<1>3. QED
  BY <1>1, <1>2, PTL DEF TimeSpec

\* A wait begins.
LEMMA BeginTimeInv ==
    ASSUME Inv, TimeInv, NEW d \in Delay, Begin(d)
    PROVE  TimeInv'
<1>1. /\ MayBlock /\ BlockCur(d)
      /\ asked' = [asked EXCEPT ![task_cur] = d]
      /\ age' = [age EXCEPT ![task_cur] = 0]
  BY DEF Begin, Sleep, task_delay, Wait
<1>2. PICK n \in Live \ {task_cur} :
              /\ task_state[n] = READY
              /\ task_state' = [task_state EXCEPT ![task_cur] = PEND, ![n] = RUN]
              /\ task_sleeptime' = [task_sleeptime EXCEPT ![task_cur] = d]
  BY <1>1, BlockEffect
<1>3. d \in Nat /\ n \in Slot /\ task_cur \in Slot /\ n # task_cur
  BY TaskAssumption, LiveIsSlot DEF Inv, TypeOK, TaskTypeOK
<1>4. QED
  BY <1>1, <1>2, <1>3 DEF TimeInv, Inv, TypeOK, TaskTypeOK, READY, RUN, PEND

\* A wait is cut short.
LEMMA CutShortTimeInv ==
    ASSUME Inv, TimeInv, NEW o \in Obj, CutShort(o)
    PROVE  TimeInv'
<1>1. PICK t \in Waiters(o) : ReadyTask(t) /\ Unlink({t})
  BY DEF CutShort, Signal
<1>2. /\ task_state' = [task_state EXCEPT ![t] = READY]
      /\ task_sleeptime' = [task_sleeptime EXCEPT ![t] = 0]
      /\ wait_id' = [u \in Slot |-> IF u \in {t} THEN NULL ELSE wait_id[u]]
  BY <1>1 DEF ReadyTask, Unlink
<1>3. t \in Slot /\ wait_id[t] # NULL
  BY KernelAssumption DEF Waiters
<1>4. /\ asked' = [u \in Slot |-> IF u = t THEN 0 ELSE asked[u]]
      /\ age' = age
  BY <1>2, <1>3 DEF CutShort
<1>5. QED
  BY <1>2, <1>3, <1>4 DEF TimeInv, Inv, TypeOK, TaskTypeOK

\* A tick counts for every task that waits with a timeout.
LEMMA ElapseTimeInv ==
    ASSUME Inv, TimeInv, Elapse
    PROVE  TimeInv'
<1>1. /\ task_sleeptime' = [t \in Slot |-> IF t \in Sleeping
                                           THEN task_sleeptime[t] - 1
                                           ELSE task_sleeptime[t]]
      /\ age' = [t \in Slot |-> IF age[t] < asked[t] THEN age[t] + 1 ELSE age[t]]
      /\ asked' = asked
  BY DEF Elapse, Tick, TickTasks
<1>2. asked' \in [Slot -> Nat] /\ age' \in [Slot -> Nat]
  BY <1>1 DEF TimeInv
<1>3. ASSUME NEW t \in Slot, asked[t] # 0
      PROVE  IF task_state'[t] = PEND
             THEN age'[t] < asked[t] /\ task_sleeptime'[t] = asked[t] - age'[t]
             ELSE age'[t] = asked[t]
  <2>1. asked[t] \in Nat /\ age[t] \in Nat
    BY DEF TimeInv
  <2>2. task_state'[t] = PEND <=> task_state[t] = PEND /\ t \notin Due
    BY TickPends DEF Elapse
  <2>3. CASE task_state[t] = PEND
    <3>1. age[t] < asked[t] /\ task_sleeptime[t] = asked[t] - age[t]
      BY <1>3, <2>3 DEF TimeInv
    <3>2. t \in Sleeping
      BY <2>1, <2>3, <3>1
         DEF Sleeping, Inv, TableInUse, OneRunning, UNUSED, READY, RUN, PEND
    <3>3. t \in Due <=> task_sleeptime[t] = 1
      BY <3>2 DEF Due
    <3>4. QED
      BY <1>1, <2>1, <2>2, <2>3, <3>1, <3>2, <3>3
  <2>4. CASE task_state[t] # PEND
    BY <1>1, <1>3, <2>1, <2>2, <2>4 DEF TimeInv
  <2>5. QED
    BY <2>3, <2>4
<1>4. QED
  BY <1>1, <1>2, <1>3 DEF TimeInv

\* Nothing else touches a countdown.
LEMMA OtherTimeInv ==
    ASSUME Inv, TimeInv, Other
    PROVE  TimeInv'
<1>1. CASE Create
  <2>1. /\ task_state' = [task_state EXCEPT ![ntask] = READY]
        /\ task_sleeptime' = [task_sleeptime EXCEPT ![ntask] = 0]
        /\ ntask \in Slot /\ task_state[ntask] = UNUSED
    BY <1>1, TaskAssumption
       DEF Create, task_create, Inv, TypeOK, TaskTypeOK, TableInUse, Live, Slot
  <2>2. QED
    BY <2>1 DEF Other, TimeInv, Inv, TypeOK, TaskTypeOK, UNUSED, READY, PEND
<1>2. CASE Lock \/ Unlock \/ \E o \in Obj : Delete(o)
  <2>1. UNCHANGED <<task_state, task_sleeptime>>
    BY <1>2 DEF Lock, Unlock, task_locksched, task_unlocksched, SetSchedSign,
                Delete, taskVars
  <2>2. QED
    BY <2>1 DEF Other, TimeInv
<1>3. QED
  BY <1>1, <1>2 DEF Other

LEMMA TimeInvInductive ==
    /\ TimeInit => TimeInv
    /\ Inv /\ TimeInv /\ [TimeNext]_timeVars => TimeInv'
<1>1. TimeInit => TimeInv
  BY DEF TimeInit, TimeInv
<1>2. ASSUME Inv, TimeInv, [TimeNext]_timeVars
      PROVE  TimeInv'
  <2>1. ASSUME NEW d \in Delay, Begin(d)
        PROVE  TimeInv'
    BY <1>2, <2>1, BeginTimeInv
  <2>2. ASSUME NEW o \in Obj, CutShort(o)
        PROVE  TimeInv'
    BY <1>2, <2>2, CutShortTimeInv
  <2>3. CASE Elapse
    BY <1>2, <2>3, ElapseTimeInv
  <2>4. CASE Other
    BY <1>2, <2>4, OtherTimeInv
  <2>5. CASE UNCHANGED timeVars
    BY <1>2, <2>5 DEF timeVars, vars, taskVars, TimeInv
  <2>6. QED
    BY <1>2, <2>1, <2>2, <2>3, <2>4, <2>5 DEF TimeNext
<1>3. QED
  BY <1>1, <1>2

(* A timed wait that is not cut short by a give or a send lasts until its   *)
(* last tick and ends there (task_tickdo), for any number of tasks, any     *)
(* objects and any delays.                                                  *)
THEOREM WaitsEndOnTime == TimeSpec => []OnTime
<1>1. TimeSpec => []TimeInv
  BY TimeInvariance, TimeInvInductive, PTL DEF TimeSpec
<1>2. TimeInv => OnTime
  BY DEF TimeInv, OnTime
<1>3. QED
  BY <1>1, <1>2, PTL
=============================================================================
