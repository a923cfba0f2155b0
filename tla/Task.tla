-------------------------------- MODULE Task --------------------------------
(***************************************************************************)
(* The scheduler of src/task/task.c: the task table, the running task, the *)
(* round-robin choice of the next one, the two ways of switching to it     *)
(* (synchronously from a kernel call, or on the way out of the clock       *)
(* interrupt), sleeping, and the scheduler lock.                           *)
(*                                                                         *)
(* Tasks are table slots; slot 0 is the idle task, which is the boot code  *)
(* itself.  task_create takes the first free slot and appends it at the    *)
(* tail of the circular list, and nothing ever leaves the list, so the     *)
(* list is 0 -> 1 -> ... -> ntask-1 -> 0 and is represented by ntask.      *)
(* (Two tasks inside task_create at once, and task_delete, break this;     *)
(* both are outside this module, see README.md.)                           *)
(*                                                                         *)
(* The module has no next-state relation: the wait lists that the tick and *)
(* the blocking calls also update are added by the modules that extend it. *)
(***************************************************************************)
EXTENDS Integers

CONSTANTS
    TASK_INIT_NUM,  \* number of slots of the task table (10 in the code)
    Delay,          \* the delays callers pass (ticks; 0 is "for ever")
    TICK_WRAP       \* the value at which ticknum restarts (0xffffffff)

ASSUME TaskAssumption ==
    /\ TASK_INIT_NUM \in Nat \ {0}
    /\ Delay \subseteq Nat
    /\ TICK_WRAP \in Nat \ {0}

VARIABLES
    ntask,            \* number of slots in use, i.e. in the circular list
    task_cur,         \* the running task
    task_state,       \* per slot
    task_sleeptime,   \* per slot: ticks left, 0 when none
    task_sched_sign,  \* the scheduler lock
    ticknum           \* clock ticks since boot

taskVars ==
    <<ntask, task_cur, task_state, task_sleeptime, task_sched_sign, ticknum>>

Slot == 0 .. TASK_INIT_NUM - 1
Idle == 0
Live == 0 .. ntask - 1

UNUSED == "UNUSED"   \* a slot whose task_name is empty
READY  == "READY"
RUN    == "RUN"
PEND   == "PEND"
LOCK   == "LOCK"
UNLOCK == "UNLOCK"

TaskTypeOK ==
    /\ ntask \in 1 .. TASK_INIT_NUM
    /\ task_cur \in Slot
    /\ task_state \in [Slot -> {UNUSED, READY, RUN, PEND}]
    /\ task_sleeptime \in [Slot -> Nat]
    /\ task_sched_sign \in {LOCK, UNLOCK}
    /\ ticknum \in 0 .. TICK_WRAP - 1

(* task_start: the idle task is current, but its state is READY, not RUN. *)
TaskInit ==
    /\ ntask = 1
    /\ task_cur = Idle
    /\ task_state = [t \in Slot |-> IF t = Idle THEN READY ELSE UNUSED]
    /\ task_sleeptime = [t \in Slot |-> 0]
    /\ task_sched_sign = UNLOCK
    /\ ticknum = 0

-----------------------------------------------------------------------------
(* The round robin. *)

\* How many steps along the circular list lead from a to b # a.
Dist(a, b) == IF b > a THEN b - a ELSE b - a + ntask

Candidates(st) == {t \in Live \ {task_cur} : st[t] = READY}

\* Mutant: the walk starts at the head of the list, not behind task_cur.
task_getnextrun_FromHead(st) ==
    IF Candidates(st) = {}
    THEN task_cur
    ELSE CHOOSE t \in Candidates(st) : \A u \in Candidates(st) : t <= u

\* The walk from task_cur->next stops at the first READY task, or comes back
\* to task_cur.  st is the table of states at the time of the walk.
task_getnextrun(st) ==
    IF Candidates(st) = {}
    THEN task_cur
    ELSE CHOOSE t \in Candidates(st) :
            \A u \in Candidates(st) : Dist(task_cur, t) <= Dist(task_cur, u)

\* Mutant: the scheduler lock is not looked at.
task_needsched_NoLock(st) == task_getnextrun(st) # task_cur

task_needsched(st) ==
    /\ task_sched_sign = UNLOCK
    /\ task_getnextrun(st) # task_cur

\* The switch at the end of a blocking call: the old task keeps the state
\* its caller gave it.
task_sched(st) ==
    IF task_needsched(st)
    THEN /\ task_cur' = task_getnextrun(st)
         /\ task_state' = [st EXCEPT ![task_getnextrun(st)] = RUN]
    ELSE /\ task_cur' = task_cur
         /\ task_state' = st

\* Mutant: the task that is interrupted stays RUN.
task_nextrun_KeepsRun(st) == task_sched(st)

\* The switch at the end of the clock interrupt: the old task becomes READY.
task_nextrun(st) ==
    IF task_needsched(st)
    THEN /\ task_cur' = task_getnextrun(st)
         /\ task_state' = [st EXCEPT ![task_cur] = READY,
                                     ![task_getnextrun(st)] = RUN]
    ELSE /\ task_cur' = task_cur
         /\ task_state' = st

-----------------------------------------------------------------------------
(* The clock interrupt. *)

Sleeping ==
    {t \in Live \ {task_cur} :
        /\ task_state[t] \notin {READY, RUN}
        /\ task_sleeptime[t] # 0}

\* Mutant: a sleeper is woken one tick early.
Due_Early == {t \in Sleeping : task_sleeptime[t] <= 2}

\* The tasks whose last tick this is.
Due == {t \in Sleeping : task_sleeptime[t] = 1}

\* task_tickdo and the switch that follows it in the interrupt handler,
\* without the wait lists the due tasks are taken off.
TickTasks ==
    /\ ticknum' = IF ticknum + 1 = TICK_WRAP THEN 0 ELSE ticknum + 1
    /\ task_sleeptime' = [t \in Slot |-> IF t \in Sleeping
                                         THEN task_sleeptime[t] - 1
                                         ELSE task_sleeptime[t]]
    /\ task_nextrun([t \in Slot |-> IF t \in Due THEN READY ELSE task_state[t]])
    /\ UNCHANGED <<ntask, task_sched_sign>>

-----------------------------------------------------------------------------
(* What a running task calls. *)

\* Mutant: a full table is not noticed.
task_create_NoLimit ==
    /\ ntask' = ntask + 1
    /\ task_state' = [task_state EXCEPT ![ntask] = READY]
    /\ task_sleeptime' = [task_sleeptime EXCEPT ![ntask] = 0]
    /\ UNCHANGED <<task_cur, task_sched_sign, ticknum>>

task_create ==
    /\ ntask < TASK_INIT_NUM
    /\ ntask' = ntask + 1
    /\ task_state' = [task_state EXCEPT ![ntask] = READY]
    /\ task_sleeptime' = [task_sleeptime EXCEPT ![ntask] = 0]
    /\ UNCHANGED <<task_cur, task_sched_sign, ticknum>>

\* The part common to every call that blocks the caller for d ticks.
BlockCur(d) ==
    /\ task_sleeptime' = [task_sleeptime EXCEPT ![task_cur] = d]
    /\ task_sched([task_state EXCEPT ![task_cur] = PEND])
    /\ UNCHANGED <<ntask, task_sched_sign, ticknum>>

\* The idle task returns at once, by its name.
task_delay(d) ==
    /\ task_cur # Idle
    /\ BlockCur(d)

\* Mutant: the timeout of the woken task goes on running.
ReadyTask_KeepsTimeout(t) ==
    /\ task_state' = [task_state EXCEPT ![t] = READY]
    /\ UNCHANGED <<ntask, task_cur, task_sleeptime, task_sched_sign, ticknum>>

\* Make a blocked task ready; the caller goes on running.
ReadyTask(t) ==
    /\ task_state' = [task_state EXCEPT ![t] = READY]
    /\ task_sleeptime' = [task_sleeptime EXCEPT ![t] = 0]
    /\ UNCHANGED <<ntask, task_cur, task_sched_sign, ticknum>>

SetSchedSign(s) ==
    /\ task_sched_sign' = s
    /\ UNCHANGED <<ntask, task_cur, task_state, task_sleeptime, ticknum>>

task_locksched == SetSchedSign(LOCK)
task_unlocksched == SetSchedSign(UNLOCK)
=============================================================================
