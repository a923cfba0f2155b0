------------------------------ MODULE TaskRing ------------------------------
(***************************************************************************)
(* The circular task list of src/task/task.c as it is in memory, which     *)
(* Task represents by a number: every search of the scheduler and of the   *)
(* clock interrupt is a walk along next.                                   *)
(*                                                                         *)
(* task_create picks a slot before it disables interrupts and uses it      *)
(* after; task_show follows the list with interrupts enabled.  Ticks,      *)
(* switches and creations come in between.  The rule of use, MayCreate, is *)
(* that no two tasks are between those two steps of task_create at once:   *)
(* both would pick the same slot.                                          *)
(***************************************************************************)
EXTENDS Integers, Sequences, FiniteSets

CONSTANTS TASK_INIT_NUM, Delay, TICK_WRAP  \* as in Task

ASSUME TaskRingAssumption ==
    /\ TASK_INIT_NUM \in Nat \ {0}
    /\ Delay \subseteq Nat
    /\ TICK_WRAP \in Nat \ {0}

VARIABLES
    used,             \* the slots with a task_name
    next,             \* per slot
    task_tail,
    task_cur,
    task_state,       \* per slot
    task_sleeptime,   \* per slot
    task_sched_sign,
    ticknum,
    picked,           \* per slot: the slot its task_create will use, or NULL
    show              \* the walk of task_show

ringVars == <<used, next, task_tail>>
schedVars == <<task_cur, task_state, task_sleeptime, task_sched_sign, ticknum>>
vars == <<ringVars, schedVars, picked, show>>

Slot == 0 .. TASK_INIT_NUM - 1
NULL == -1
task_head == 0

\* No walk; or the one by task by, which has listed some tasks and stands at
\* slot at.
NoShow == [by |-> NULL, at |-> task_head, listed |-> << >>]

Init ==
    /\ used = {task_head}
    /\ next = [s \in Slot |-> IF s = task_head THEN task_head ELSE NULL]
    /\ task_tail = task_head
    /\ task_cur = task_head
    /\ task_state = [s \in Slot |-> IF s = task_head THEN "READY" ELSE "UNUSED"]
    /\ task_sleeptime = [s \in Slot |-> 0]
    /\ task_sched_sign = "UNLOCK"
    /\ ticknum = 0
    /\ picked = [s \in Slot |-> NULL]
    /\ show = NoShow

-----------------------------------------------------------------------------
(* Walks from task_cur->next. *)

\* The slot after k steps, and the number of steps back to task_cur.
At == LET at[k \in 0 .. TASK_INIT_NUM] ==
              IF k = 0 THEN task_cur ELSE next[at[k - 1]]
      IN  at
Round == CHOOSE k \in 1 .. TASK_INIT_NUM :
            At[k] = task_cur /\ \A j \in 1 .. k - 1 : At[j] # task_cur

\* Mutant: the walk looks at task_cur->next only.
task_getnextrun_Nearest(st) ==
    IF st[next[task_cur]] = "READY" THEN next[task_cur] ELSE task_cur

task_getnextrun(st) ==
    At[CHOOSE k \in 1 .. Round :
          /\ k = Round \/ st[At[k]] = "READY"
          /\ \A j \in 1 .. k - 1 : st[At[j]] # "READY"]

needsched(st) == task_sched_sign = "UNLOCK" /\ task_getnextrun(st) # task_cur

\* Leave the running task in state old and run the next one, if any.
SwitchFrom(st, old) ==
    IF needsched(st)
    THEN /\ task_cur' = task_getnextrun(st)
         /\ task_state' = [st EXCEPT ![task_cur] = old,
                                     ![task_getnextrun(st)] = "RUN"]
    ELSE task_cur' = task_cur /\ task_state' = st

task_tickdo ==
    LET others == {At[k] : k \in 1 .. Round - 1}
        counting == {t \in others : /\ task_state[t] \notin {"READY", "RUN"}
                                    /\ task_sleeptime[t] # 0}
        due == {t \in counting : task_sleeptime[t] = 1}
    IN  /\ ticknum' = IF ticknum + 1 = TICK_WRAP THEN 0 ELSE ticknum + 1
        /\ task_sleeptime' =
               [t \in Slot |-> IF t \in counting THEN task_sleeptime[t] - 1
                                                 ELSE task_sleeptime[t]]
        /\ SwitchFrom([t \in Slot |-> IF t \in due THEN "READY"
                                                   ELSE task_state[t]], "READY")
        /\ UNCHANGED <<ringVars, task_sched_sign, picked, show>>

-----------------------------------------------------------------------------
(* Calls of the running task.  It makes none in the middle of another. *)

CanCall == picked[task_cur] = NULL /\ show.by # task_cur

task_delay(d) ==
    /\ CanCall
    /\ task_cur # task_head /\ task_sched_sign = "UNLOCK"
    /\ task_sleeptime' = [task_sleeptime EXCEPT ![task_cur] = d]
    /\ SwitchFrom([task_state EXCEPT ![task_cur] = "PEND"], "PEND")
    /\ UNCHANGED <<ringVars, task_sched_sign, ticknum, picked, show>>

SetSchedSign(sign) ==
    /\ CanCall
    /\ task_sched_sign' = sign
    /\ UNCHANGED <<ringVars, task_cur, task_state, task_sleeptime, ticknum,
                   picked, show>>

MayCreate == \A t \in Slot : picked[t] = NULL

\* The first slot without a name; from a full table task_create returns.
task_get_resource ==
    /\ CanCall
    /\ MayCreate
    /\ used # Slot
    /\ picked' = [picked EXCEPT ![task_cur] =
                      CHOOSE s \in Slot \ used : \A r \in Slot \ used : s <= r]
    /\ UNCHANGED <<ringVars, schedVars, show>>

\* Mutant: the tail stays where it is.
NewTail_Old(s) == task_tail
NewTail(s) == s

\* The rest of task_create, with interrupts disabled.
task_create ==
    LET s == picked[task_cur]
    IN  /\ s # NULL
        /\ used' = used \cup {s}
        /\ task_sleeptime' = [task_sleeptime EXCEPT ![s] = 0]
        /\ task_state' = [task_state EXCEPT ![s] = "READY"]
        /\ next' = [next EXCEPT ![task_tail] = s, ![s] = task_head]
        /\ task_tail' = NewTail(s)
        /\ picked' = [picked EXCEPT ![task_cur] = NULL]
        /\ UNCHANGED <<task_cur, task_sched_sign, ticknum, show>>

\* One task lists the tasks at a time.
task_show ==
    /\ CanCall
    /\ show.by = NULL
    /\ show' = [by |-> task_cur, at |-> task_head, listed |-> << >>]
    /\ UNCHANGED <<ringVars, schedVars, picked>>

\* Mutant: the walk ends at the tail, as that of task_delete does.
ShowEnds_AtTail(s) == s = task_tail
ShowEnds(s) == s = task_head

ShowNext ==
    /\ show.by = task_cur
    /\ show' = [by |-> IF ShowEnds(next[show.at]) THEN NULL ELSE task_cur,
                at |-> next[show.at],
                listed |-> Append(show.listed, show.at)]
    /\ UNCHANGED <<ringVars, schedVars, picked>>

Next ==
    \/ task_tickdo
    \/ \E d \in Delay : task_delay(d)
    \/ SetSchedSign("LOCK")
    \/ SetSchedSign("UNLOCK")
    \/ task_get_resource
    \/ task_create
    \/ task_show
    \/ ShowNext

Spec == Init /\ [][Next]_vars

-----------------------------------------------------------------------------
(* The tasks are in the list in the order of their slots, all of them and   *)
(* nothing else, and a slot picked for a new task is still free when        *)
(* task_create comes to use it, whatever ran in between.                    *)
RingInOrder ==
    LET n == Cardinality(used)
    IN  /\ used = 0 .. n - 1
        /\ task_tail = n - 1
        /\ \A s \in used : next[s] = (s + 1) % n
        /\ \A t \in used : picked[t] \in {NULL, n}
        /\ task_cur \in used

K == INSTANCE Kernel WITH
        ntask <- Cardinality(used),
        Obj <- {},
        wait_id <- [s \in Slot |-> NULL],
        ahead <- [s \in Slot |-> {}]

(* The walks along the list find what the scheduler of Task promises: the   *)
(* next ready task in the round robin, and every sleeper at every tick.     *)
ImplementsKernel == K!Spec

(* task_show lists every task once, in order, those that are created while  *)
(* it prints included.                                                      *)
ListingComplete ==
    [][show.by # NULL /\ show'.by = NULL =>
          show'.listed = [k \in 1 .. Cardinality(used) |-> k - 1]]_vars
=============================================================================
