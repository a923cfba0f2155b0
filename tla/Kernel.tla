------------------------------- MODULE Kernel -------------------------------
(***************************************************************************)
(* What the kernel promises to tasks that block: the scheduler of Task     *)
(* together with the wait lists of the objects (semaphores, message        *)
(* queues) that tasks block on.  sem.c and msg.c treat their lists alike:  *)
(* the blocked caller is appended, a give or send takes the head off and   *)
(* makes it ready, the clock interrupt takes a task off whose time has     *)
(* run out, and a delete forgets the waiters without making them ready.    *)
(*                                                                         *)
(* A list is represented by the order it puts on its members: ahead[t] is  *)
(* the set of tasks in front of t.  The pointers that implement it are in  *)
(* Objects.                                                                *)
(*                                                                         *)
(* Two rules of use are assumed of the tasks, and stated as MayBlock: the  *)
(* idle task, which is the boot code, does not block (it only loops after  *)
(* start-up), and a task does not block while it has the scheduler locked. *)
(***************************************************************************)
EXTENDS Task

CONSTANTS Obj,   \* the objects tasks wait for
          NULL   \* no object

ASSUME KernelAssumption == NULL \notin Obj

VARIABLES wait_id,  \* per slot: the object waited for (sem_id or msg_id)
          ahead     \* per slot: the tasks in front of it on the wait list

listVars == <<wait_id, ahead>>
vars == <<taskVars, listVars>>

Waiters(o) == {t \in Slot : wait_id[t] = o}

TypeOK ==
    /\ TaskTypeOK
    /\ wait_id \in [Slot -> Obj \cup {NULL}]
    /\ ahead \in [Slot -> SUBSET Slot]

Init ==
    /\ TaskInit
    /\ wait_id = [t \in Slot |-> NULL]
    /\ ahead = [t \in Slot |-> {}]

\* Mutant: the neighbours of a task taken off keep their links to it.
Unlink_KeepsLinks(S) ==
    /\ wait_id' = [t \in Slot |-> IF t \in S THEN NULL ELSE wait_id[t]]
    /\ ahead' = [t \in Slot |-> IF t \in S THEN {} ELSE ahead[t]]

\* Take the tasks of S off the lists they are on.
Unlink(S) ==
    /\ wait_id' = [t \in Slot |-> IF t \in S THEN NULL ELSE wait_id[t]]
    /\ ahead' = [t \in Slot |-> IF t \in S THEN {} ELSE ahead[t] \ S]

MayBlock == task_cur # Idle /\ task_sched_sign = UNLOCK

Create == task_create /\ UNCHANGED listVars

Sleep(d) ==
    /\ MayBlock
    /\ task_delay(d)
    /\ UNCHANGED listVars

\* Mutant: the caller is inserted at the head of the list.
Wait_AtHead(o, d) ==
    /\ MayBlock
    /\ BlockCur(d)
    /\ wait_id' = [wait_id EXCEPT ![task_cur] = o]
    /\ ahead' = [t \in Slot |-> IF t \in Waiters(o) THEN ahead[t] \cup {task_cur}
                                                    ELSE ahead[t]]

\* sem_take without a token, msg_rcv without a message.
Wait(o, d) ==
    /\ MayBlock
    /\ BlockCur(d)
    /\ wait_id' = [wait_id EXCEPT ![task_cur] = o]
    /\ ahead' = [ahead EXCEPT ![task_cur] = Waiters(o)]

\* sem_give, msg_send: the longest waiter leaves the list.
Signal(o) ==
    \E t \in Waiters(o) :
        /\ ahead[t] = {}
        /\ ReadyTask(t)
        /\ Unlink({t})

\* sem_delete, msg_delete: the waiters are forgotten, but stay blocked.
Delete(o) ==
    /\ Waiters(o) # {}
    /\ Unlink(Waiters(o))
    /\ UNCHANGED taskVars

\* The clock interrupt.
Tick == TickTasks /\ Unlink(Due)

Lock == task_locksched /\ UNCHANGED listVars
Unlock == task_unlocksched /\ UNCHANGED listVars

Next ==
    \/ Create
    \/ \E d \in Delay : Sleep(d)
    \/ \E o \in Obj, d \in Delay : Wait(o, d)
    \/ \E o \in Obj : Signal(o) \/ Delete(o)
    \/ Tick
    \/ Lock
    \/ Unlock

Spec == Init /\ [][Next]_vars

-----------------------------------------------------------------------------
(* Safety *)

(* Exactly the slots in the circular list hold a task; the running task is  *)
(* one of them. *)
TableInUse ==
    /\ task_cur \in Live
    /\ \A t \in Slot : t \in Live <=> task_state[t] # UNUSED

(* At most one task is in state RUN and it is the one on the processor; the *)
(* only other state the running task can have is READY, and only the idle   *)
(* task, which task_start leaves READY, before its first switch.            *)
OneRunning ==
    /\ \A t \in Slot : task_state[t] = RUN => t = task_cur
    /\ \/ task_state[task_cur] = RUN
       \/ task_cur = Idle /\ task_state[task_cur] = READY

(* Some task other than the running one can take the processor over whenever *)
(* the running one may block: the idle task is never blocked.               *)
IdleReady == task_state[Idle] \in {READY, RUN}

(* Only a blocked task has a timeout running or is on a wait list; so no    *)
(* signal is spent on, and no tick counts for, a task that is not waiting.  *)
WaitingIsPending ==
    \A t \in Slot :
        (task_sleeptime[t] # 0 \/ wait_id[t] # NULL) => task_state[t] = PEND

(* Each wait list is one line: members are in front of each other in one    *)
(* total order, and nothing is in front of a task that waits for nothing or *)
(* for something else.                                                      *)
ListsInOrder ==
    /\ \A t \in Slot : \A u \in ahead[t] :
          /\ wait_id[t] # NULL
          /\ wait_id[u] = wait_id[t]
          /\ ahead[u] \subseteq ahead[t]
          /\ t \notin ahead[u]
    /\ \A t, u \in Slot :
          (t # u /\ wait_id[t] # NULL /\ wait_id[u] = wait_id[t])
             => (t \in ahead[u] \/ u \in ahead[t])

Inv ==
    /\ TypeOK
    /\ TableInUse
    /\ OneRunning
    /\ IdleReady
    /\ WaitingIsPending
    /\ ListsInOrder

-----------------------------------------------------------------------------
(* What a step may do *)

(* The round robin is fair at every switch: whoever the processor goes to,  *)
(* every other task that is READY is strictly nearer to it afterwards, so   *)
(* none is overtaken for ever.                                              *)
NoOvertaking ==
    [][task_cur' # task_cur =>
          \A t \in Live \ {task_cur, task_cur'} :
             task_state'[t] = READY => Dist(task_cur', t) < Dist(task_cur, t)]_vars

(* While the scheduler is locked the processor stays with the task that     *)
(* locked it, whatever ticks and signals come.                              *)
LockKeepsProcessor ==
    [][task_sched_sign = LOCK => task_cur' = task_cur]_vars

(* A list is served first come, first served: while t stays on a list,     *)
(* nobody gets in front of it.                                              *)
NoQueueJumping ==
    [][\A t \in Slot :
          (wait_id[t] # NULL /\ wait_id'[t] = wait_id[t])
             => ahead'[t] \subseteq ahead[t]]_vars
=============================================================================
