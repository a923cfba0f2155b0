------------------------------- MODULE Objects -------------------------------
(***************************************************************************)
(* What src/sem/sem.c and src/msg/msg.c have in common, line for line: a   *)
(* pool of objects that are created and deleted, and the wait lists as     *)
(* they are in memory, doubly linked through the header in the object and  *)
(* the sem_chain or msg_chain in each task, unlinked by a give or send and *)
(* by the clock interrupt, and left as they are by a delete.               *)
(*                                                                         *)
(* The calls look at an object before they disable interrupts, so each is  *)
(* two steps, between which interrupts may come and other tasks may run.   *)
(* Everything after int_disable is one step, up to int_enable or to the    *)
(* switch to another task.  What is particular to semaphores and to        *)
(* message queues is in Sem and MsgQueue, which extend this module.        *)
(***************************************************************************)
EXTENDS Task

CONSTANTS
    Obj,     \* the pool, sem_src or msg_src: addresses of list headers
    Deletes  \* whether tasks lock the scheduler and delete objects

ASSUME ObjectsAssumption ==
    /\ Obj \subseteq Nat \ (0 .. TASK_INIT_NUM - 1)
    /\ Deletes \in BOOLEAN

VARIABLES
    valid,    \* per object: created and not deleted (type and flag)
    next,     \* per list node: list.next
    prev,     \* per list node: list.prev
    wait_id,  \* per slot: the object waited for (sem_id or msg_id)
    call,     \* per slot: the call the task is in the middle of
    masked    \* a create has returned without enabling interrupts

ptrVars == <<next, prev, wait_id>>
objVars == <<valid, ptrVars, call, masked>>

\* A list node is the chain of a task or the tasklist of an object.
Node == Slot \cup Obj
NULL == -1
NoCall == [op |-> "none"]

ObjTypeOK ==
    /\ TaskTypeOK
    /\ valid \in [Obj -> BOOLEAN]
    /\ next \in [Node -> Slot \cup {NULL}]
    /\ prev \in [Node -> Node \cup {NULL}]
    /\ wait_id \in [Slot -> Obj \cup {NULL}]
    /\ masked \in BOOLEAN

ObjInit ==
    /\ TaskInit
    /\ valid = [o \in Obj |-> FALSE]
    /\ next = [n \in Node |-> NULL]
    /\ prev = [n \in Node |-> NULL]
    /\ wait_id = [t \in Slot |-> NULL]
    /\ call = [t \in Slot |-> NoCall]
    /\ masked = FALSE

-----------------------------------------------------------------------------
(* Lists. *)

\* The node reached from n in k steps.
After(n) ==
    LET at[k \in 0 .. TASK_INIT_NUM + 1] ==
            IF k = 0 THEN n
            ELSE IF at[k - 1] = NULL THEN NULL ELSE next[at[k - 1]]
    IN  at

\* The walk from n never ends: some task would be passed twice.
Endless(n) == After(n)[TASK_INIT_NUM + 1] # NULL

\* The tasks of the list whose header is o.
Members(o) == {After(o)[k] : k \in 1 .. TASK_INIT_NUM} \ {NULL}

Last(o) == CHOOSE n \in Members(o) \cup {o} : next[n] = NULL

\* Mutant: the caller is inserted at the head of the list.
Enlist_AtHead(o) ==
    /\ next' = [next EXCEPT ![o] = task_cur, ![task_cur] = next[o]]
    /\ prev' = [n \in Node |-> IF n = task_cur THEN o
                               ELSE IF n = next[o] THEN task_cur ELSE prev[n]]

\* The caller goes to the end of the list, unless already on it.
Enlist(o) ==
    IF task_cur \in Members(o)
    THEN UNCHANGED <<next, prev>>
    ELSE /\ ~Endless(o)
         /\ next' = [next EXCEPT ![Last(o)] = task_cur, ![task_cur] = NULL]
         /\ prev' = [prev EXCEPT ![task_cur] = Last(o)]

\* Block the caller on the list of o for d ticks.
Block(o, d) ==
    /\ BlockCur(d)
    /\ wait_id' = [wait_id EXCEPT ![task_cur] = o]
    /\ Enlist(o)

\* Make the head of the list ready, if there is one.
WakeHead(o) ==
    LET h == next[o]
    IN  IF h = NULL
        THEN UNCHANGED <<taskVars, ptrVars>>
        ELSE /\ ReadyTask(h)
             /\ wait_id' = [wait_id EXCEPT ![h] = NULL]
             /\ next' = [next EXCEPT ![o] = next[h]]
             /\ prev' = IF next[h] = NULL
                        THEN prev
                        ELSE [prev EXCEPT ![next[h]] = prev[h]]

-----------------------------------------------------------------------------
(* Calls.  A call that is one step from int_disable to int_enable ends with *)
(* interrupts enabled, whatever they were before.                           *)

CanCall == call[task_cur] = NoCall

TaskCall(op) ==
    /\ CanCall
    /\ op
    /\ masked' = FALSE
    /\ UNCHANGED <<valid, ptrVars, call>>

\* The rules of use: the idle task does not block, and no task blocks while
\* it has the scheduler locked.
MayBlock == task_cur # Idle /\ task_sched_sign = UNLOCK

\* The check of the object, before int_disable.
Enter(c) ==
    /\ CanCall
    /\ valid[c.obj]
    /\ call' = [call EXCEPT ![task_cur] = c]
    /\ UNCHANGED <<taskVars, valid, ptrVars, masked>>

Finish(op) ==
    /\ call[task_cur].op = op
    /\ call' = [call EXCEPT ![task_cur] = NoCall]
    /\ masked' = FALSE

\* The first free object, or NULL from a full pool, forgetting to enable
\* interrupts.
Free == {o \in Obj : ~valid[o]}
First(S) == CHOOSE o \in S : \A p \in S : o <= p

Create ==
    /\ CanCall
    /\ IF Free = {}
       THEN /\ masked' = TRUE
            /\ UNCHANGED <<valid, next, prev>>
       ELSE /\ valid' = [valid EXCEPT ![First(Free)] = TRUE]
            /\ next' = [next EXCEPT ![First(Free)] = NULL]
            /\ prev' = [prev EXCEPT ![First(Free)] = NULL]
            /\ masked' = FALSE
    /\ UNCHANGED <<taskVars, wait_id, call>>

\* An object is deleted once (the code does not check flag), under the
\* scheduler lock, when no task is in the middle of a call on it that is
\* not waiting.  The head of the list is read before int_disable.
EnterDelete(o) ==
    /\ Deletes
    /\ task_sched_sign = LOCK
    /\ ~\E t \in Slot : call[t] # NoCall /\ call[t].obj = o /\ wait_id[t] # o
    /\ Enter([op |-> "delete", obj |-> o, list |-> next[o]])

Forgetting(n) == IF n = NULL THEN {} ELSE {n} \cup Members(n)

\* The waiters, from the head read earlier on, forget what they wait for;
\* they stay blocked and linked.
Delete ==
    /\ Finish("delete")
    /\ LET c == call[task_cur]
       IN  /\ c.list # NULL => ~Endless(c.list)
           /\ valid' = [valid EXCEPT ![c.obj] = FALSE]
           /\ wait_id' = [t \in Slot |-> IF t \in Forgetting(c.list) THEN NULL
                                                           ELSE wait_id[t]]
    /\ UNCHANGED <<taskVars, next, prev>>

-----------------------------------------------------------------------------
(* The clock interrupt: the due tasks are taken off their lists one by one, *)
(* in the order of the circular list.                                       *)

\* Mutant: the successor keeps its link back to the task taken off.
Unlink_OneWay(m, t) ==
    IF t \notin Due \/ m.wait_id[t] = NULL
    THEN m
    ELSE [m EXCEPT !.next[m.prev[t]] = m.next[t], !.wait_id[t] = NULL]

Unlink(m, t) ==
    IF t \notin Due \/ m.wait_id[t] = NULL
    THEN m
    ELSE LET p == m.prev[t]
             n == m.next[t]
         IN  [next |-> [m.next EXCEPT ![p] = n],
              prev |-> IF n = NULL THEN m.prev ELSE [m.prev EXCEPT ![n] = p],
              wait_id |-> [m.wait_id EXCEPT ![t] = NULL]]

task_tickdo ==
    /\ ~masked
    /\ TickTasks
    /\ LET m[k \in 0 .. ntask - 1] ==
               IF k = 0
               THEN [next |-> next, prev |-> prev, wait_id |-> wait_id]
               ELSE Unlink(m[k - 1], (task_cur + k) % ntask)
       IN  /\ next' = m[ntask - 1].next
           /\ prev' = m[ntask - 1].prev
           /\ wait_id' = m[ntask - 1].wait_id
    /\ UNCHANGED <<valid, call, masked>>

\* The calls of the scheduler.
SchedCall ==
    \/ TaskCall(task_create)
    \/ Deletes /\ TaskCall(task_locksched)
    \/ TaskCall(task_unlocksched)
    \/ \E d \in Delay : MayBlock /\ TaskCall(task_delay(d))

-----------------------------------------------------------------------------
(* The lists implement those of Kernel. *)

\* The tasks in front of t on the list it is on.
Ahead(t) ==
    IF wait_id[t] = NULL
    THEN {}
    ELSE LET at == After(wait_id[t])
         IN  {at[j] : j \in {i \in 1 .. TASK_INIT_NUM :
                 \A k \in 1 .. i : at[k] \notin {t, NULL}}}

K == INSTANCE Kernel WITH ahead <- [t \in Slot |-> Ahead(t)]

(* The pointer manipulation of sem_take, sem_give, msg_rcv, msg_send, of    *)
(* the deletes and of the clock interrupt, with interrupts between the two  *)
(* steps of every call, does to the scheduler and the wait lists what       *)
(* Kernel says.                                                             *)
ImplementsKernel == K!Spec

(* The list of a valid object holds exactly the tasks whose sem_id or       *)
(* msg_id is that object, and is linked the same way in both directions; so *)
(* a timeout that unlinks through prev cannot lose the rest of the list.    *)
ListsLinked ==
    \A o \in {i \in Obj : valid[i]} :
        /\ ~Endless(o)
        /\ Members(o) = {t \in Slot : wait_id[t] = o}
        /\ \A n \in Members(o) \cup {o} : next[n] # NULL => prev[next[n]] = n
=============================================================================
