--------------------------------- MODULE Sem ---------------------------------
(***************************************************************************)
(* The semaphores of src/sem/sem.c: the pool and the wait lists of Objects *)
(* with a count of tokens per semaphore.                                   *)
(***************************************************************************)
EXTENDS Objects

CONSTANTS
    Sizes,  \* the <<init, max>> that callers of sem_create pass
    WORD    \* 2^w for the width w of a UINT32

ASSUME SemAssumption ==
    /\ WORD \in Nat \ {0}
    /\ Sizes \subseteq (0 .. WORD - 1) \X (0 .. WORD - 1)

VARIABLES cnt, max  \* per semaphore

vars == <<taskVars, objVars, cnt, max>>

Call ==
    {NoCall}
      \cup [op : {"take"}, obj : Obj, delay : Delay]
      \cup [op : {"give"}, obj : Obj]
      \cup [op : {"delete"}, obj : Obj, list : Slot \cup {NULL}]

(* Besides the types: the count of a semaphore never exceeds what its       *)
(* creator allowed, though sem_give counts down after handing over a token. *)
TypeOK ==
    /\ ObjTypeOK
    /\ call \in [Slot -> Call]
    /\ cnt \in [Obj -> 0 .. WORD - 1]
    /\ max \in [Obj -> 0 .. WORD - 1]
    /\ \A s \in Obj : valid[s] => cnt[s] <= max[s]

Init ==
    /\ ObjInit
    /\ cnt = [s \in Obj |-> 0]
    /\ max = [s \in Obj |-> 0]

-----------------------------------------------------------------------------
sem_create(init, m) ==
    /\ Create
    /\ IF Free = {}
       THEN UNCHANGED <<cnt, max>>
       ELSE /\ cnt' = [cnt EXCEPT ![First(Free)] = init]
            /\ max' = [max EXCEPT ![First(Free)] = m]

EnterTake(s, d) == MayBlock /\ Enter([op |-> "take", obj |-> s, delay |-> d])
EnterGive(s) == Enter([op |-> "give", obj |-> s])

TakeToken(s) ==
    /\ cnt[s] > 0
    /\ cnt' = [cnt EXCEPT ![s] = @ - 1]
    /\ UNCHANGED <<taskVars, ptrVars>>

TakeBlock(s, d) ==
    /\ cnt[s] = 0
    /\ Block(s, d)
    /\ UNCHANGED cnt

sem_take ==
    /\ Finish("take")
    /\ LET c == call[task_cur]
       IN  TakeToken(c.obj) \/ TakeBlock(c.obj, c.delay)
    /\ UNCHANGED <<valid, max>>

\* Mutants of the count a give leaves: the maximum is not looked at; the
\* token handed to a waiter is counted as well.
Given_NoMax(s) == IF next[s] = NULL THEN cnt[s] + 1 ELSE cnt[s]
Given_Twice(s) == IF cnt[s] < max[s] THEN cnt[s] + 1 ELSE cnt[s]

\* One more token, up to the maximum, and one less if a waiter gets it.
Given(s) ==
    LET c == IF cnt[s] < max[s] THEN cnt[s] + 1 ELSE cnt[s]
    IN  IF next[s] = NULL THEN c ELSE (c + WORD - 1) % WORD

sem_give ==
    /\ Finish("give")
    /\ LET s == call[task_cur].obj
       IN  /\ cnt' = [cnt EXCEPT ![s] = Given(s)]
           /\ WakeHead(s)
    /\ UNCHANGED <<valid, max>>

Next ==
    \/ SchedCall /\ UNCHANGED <<cnt, max>>
    \/ \E z \in Sizes : sem_create(z[1], z[2])
    \/ \E s \in Obj :
          /\ (\E d \in Delay : EnterTake(s, d)) \/ EnterGive(s) \/ EnterDelete(s)
          /\ UNCHANGED <<cnt, max>>
    \/ sem_take
    \/ sem_give
    \/ Delete /\ UNCHANGED <<cnt, max>>
    \/ task_tickdo /\ UNCHANGED <<cnt, max>>

\* The timer never stops; its interrupt waits only while masked.
Spec == Init /\ [][Next]_vars /\ WF_vars(task_tickdo /\ UNCHANGED <<cnt, max>>)

-----------------------------------------------------------------------------
(* A task waits only when there is no token: no wake-up is lost between the *)
(* count and the list.                                                      *)
NoLostToken ==
    \A s \in Obj : (\E t \in Slot : wait_id[t] = s) => cnt[s] = 0

(* A task that is ready gets the processor, unless the scheduler is locked  *)
(* or sem_create has found the pool full: it then returns with interrupts   *)
(* disabled, and no other task runs until its caller makes another call.    *)
ReadyRuns ==
    \A t \in Slot :
        task_state[t] = READY
            ~> (task_cur = t \/ masked \/ task_sched_sign = LOCK)
=============================================================================
