----------------------------- MODULE KernelTime -----------------------------
(***************************************************************************)
(* Kernel with two history variables that count ticks, to state how long a *)
(* wait with a timeout lasts.  The runs check Kernel in this form.         *)
(***************************************************************************)
EXTENDS Kernel

VARIABLES asked,  \* per slot: the delay of the wait, 0 once it was cut short
          age     \* per slot: ticks since the wait began, up to asked

timeVars == <<vars, asked, age>>

TimeInit ==
    /\ Init
    /\ asked = [t \in Slot |-> 0]
    /\ age = [t \in Slot |-> 0]

Begin(d) ==
    /\ Sleep(d) \/ \E o \in Obj : Wait(o, d)
    /\ asked' = [asked EXCEPT ![task_cur] = d]
    /\ age' = [age EXCEPT ![task_cur] = 0]

CutShort(o) ==
    /\ Signal(o)
    /\ asked' = [t \in Slot |-> IF wait_id'[t] # wait_id[t] THEN 0 ELSE asked[t]]
    /\ UNCHANGED age

Elapse ==
    /\ Tick
    /\ age' = [t \in Slot |-> IF age[t] < asked[t] THEN age[t] + 1 ELSE age[t]]
    /\ UNCHANGED asked

Other ==
    /\ Create \/ Lock \/ Unlock \/ \E o \in Obj : Delete(o)
    /\ UNCHANGED <<asked, age>>

TimeNext ==
    \/ \E d \in Delay : Begin(d)
    \/ \E o \in Obj : CutShort(o)
    \/ Elapse
    \/ Other

TimeSpec == TimeInit /\ [][TimeNext]_timeVars

(* A wait for d ticks that nobody cuts short lasts until the d-th tick,     *)
(* neither less nor more: task_tickdo decrements exactly once per tick and  *)
(* makes the task READY at the tick at which the count reaches 0, however   *)
(* the scheduler, locks and deletions interleave.                           *)
OnTime ==
    \A t \in Slot :
        asked[t] # 0 => (task_state[t] = PEND <=> age[t] < asked[t])

\* Why OnTime holds: while a task waits, the ticks it has waited and those
\* still counted for it add up to the delay it asked for.
TimeInv ==
    /\ asked \in [Slot -> Nat]
    /\ age \in [Slot -> Nat]
    /\ \A t \in Slot :
          asked[t] # 0 =>
             IF task_state[t] = PEND
             THEN age[t] < asked[t] /\ task_sleeptime[t] = asked[t] - age[t]
             ELSE age[t] = asked[t]
=============================================================================
