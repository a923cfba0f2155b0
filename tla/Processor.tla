------------------------------ MODULE Processor ------------------------------
(***************************************************************************)
(* What the processor is to the tasks: one of them runs; it may give the   *)
(* processor to another one from inside a critical section, which it will  *)
(* find itself in again when it comes back, and it may lose it to another  *)
(* one outside of critical sections only.                                  *)
(*                                                                         *)
(* The modules about tasks, semaphores and messages take a critical        *)
(* section for one step, up to its end or up to the switch in it.  This is *)
(* what they need of the machine code; SwitchMips and SwitchArm say what   *)
(* it gives them.                                                          *)
(***************************************************************************)
CONSTANTS
    Task,
    Idle,       \* the task that boots
    TailMasked  \* a section stays masked after the switch in it

VARIABLES
    cur,  \* the running task
    pos   \* per task: outside of critical sections, in one before a switch,
          \* or in one behind the switch

vars == <<cur, pos>>

Init ==
    /\ cur = Idle
    /\ pos = [t \in Task |-> "run"]

Enter ==
    /\ pos[cur] = "run"
    /\ pos' = [pos EXCEPT ![cur] = "critical"]
    /\ UNCHANGED cur

Leave ==
    /\ pos[cur] # "run"
    /\ pos' = [pos EXCEPT ![cur] = "run"]
    /\ UNCHANGED cur

Give(u) ==
    /\ pos[cur] = "critical"
    /\ pos' = [pos EXCEPT ![cur] = "returned"]
    /\ cur' = u

Lose(u) ==
    /\ \/ pos[cur] = "run"
       \/ pos[cur] = "returned" /\ ~TailMasked
    /\ cur' = u
    /\ UNCHANGED pos

Next == Enter \/ Leave \/ \E u \in Task \ {cur} : Give(u) \/ Lose(u)

Spec == Init /\ [][Next]_vars
=============================================================================
