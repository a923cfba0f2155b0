------------------------------ MODULE SwitchArm ------------------------------
(***************************************************************************)
(* The machine code that changes tasks on ARM: the interrupt handler of    *)
(* src/arch/arm/abnormal.s, which has a stack and an lr of its own,        *)
(* task_switch of src/task/task_asm.S, and int_disable and int_enable.     *)
(* Which task runs next is left open; the question is what a task finds    *)
(* when it runs again.                                                     *)
(*                                                                         *)
(* A register holds the name of the task that left its value there, or     *)
(* Junk.  "r4" is r4 to r11, which C functions leave as they are; "lr" the *)
(* lr of the tasks' mode.  r12, which the handler saves only after it has   *)
(* called C functions, is left out.                                        *)
(*                                                                         *)
(* What runs masked is one step: the handler, which unmasks with its last  *)
(* instruction, and task_switch up to its write of cpsr, which unmasks for *)
(* a task that is new or was interrupted.  r1, r2 and pc then still go     *)
(* over the stack of that task, and interrupts can come there.             *)
(***************************************************************************)
EXTENDS Integers

CONSTANTS
    Task,
    Idle,   \* the task that boots
    Junk    \* a value that is of no use to any task

\* In task_switch, behind the write of cpsr: before pc has been pushed, which
\* is in the context at first, and then in r2; and before r1, r2 and pc are
\* popped.
Place == {"address", "pop"}

ASSUME SwitchAssumption == Idle \in Task /\ Junk \notin Task

VARIABLES
    cur,     \* the running task
    pos,     \* per task: where it is in its code (see Processor)
    mode,    \* "svc" in a task's own code or a Place, "irq" in the handler,
             \* or "lost"
    cpu,     \* the registers
    sp,      \* r13 of the tasks' mode, relative to what the task expects
    masked,  \* the I bit of cpsr
    spsr,    \* the I bit of spsr
    frame,   \* r0-r3, spsr and lr on the stack of the handler
    stack,   \* per task: r1 and r2, as pushed by task_switch
    ctx,     \* per task: task_ctx
    new      \* the tasks that have not run yet

vars == <<cur, pos, mode, cpu, sp, masked, spsr, frame, stack, ctx, new>>

Args == {"r0", "r1", "r2", "r3"}
Reg == Args \cup {"r4", "lr"}

Regs(S) == [S -> Task \cup {Junk}]
At == {"svc"} \cup Place

(* The handler is never interrupted, though the code it calls enables       *)
(* interrupts.                                                              *)
TypeOK ==
    /\ cur \in Task
    /\ pos \in [Task -> {"run", "critical", "returned"}]
    /\ mode \in At \cup {"irq", "lost"}
    /\ cpu \in Regs(Reg)
    /\ sp \in {-24, -12, 0}
    /\ masked \in BOOLEAN
    /\ spsr \in BOOLEAN
    /\ frame \in [regs : Regs(Args), spsr : BOOLEAN, at : At]
    /\ stack \in [Task -> Regs({"r1", "r2"})]
    /\ ctx \in [Task -> [regs : Regs(Reg), sp : {-12, 0}, masked : BOOLEAN, at : At]]
    /\ new \subseteq Task
    /\ mode = "irq" => masked

\* timer_init has enabled interrupts; task_create leaves 0x13 for cpsr.
Init ==
    /\ cur = Idle
    /\ pos = [t \in Task |-> "run"]
    /\ mode = "svc"
    /\ cpu = [r \in Reg |-> Idle]
    /\ sp = 0
    /\ masked = FALSE
    /\ spsr = FALSE
    /\ frame = [regs |-> [r \in Args |-> Junk], spsr |-> FALSE, at |-> "svc"]
    /\ stack = [t \in Task |-> [r \in {"r1", "r2"} |-> Junk]]
    /\ ctx = [t \in Task |->
                 [regs |-> [r \in Reg |-> t], sp |-> 0, masked |-> FALSE, at |-> "svc"]]
    /\ new = Task \ {Idle}

-----------------------------------------------------------------------------
(* A task. *)

is_inirq == mode = "irq"

\* Mutant: interrupts are enabled in the handler, too.
Enabled_Always(m) == FALSE
Enabled(m) == is_inirq /\ m

int_disable ==
    /\ mode = "svc"
    /\ pos[cur] = "run"
    /\ pos' = [pos EXCEPT ![cur] = "critical"]
    /\ masked' = TRUE
    /\ UNCHANGED <<cur, mode, cpu, sp, spsr, frame, stack, ctx, new>>

\* The task goes on to other code, and fills the registers anew that do not
\* outlive a call.
int_enable ==
    /\ mode = "svc"
    /\ pos[cur] # "run"
    /\ pos' = [pos EXCEPT ![cur] = "run"]
    /\ masked' = Enabled(masked)
    /\ cpu' = [r \in Reg |-> IF r = "r4" THEN cpu[r] ELSE cur]
    /\ UNCHANGED <<cur, mode, sp, spsr, frame, stack, ctx, new>>

\* The two halves of task_switch.  r0 has been used to walk over the context
\* when it is stored.
SavedByCall ==
    [regs |-> [cpu EXCEPT !["r0"] = Junk], sp |-> sp, masked |-> masked, at |-> "svc"]

\* Mutant: every task goes on with the cpsr of a new one.
AfterCall_AsNew(c) == [c EXCEPT !.masked = FALSE]

\* What of a context goes to the processor: cpsr included.
AfterCall(c) == c

\* Up to the write of cpsr.  A task whose own way through here was cut short has
\* what it left on its stack there overwritten, or the address it goes back to
\* looked up in its context, where it now finds this place; it is not followed.
\* The idle task does not block.
task_switch(u) ==
    /\ mode = "svc"
    /\ pos[cur] = "critical"
    /\ cur # Idle
    /\ ctx' = [ctx EXCEPT ![cur] = SavedByCall]
    /\ pos' = [pos EXCEPT ![cur] = "returned"]
    /\ cur' = u
    /\ new' = new \ {u}
    /\ mode' = IF ctx[u].at = "svc" THEN "address" ELSE "lost"
    /\ LET c == AfterCall(ctx[u])
       IN  /\ cpu' = [r \in Reg |-> IF r \in {"r1", "r2"} THEN Junk ELSE c.regs[r]]
           /\ stack' = [stack EXCEPT ![u] = [r \in {"r1", "r2"} |-> c.regs[r]]]
           /\ sp' = c.sp - 12
           /\ masked' = c.masked
    /\ UNCHANGED <<spsr, frame>>

push ==
    /\ mode = "address"
    /\ mode' = "pop"
    /\ UNCHANGED <<cur, pos, cpu, sp, masked, spsr, frame, stack, ctx, new>>

pop ==
    /\ mode = "pop"
    /\ mode' = "svc"
    /\ cpu' = [r \in Reg |-> IF r \in {"r1", "r2"} THEN stack[cur][r] ELSE cpu[r]]
    /\ sp' = sp + 12
    /\ UNCHANGED <<cur, pos, masked, spsr, frame, stack, ctx, new>>

-----------------------------------------------------------------------------
(* The interrupt handler. *)

__vector_irq ==
    /\ mode \in At
    /\ ~masked
    /\ mode' = "irq"
    /\ spsr' = masked
    /\ masked' = TRUE
    /\ frame' = [regs |-> [r \in Args |-> cpu[r]], spsr |-> masked, at |-> mode]
    /\ UNCHANGED <<cur, pos, cpu, sp, stack, ctx, new>>

\* What a C function may leave of the registers.
Called(regs) == [r \in Reg |-> IF r \in Args THEN Junk ELSE regs[r]]

\* common_irq_handler or task_tickdo, which may call msg_send and with it
\* int_enable.
Handler ==
    /\ mode = "irq"
    /\ cpu' = Called(cpu)
    /\ masked' = Enabled(masked)
    /\ UNCHANGED <<cur, pos, mode, sp, spsr, frame, stack, ctx, new>>

\* int_clear_int, and back.
retfromirq ==
    /\ mode = "irq"
    /\ mode' = frame.at
    /\ cpu' = [r \in Reg |-> IF r \in Args THEN frame.regs[r] ELSE cpu[r]]
    /\ spsr' = frame.spsr
    /\ masked' = frame.spsr
    /\ UNCHANGED <<cur, pos, sp, frame, stack, ctx, new>>

\* r4-r11 are stored as they are by now, r0-r3 as they were pushed.
SavedByIrq ==
    [regs |-> [r \in Reg |-> IF r \in Args THEN frame.regs[r] ELSE cpu[r]],
     sp |-> sp, masked |-> frame.spsr, at |-> frame.at]

\* Mutant: r0 and r1 are not kept over the call of int_clear_int.
Restored_NotPushed(regs) == Called(regs)

\* r0 and r1 are popped after int_clear_int, the others loaded before it.  A
\* new task expects its arguments only, in r0 and r1.
Restored(regs) ==
    [r \in Reg |-> IF r \in {"r0", "r1"} THEN regs[r] ELSE Called(regs)[r]]

\* A task that goes on where it still needs the address it had in r2, or in
\* its context, where taskswichirq has stored this place, has lost it.
taskswichirq(u) ==
    /\ mode = "irq"
    /\ ctx' = [ctx EXCEPT ![cur] = SavedByIrq]
    /\ cur' = u
    /\ new' = new \ {u}
    /\ mode' = IF ctx[u].at = "address" THEN "lost" ELSE ctx[u].at
    /\ cpu' = IF u \in new THEN ctx[u].regs ELSE Restored(ctx[u].regs)
    /\ sp' = ctx[u].sp
    /\ spsr' = ctx[u].masked
    /\ masked' = ctx[u].masked
    /\ UNCHANGED <<pos, frame, stack>>

\* What a lost task does is not modelled.
Astray == mode = "lost" /\ UNCHANGED vars

Next ==
    \/ int_disable
    \/ int_enable
    \/ push
    \/ pop
    \/ __vector_irq
    \/ Handler
    \/ retfromirq
    \/ \E u \in Task \ {cur} : task_switch(u) \/ taskswichirq(u)
    \/ Astray

Spec == Init /\ [][Next]_vars

-----------------------------------------------------------------------------
(* Safety *)

(* Every task finds its stack pointer and the registers that outlive a call,*)
(* whichever way it left and whichever way it comes back; an interrupted    *)
(* task finds r0, r1 and its return address as well.  (r2 and r3 it does    *)
(* not: int_clear_int, which the handler calls after it has loaded them,    *)
(* uses them up.)  A task that called task_switch itself comes back masked, *)
(* and is not lost on the way: those that are were new, or interrupted.     *)
ContextKept ==
    /\ mode = "svc" =>
        /\ sp = 0 /\ cpu["r4"] = cur
        /\ pos[cur] # "returned" => \A r \in {"r0", "r1", "lr"} : cpu[r] = cur
    /\ mode = "lost" => pos[cur] = "run"

(* A critical section is not interrupted, neither before the switch in it   *)
(* nor behind it.                                                           *)
P == INSTANCE Processor WITH TailMasked <- TRUE
ImplementsProcessor == P!Spec
=============================================================================
