----------------------------- MODULE SwitchMips -----------------------------
(***************************************************************************)
(* The machine code that changes tasks on MIPS: the exception handler of   *)
(* src/arch/mips/boot_setup.S, task_switch of src/task/task_asm.S, and     *)
(* int_disable and int_enable.  Which task runs next is left open; the     *)
(* question is what a task finds when it runs again.                       *)
(*                                                                         *)
(* A register holds the name of the task that left its value there, an     *)
(* address, or Junk.  The address of a task's own code is its name.        *)
(* Registers that every path treats alike are one: "gpr" is at, v1, a0,    *)
(* t0-t9, s0-s7, gp, fp and ra.  HI and LO, which no path saves, and the   *)
(* word at 0(sp), which the handler overwrites, are left out, and what is  *)
(* below the stack pointer is forgotten.                                   *)
(*                                                                         *)
(* A part that runs with interrupts disabled is one step.  The handler     *)
(* does up to where taskswichirq writes Status: a new task's enables them  *)
(* there, and three places follow at which an exception differs in what it *)
(* destroys.  task_switch does up to its write of Status.                  *)
(***************************************************************************)
EXTENDS Integers

CONSTANTS
    Task,
    Idle,   \* the task that boots
    Junk    \* a value that is of no use to any task

\* Where an exception can come outside of a task's own code, and the task go
\* on: in taskswichirq before the registers are loaded, and before k0 is; in
\* task_switch before the jump to a3.
Place == {"load", "loaded", "jump"}

ASSUME SwitchAssumption ==
    /\ Idle \in Task
    /\ Junk \notin Task \cup Place
    /\ Task \cap (Place \cup {"jr", "handler", "lost"}) = {}

VARIABLES
    cur,     \* the running task
    pos,     \* per task: where it is in its code (see Processor)
    pc,      \* the running task in its code, a Place, "jr" in taskswichirq
             \* behind the load of k0, "handler", or "lost"
    cpu,     \* the registers
    sp,      \* the stack pointer, relative to what the task expects
    status,  \* the interrupt enable bits of Status, current to old
    k1,      \* register k1 holds INTERRUPT_MAGIC_WORD
    stack,   \* per task: the frames on its stack, by the value of sp
    ctx,     \* per task: task_ctx
    left,    \* per task: how it left its code, "new" before it has run
    mixed    \* history: task_switch has been to a task that left otherwise

vars == <<cur, pos, pc, cpu, sp, status, k1, stack, ctx, left, mixed>>

Scratch == {"v0", "a1", "a2", "a3"}
Reg == {"gpr"} \cup Scratch

Address == Task \cup Place
Bits == [c : BOOLEAN, p : BOOLEAN, o : BOOLEAN]
Regs == [Reg -> Address \cup {Junk}]
Frame == [regs : Regs, pc : Address \cup {Junk}]

(* The handler proper runs with interrupts disabled, though the code it     *)
(* calls enables them.  Frames are nested no deeper than two: the outer one *)
(* is that of a task caught while taskswichirq loads its registers.         *)
TypeOK ==
    /\ cur \in Task
    /\ pos \in [Task -> {"run", "critical", "returned"}]
    /\ pc \in {cur, "jr", "handler", "lost"} \cup Place
    /\ cpu \in Regs
    /\ sp \in {-240, -120, 0}
    /\ status \in Bits
    /\ k1 \in BOOLEAN
    /\ stack \in [Task -> [{-240, -120} -> Frame]]
    /\ ctx \in [Task -> [regs : Regs, pc : Address, sp : {-240, -120}, st : Bits]]
    /\ left \in [Task -> {"new", "call", "irq"}]
    /\ mixed \in BOOLEAN
    /\ pc = "handler" => ~status.c

\* task_create: Status is 0x408005, and the stack pointer leaves room for the
\* frame that is popped when the task runs first.
Fresh(t) ==
    [regs |-> [r \in Reg |-> t], pc |-> t, sp |-> -120,
     st |-> [c |-> TRUE, p |-> TRUE, o |-> FALSE]]

Nothing == [regs |-> [r \in Reg |-> Junk], pc |-> Junk]

\* timer_init has enabled interrupts; the older bits are what reset left.
Init ==
    /\ cur = Idle
    /\ pos = [t \in Task |-> "run"]
    /\ pc = Idle
    /\ cpu = [r \in Reg |-> Idle]
    /\ sp = 0
    /\ status \in {b \in Bits : b.c}
    /\ k1 = FALSE
    /\ stack = [t \in Task |-> [a \in {-240, -120} |-> Nothing]]
    /\ ctx = [t \in Task |-> Fresh(t)]
    /\ left = [t \in Task |-> "new"]
    /\ mixed = FALSE

-----------------------------------------------------------------------------
(* The enable bits. *)

Exception(s) == [c |-> FALSE, p |-> s.c, o |-> s.p]

rfe(s) == [c |-> s.p, p |-> s.o, o |-> s.o]

is_inirq == k1

\* Mutant: interrupts are enabled in the handler, too.
Enabled_Always(s) == [s EXCEPT !.c = TRUE]
Enabled(s) == IF is_inirq THEN s ELSE [s EXCEPT !.c = TRUE]

\* Mutant: the wrong bit.
Disabled_Previous(s) == IF is_inirq THEN s ELSE [s EXCEPT !.p = FALSE]
Disabled(s) == IF is_inirq THEN s ELSE [s EXCEPT !.c = FALSE]

-----------------------------------------------------------------------------
(* A task. *)

int_disable ==
    /\ pc = cur
    /\ pos[cur] = "run"
    /\ pos' = [pos EXCEPT ![cur] = "critical"]
    /\ status' = Disabled(status)
    /\ UNCHANGED <<cur, pc, cpu, sp, k1, stack, ctx, left, mixed>>

\* The task goes on to other code, and fills the registers anew that do not
\* outlive a call.
int_enable ==
    /\ pc = cur
    /\ pos[cur] # "run"
    /\ pos' = [pos EXCEPT ![cur] = "run"]
    /\ status' = Enabled(status)
    /\ cpu' = [r \in Reg |-> IF r = "gpr" THEN cpu[r] ELSE cur]
    /\ UNCHANGED <<cur, pc, sp, k1, stack, ctx, left, mixed>>

SavedByCall == [regs |-> cpu, pc |-> cur, sp |-> sp - 120, st |-> status]

\* Interrupts are on again if they were before the last exception.
ByCall(s) == IF s.p THEN [s EXCEPT !.c = TRUE] ELSE s

\* Up to the write of Status.  The scratch registers are used up on the way,
\* a3 for the address to go to.  The idle task does not block.
task_switch(u) ==
    /\ pc = cur
    /\ pos[cur] = "critical"
    /\ cur # Idle
    /\ ctx' = [ctx EXCEPT ![cur] = SavedByCall]
    /\ left' = [left EXCEPT ![cur] = "call"]
    /\ pos' = [pos EXCEPT ![cur] = "returned"]
    /\ cur' = u
    /\ pc' = "jump"
    /\ cpu' = [r \in Reg |-> IF r = "a3" THEN ctx[u].pc
                             ELSE IF r \in Scratch THEN Junk ELSE ctx[u].regs[r]]
    /\ sp' = ctx[u].sp + 120
    /\ status' = ByCall(ctx[u].st)
    /\ mixed' = (mixed \/ left[u] = "irq")
    /\ UNCHANGED <<k1, stack>>

\* A new task expects nothing in the scratch registers (its argv is in a1, but
\* no task function takes parameters), and fills them.
Started(regs, to) ==
    [r \in Reg |-> IF to = cur /\ left[cur] = "new" /\ r \in Scratch THEN cur
                   ELSE regs[r]]

\* jr a3.  If a3 leads to this jump again, the task has lost its way: it goes
\* round here for ever.
jump ==
    /\ pc = "jump"
    /\ pc' = IF cpu["a3"] = "jump" THEN "lost" ELSE cpu["a3"]
    /\ cpu' = Started([cpu EXCEPT !["a3"] = Junk], cpu["a3"])
    /\ UNCHANGED <<cur, pos, sp, status, k1, stack, ctx, left, mixed>>

-----------------------------------------------------------------------------
(* The exception handler. *)

\* The registers and EPC are pushed below the stack pointer.  Nobody saves k0,
\* and every way out of the handler loads it anew: a task that needs k0 has
\* lost its way.
lowlevelpanic ==
    /\ pc \in {cur, "jr"} \cup Place
    /\ status.c
    /\ pc' = IF pc = "jr" THEN "lost" ELSE "handler"
    /\ status' = Exception(status)
    /\ k1' = TRUE
    /\ stack' = IF pc = "jr" THEN stack
                ELSE [stack EXCEPT ![cur][sp - 120] = [regs |-> cpu, pc |-> pc]]
    /\ sp' = sp - 120
    /\ UNCHANGED <<cur, pos, cpu, ctx, left, mixed>>

\* common_irq_handler or task_tickdo, which may call msg_send and with it
\* int_enable.
Handler ==
    /\ pc = "handler"
    /\ cpu' = [r \in Reg |-> Junk]
    /\ status' = Enabled(status)
    /\ UNCHANGED <<cur, pos, pc, sp, k1, stack, ctx, left, mixed>>

Top == stack[cur][sp]
Popped == [stack EXCEPT ![cur][sp] = Nothing]

\* Interrupts are disabled up to the rfe.
retfromirq ==
    /\ pc = "handler"
    /\ pc' = Top.pc
    /\ cpu' = Top.regs
    /\ stack' = Popped
    /\ sp' = sp + 120
    /\ status' = rfe(status)
    /\ k1' = FALSE
    /\ UNCHANGED <<cur, pos, ctx, left, mixed>>

\* Mutant: the registers are saved as the handler has left them.
SavedByIrq_Late == [regs |-> cpu, pc |-> Top.pc, sp |-> sp, st |-> status]

SavedByIrq == [regs |-> Top.regs, pc |-> Top.pc, sp |-> sp, st |-> status]

\* Up to the write of Status.  The context of the new task is copied to its
\* stack, to be loaded from there.
taskswichirq(u) ==
    /\ pc = "handler"
    /\ ctx' = [ctx EXCEPT ![cur] = SavedByIrq]
    /\ left' = [left EXCEPT ![cur] = IF Top.pc = cur THEN "irq" ELSE @]
    /\ cur' = u
    /\ pc' = "load"
    /\ cpu' = [r \in Reg |-> Junk]
    /\ stack' = [Popped EXCEPT ![u][ctx[u].sp] = [regs |-> ctx[u].regs, pc |-> ctx[u].pc]]
    /\ sp' = ctx[u].sp
    /\ status' = ctx[u].st
    /\ UNCHANGED <<pos, k1, mixed>>

\* The registers up to ra; one that is not loaded yet when an exception comes
\* is loaded behind it.
load ==
    /\ pc = "load"
    /\ pc' = "loaded"
    /\ cpu' = Top.regs
    /\ UNCHANGED <<cur, pos, sp, status, k1, stack, ctx, left, mixed>>

\* lw k0, 120(sp)
load_k0 ==
    /\ pc = "loaded"
    /\ pc' = "jr"
    /\ UNCHANGED <<cur, pos, cpu, sp, status, k1, stack, ctx, left, mixed>>

\* From there to jr k0 and rfe.
jr ==
    /\ pc = "jr"
    /\ pc' = Top.pc
    /\ cpu' = Started(cpu, Top.pc)
    /\ stack' = Popped
    /\ sp' = sp + 120
    /\ status' = rfe(status)
    /\ k1' = FALSE
    /\ UNCHANGED <<cur, pos, ctx, left, mixed>>

\* A lost task jumps back to where it is, again and again.  What its stack
\* pointer overwrites if it is moved on with every round is not followed.
Astray == pc = "lost" /\ UNCHANGED vars

Next ==
    \/ int_disable
    \/ int_enable
    \/ jump
    \/ lowlevelpanic
    \/ Handler
    \/ retfromirq
    \/ load \/ load_k0 \/ jr
    \/ \E u \in Task \ {cur} : task_switch(u) \/ taskswichirq(u)
    \/ Astray

Spec == Init /\ [][Next]_vars

-----------------------------------------------------------------------------
(* Safety *)

(* Every task finds its stack pointer and the registers that outlive a call,*)
(* whichever way it left and whichever way it comes back, and wherever the  *)
(* next exception catches it on the way.  What task_switch uses up is       *)
(* missed only by a task that does not expect it: one that was interrupted. *)
(* As long as such tasks are resumed by the interrupt handler alone, they   *)
(* find all of these registers too.  And no task is lost on its way but one *)
(* that is new, or that task_switch has had its hand in: one that the       *)
(* handler has interrupted and resumes is not, since Status is saved masked *)
(* in the handler, and loaded so.                                           *)
ContextKept ==
    /\ pc = cur =>
        /\ sp = 0 /\ cpu["gpr"] = cur
        /\ (pos[cur] # "returned" /\ ~mixed) => \A r \in Scratch : cpu[r] = cur
    /\ pc = "lost" => left[cur] = "new" \/ pos[cur] = "returned" \/ mixed

(* A critical section is not interrupted up to the switch in it.  Behind    *)
(* the switch it may be: task_switch enables interrupts if they were        *)
(* enabled before the last exception, which says nothing of the task.       *)
P == INSTANCE Processor WITH TailMasked <- FALSE
ImplementsProcessor == P!Spec

(* A task that is resumed finds the registers of its context: task_switch   *)
(* goes over to new_task_ctx (task_asm.S:4), however that was saved.        *)
ContextRestored ==
    (pc = cur /\ pos[cur] # "returned") => \A r \in Reg : cpu[r] = cur
=============================================================================
