# Lotus Works in TLA+

Lotus Works is a small round-robin kernel for ARM (S3C2440, SkyEye) and MIPS
(vMIPS): tasks, a tick, semaphores, message queues, a console task and a print
task. This directory holds TLA+ modules translated from its source, the TLC
configurations that check them on small instances, and TLAPS proofs about the
scheduler, the task ring, the wait lists, semaphores, message queues, the context
switch, interrupts, start-up, the console and printing. Paths below are relative to the repository.

    tlc -config Kernel.cfg KernelTime.tla  # a run (PROJECT.json lists them all)
    tlapm KernelProofs.tla                 # proofs; likewise the other *Proofs.tla

## 1. Inventory

| Component | State it keeps | Operations | Used by |
|---|---|---|---|
| scheduler, `task/task.c`, `task_api.c` | `task_init` table, `task_cur`, `task_sched_sign`, `ticknum` | `task_sched`, `task_nextrun`, `task_tickdo`, `task_delay`, lock/unlock | everything |
| task ring, `task/task.c` | circular list `task_head`..`task_tail` | `task_create`, `task_show`, `task_delete` (unused) | scheduler, tick |
| semaphores, `sem/sem.c` | pool `sem_src`, a count, a bound and a doubly linked wait list each | `sem_create`, `sem_take`, `sem_give`, `sem_delete` | tasks, tick |
| message queues, `msg/msg.c` | pool `msg_src`, one array of ring buffers `msg_src_buf`, a wait list each | `msg_create`, `msg_send`, `msg_rcv`, `msg_delete` | tasks, UART interrupt, tick |
| context switch, `task/task_asm.S`, `arch/arm/abnormal.s`, `arch/mips/boot_setup.S` | registers, `task_ctx`, handler stacks | `task_switch`, interrupt entry, switch in the interrupt, return | scheduler |
| interrupts, `int/interrupt.c`, `int_api.c` | interrupt enable bits, masks, `irq_func` | `int_disable`, `int_enable`, `is_inirq`, dispatch, registration, clearing | everything |
| uart, `uart/uart.c` | line buffer `uart0_rcv` | `uart_init`, `int_uart0`, `int_uart0_char_handle` | user; sends lines to ltai |
| mmu, `mem/mmu.c` | page table | `init_sys_mmu`, `start_mmu` | every access on ARM |
| start-up, `arch/*/boot.c` | none | `plat_boot` | runs once, partly with interrupts on |
| ltai, `ltai/ltai.c` | `ltai_cur_state`, its queue | `ltai_main`, `ltai_machine`, `ltai_get_msg` | uart, print |
| print, `std/print.c` | print queue, shared array `numbers` | `printk`, `ltprintf`, print task, `number`, `vsnprintf` | everything |
| clocks, string helpers | registers; none | `clk_init`; `strcmp`, `strcpy`, `memset`, ... | start-up; everything |

How they interact. Tasks call the kernel directly. A call that blocks puts the
caller on a wait list, sets it `TASK_PEND` and calls `task_sched`, which changes
tasks synchronously. The clock interrupt runs `task_tickdo`, which counts down
every sleeping task, takes those that are due off their lists, and changes tasks
on the way out of the interrupt. The UART interrupt edits the line and sends it
to ltai by `msg_send`; ltai answers by `ltprintf`, a `msg_send` to the print
task, which shows one text per tick. Start-up enables interrupts half-way, in
`timer_init`, and creates the print task and ltai only then.

What is hard about it, and what makes each part correct:

* **Scheduler.** Two ways of switching share one walk of the list. One task is
  RUN; no ready task is overtaken for ever; a delay of *d* ends at the *d*-th
  tick; the scheduler lock keeps the processor.
* **Task ring.** `task_create` and `task_show` work on it with interrupts
  enabled for part of the time, and every walk of the scheduler goes along it.
  It holds all tasks in the order of their slots.
* **Wait lists.** Appended by calls, unlinked at any position by the tick and at
  the head by gives and sends, forgotten by deletes. First come, first served;
  the pointers agree with `sem_id` and `msg_id`; a token is never left while a
  task waits.
* **Message buffers.** Header and text wrap differently; sender and receiver
  find positions separately, and on MIPS a receiver that goes on is interrupted
  by senders. Messages come out whole, once, in order.
* **Message blocking.** A woken receiver looks again only when it runs. No
  message is stranded while somebody waits.
* **Context switch.** Two ways out of a task and two ways in, in any
  combination. Registers, stack and interrupt bits must match. On MIPS both ways
  in, and on ARM one of them, may enable interrupts before they are done.
* **Interrupts and start-up.** Clearing one source clears all on ARM; on both
  processors a tick can come between its being served and its being cleared. What
  a handler uses must be there when interrupts are enabled, at the address it has
  then. An event is dropped at named times only and is served otherwise.
* **Printing.** One array of digits for all callers; every part of a text is
  kept within the array by a test of its own. What is shown is the start of what
  was meant.
* **Console.** Two queues, two tasks, an interrupt. The answers read on the
  screen are those to the lines typed.

`PROJECT.json` lists the hazards at their lines with the properties for them.

## 2. Modules

| Module | Models | Extends / instances |
|---|---|---|
| `Task` | scheduler operators, no next-state relation | |
| `Kernel` | scheduler with wait lists as orders: what blocking promises | `Task` |
| `KernelTime` | the same with history variables for the length of waits | `Kernel` |
| `KernelProofs` | theorems about `Kernel` and `KernelTime` | `KernelTime`, TLAPS |
| `TaskRing` | the scheduler on the circular list in memory, `task_create` in steps | refines `Kernel` |
| `Objects` | what `sem.c` and `msg.c` share: the pool and the wait lists as pointers | `Task`; refines `Kernel` |
| `Sem`, `MCSem` | semaphores | `Objects` |
| `MsgQueue` | several receivers with timeouts on a queue | `Objects` |
| `TaskRingProofs` | theorems about `TaskRing` | `TaskRing`, `KernelProofs`, TLAPS |
| `BlockingProofs` | theorems about `Objects`, `Sem` and `MsgQueue` | those, `KernelProofs`, TLAPS |
| `Channel` | what a message buffer promises | |
| `MsgRing` | the message buffers, word by word | refines `Channel` |
| `MsgRingProofs` | theorems about `MsgRing` | `MsgRing`, TLAPS |
| `Processor` | what critical sections promise | |
| `SwitchMips`, `SwitchArm` | machine code of the switch | refine `Processor` |
| `Uart` | the line buffer | |
| `Mmu` | the page table | |
| `SwitchMipsProofs` | theorems about the switch on MIPS | `SwitchMips`, TLAPS |
| `Boot` | start-up, interrupt controllers, dispatch | `Uart`, `Mmu` |
| `InterruptProofs` | theorems about `Boot` and about the switch on ARM | `Boot`, `SwitchArm`, TLAPS |
| `Format`, `MCFormat` | `vsnprintf` with the shared array of digits | |
| `FormatProofs` | theorems about `Format` | `Format`, TLAPS |
| `Dialogue` | UART interrupt, ltai, print task and both queues | `Kernel` |
| `DialogueProofs` | theorems about `Dialogue` | `Dialogue`, `KernelProofs`, TLAPS |

### Task and Kernel

A task is a slot of `task_init`; slot 0 is the boot code, which becomes the idle
task. Slots are handed out in order and nothing leaves the circular list, so the
list is `0 .. ntask - 1`, and `Dist` is the number of steps along it.
`task_getnextrun` is the nearest READY task behind `task_cur`. Every operator
takes the table of states as it stands at that point of the call, because the
code changes states before it walks.

| Kernel | Code |
|---|---|
| `Create` | `task_create`, from the free slot to `TASK_READY` |
| `Sleep(d)` | `task_delay(d)` |
| `Wait(o, d)` | the blocking part of `sem_take` and `msg_rcv` |
| `Signal(o)` | the waking part of `sem_give` and `msg_send` |
| `Delete(o)` | the walk in `sem_delete`, `msg_delete`: waiters lose `sem_id`/`msg_id` and stay blocked |
| `Tick` | `task_tickdo` and `task_nextrun`, one interrupt |
| `Lock`, `Unlock` | `task_locksched`, `task_unlocksched` |

A wait list is the order it puts on its members: `ahead[t]` is the set of tasks
in front of `t`. A step is what happens from `int_disable` to `int_enable`, or to
the switch in between; `Processor` and the two `Switch` modules are about why
that is a step.

Rules of use. `MayBlock` says that the idle task does not block (after start-up
it only loops) and that a task does not block while it has the scheduler locked:
`task_sched` then returns to a caller in state PEND, and `OneRunning` and
`WaitingIsPending` fail. No caller in the repository does either.

### TaskRing

What `Task` takes for granted, that the list is `0 .. ntask - 1`, is shown here:
`next`, `task_tail` and the walks are as in memory, `task_create` chooses its
slot in one step and links it in another, and `task_show` follows the list one
task at a time while the others go on. The rule of use, `MayCreate`: one task at
a time is between the two steps of `task_create`. Two would choose the same slot,
and `RingInOrder` fails; the code creates tasks from the idle task only.
`task_delete` is left out: nothing calls it, and a comment (task.c:129) says that
it has a bug.

### Objects, Sem, MsgQueue

`sem.c` and `msg.c` are the same code where it concerns the pool and the wait
lists, so that part is one module. The list header of an object and the chain of
a task are nodes with `next` and `prev`. The calls look at type and flag (and, in
a delete, read the head of the list) before `int_disable`: each is an `Enter...`
step and a second step, with interrupts in between. `masked` is the return of a
create from a full pool with interrupts disabled; nothing but the same task then
runs until its next call.

`Sem` adds the counts. Tokens are words, taken modulo `WORD`. `MsgQueue` adds the
messages and takes the buffers to be sound. `msg_rcv` is one step up to its
return or its block, and `msg_rcv_resume` is the part behind `task_sched`;
senders are tasks or the UART interrupt. In `MsgQueue` the check of the queue and
the rest of a call are one step, since its run deletes no queue.

A deletion is done once, with the scheduler locked and with no other task inside
a call on the same object. These are rules of use, and the code has no test for
them: that a semaphore is deleted between another task's check (sem.c:53,
msg.c:150) and its `int_disable` is the half of that hazard which no property
covers. Other ways break the lists: two deletes that overlap, or a second delete
of the same semaphore, violate `ListsLinked`, `NoLostToken` and `OneRunning`
(tried by hand in this model, not runs). Nor does a run have a maximum of 0 (see
`TokensNotLost` in section 4).

### MsgRing, Channel

`MsgRing` has the buffers of all queues as one memory of words, since the code
has them as one array and one flaw reaches over the end of a buffer into the
next. It has one receiver per queue; a text is a tag and a length. The first half
of `msg_rcv` is one step. Behind `task_sched` it is three, `Look`, `Copy` and
`Move`, because on MIPS interrupts may be enabled there (`SwitchMips`); on ARM
they are one, which is one of the behaviours. With a second receiver both could
take the same message on MIPS; `MsgQueue` has several, as on ARM. What a woken
receiver found, the length in the header (`msg_len`), it keeps in a local variable
(`found`) through the steps that follow.

`Channel` is the queue as a sequence of messages. The refinement mapping takes
that sequence from the words in memory alone: `ReadFrom` reads, from the first
message that has not been received, header after header until it comes to
`phead` or sees no sign. The history variable `chan` has no part in it.

### Processor, SwitchMips, SwitchArm

A register holds the name of the task that put its value there, so "a task finds
its registers" is `cpu[r] = cur`. Registers treated alike on every path are one.
Which task runs next is left open. The MIPS module has the three pairs of enable
bits of Status with the push of an exception and the pop of `rfe`; the ARM one
has the I bits of CPSR and SPSR.

A switch that stays masked to its last instruction is a step: `taskswichirq` on
ARM. The others are a step up to their write of cpsr or Status, which enables
interrupts for a task that is new or was interrupted, and more behind it:

| SwitchArm | Code |
|---|---|
| `task_switch` | task_asm.S up to `msr cpsr` (35) |
| `push` | to the push of pc (38), at `mode = "address"` |
| `pop` | to the last instruction (40), at `"pop"` |

| SwitchMips | Code |
|---|---|
| `task_switch` | task_asm.S up to `mtc0` (149) |
| `jump` | to `jr a3` (163), at `pc = "jump"` |
| `taskswichirq` | boot_setup.S up to `mtc0` (282); the Status of a new task is 0x408005 (task.c:115), which enables interrupts here |
| `load`, `load_k0` | 298 to 326, and `lw k0` (328), at `"load"` and `"loaded"` |
| `jr` | 330 to 334, at `"jr"` |

A task caught at one of these places is interrupted like any other: its frame has
the place as its EPC, on MIPS below the context that it has not loaded yet. Some
of the places are bad. On MIPS, behind `lw k0` the handler destroys k0, and the
task jumps to wherever the handler left it; in front of `jr a3` a task that is
resumed by another task's `task_switch` finds in a3 the address of that jump. On
ARM, at `"address"`, a task that the handler resumes has lost r2, which held the
address to go to, or reads it from its context, where the handler has stored that
of this place by then; what `task_switch` does to one that it has not let go home
before is not followed. `"lost"` and the action `Astray` stand for what comes
after that, which is not modelled; `ContextKept` says which tasks can come to it.

Left out since no path saves them, or since what they hold is not used: HI and LO
and the word at `0(sp)` on MIPS, `r12` on ARM, what the handler finds below a stack
pointer on MIPS, and the argument of a new task in `a1`, which a first switch by
`task_switch` does not deliver (every task is created with argument 0).

### Uart, Mmu, Boot

`Uart` has one action per kind of key, with the line as the user sees it as a
history. A line longer than `cmd` is copied behind its end, onto the stack of the
interrupt (uart.c:76-85): `Overrun` sets `overrun`, and the handler does not go
on. `Mmu` has the page table by sections of 1 MB. `Boot` puts them together with
`plat_boot`, step by step on both processors, and with the handlers of
`interrupt.c` and `int_api.c`. The interrupt controllers and the UARTs are
external: the module head says what they do. `owed` is a history, the number of
events of each source that came and are not yet served; `Dropped` names the times
at which an event that comes is lost, so that `NothingDropped` says there are no
others. The handler of the clock is two steps on both processors: a tick between
`task_tickdo` (boot_setup.S:202) and the clearing of its interrupt (207;
`int_clear_int` on ARM) is cleared unserved. A tick that comes while another is
waiting to be served is one with it.

`idle` says whether the idle task runs. `plat_boot` goes on in that task only, and
on MIPS it alone has the keyboard unmasked: the mask is in Status, which belongs
to a task, and those made by `task_create` start with 0x408005 (task.c:115), which
lacks it.

### Format

A format is a sequence of the pieces that `format_decode` returns, and a
character a small number. `number` goes digit by digit, since all tasks share its
array and the clock interrupt changes tasks inside it. The array of the caller is
`SIZE` long, and `BEHIND` of what lies behind it is modelled too: `number` writes
there. `%l` is the one modifier that is kept, because `format_decode` never
clears its flag again; a second `%l` is shown like the first (the proof of
`TextAsFormatted` found `Meant` wrong about this, where the formats of the run had
one `%l` only; they now have two). `Numeral` defines digits from powers of the base,
not from the loop of the code.

### Dialogue

The whole console on top of `Kernel`: both tasks from their first instruction,
with program counters; queues that do not exist yet or are full; lines and empty
lines from the interrupt at any time; lines of 100 characters, which `rcv_buf` does
not hold. `ltprintf` reads `g_print_msg_id` twice (print.c:336, 345), with the
clock interrupt in between when ltai calls it, and reports only when the first
look finds no queue. If the second finds none, `msg_send` loads from address 0:
the vectors on ARM, which it takes for no queue; nothing on MIPS.

The queues are sequences of messages here. That they are so is what `MsgRing`
shows until a text is received in two pieces, and not after (msg.c:201). Every
queue has 1024 bytes, whatever `msg_create` is given (msg.c:18, 48): ordinary
lines and answers get there sooner or later. So each receive may be one of a text
in two pieces, and the model ends with it (`ended = "torn"`), as it does with a
load from address 0 that does not return (`"fault"`). What the console does after
that is not modelled, and no property speaks of it.

## 3. Runs

| Run | Bounds | Shows |
|---|---|---|
| `kernel` | idle and 4 tasks, 2 objects, delays 0, 1, 2 | `TypeOK`, `OneRunning`, `WaitingIsPending`, `ListsInOrder`: table and lists agree. `OnTime`: waits last exactly as long as asked. `NoOvertaking`, `LockKeepsProcessor`, `NoQueueJumping`: what no step does |
| `ring` | a table of 5 slots, delays 0, 1, 2 | `RingInOrder`; the walks find what `Kernel` promises (`ImplementsKernel`); a listing shows every task once (`ListingComplete`) |
| `sem` | idle and 2 tasks, 2 semaphores of at most 1 token, created, used and deleted, delays 0, 1 | the lists are linked (`ListsLinked`), no token is left while a task waits (`NoLostToken`) and none is too many (`TypeOK`); `Sem` implements `Kernel`; ready tasks run (`ReadyRuns`), except behind the scheduler lock and behind a `sem_create` that failed |
| `msg_ring` | a buffer of 11 words, texts of 1 and 2, receivers of 1 and 2, deletes | messages stay whole and in order and no room is wasted or given twice (`Intact`), and, until a text is received in two pieces, the buffer implements `Channel` |
| `msg_ring_tail` (violation) | a buffer of 8 words, texts of 1 and 3 | a header that was left behind is taken for a message |
| `msg_queue` | idle and 3 tasks, delays 0, 1, 2 messages of room | no message is stranded; the pointers implement `Kernel`; woken receivers return |
| `switch_mips`, `switch_arm` | idle and 2 tasks | registers, stack and masks (`TypeOK`, `ContextKept`); critical sections implement `Processor` |
| `switch_mips_context` (violation) | idle and 1 task | an interrupted task resumed by `task_switch` loses v0, a1, a2, a3 |
| `boot` | both processors, a line buffer of 4, `cmd` of 3 and lines of up to 4, two characters | `AccessesHit` and `HandlersReady`: start-up and the handlers find what they use. `NothingDropped`, `EventsServed`: events are served. `LineAsSeen`: ltai gets the line as the user saw it |
| `format` | 2 printers, words of 5 bits, an array of 5 with 6 behind it, formats of up to 3 pieces, of all conversions and two `%l`, with 0, the smallest number and a negative one | `TextAsFormatted`: the text shown is the start of the one meant, with wrong digits only when calls overlap, and not too long even then |
| `dialogue` | 2 lines, short, of 100 characters or empty, room for 2 lines and 3 texts | until a text is received in two pieces: the answers are those to the lines, in their order, and the state follows, as long as all lines heard are short (`RepliesFollow`); no task wakes to an empty queue (`DialogueTypeOK`); both queues are emptied, unless a long line stops them (`QueuesDrain`) |

Where the code does not do what it says. Two runs end in a violation, and are
the `findings` of `PROJECT.json`:

* `msg_ring_tail`: msg.c:201 clears a text in two pieces from behind its header
  on, so the header stays. A lap later it is received as a message, and
  a woken receiver ends in the lines marked "should not go here". The clearing
  reaches over the end of the buffer into that of the next queue.
* `switch_mips_context`: `task_switch` goes by way of v0, a1, a2, a3 and does not
  restore them. A caller of `task_switch` does not miss them; a task that the
  clock interrupted does, when another task's blocking call resumes it.

The modules show some more, which no run is kept for:

* On ARM the clock interrupt loads r2 and r3 of the task it resumes and then
  calls `int_clear_int`, which uses them (abnormal.s:118): `ContextKept` leaves
  these two out.
* On MIPS a new task that `taskswichirq` starts has interrupts enabled while its
  registers are loaded. One between `lw k0` and `jr k0` (boot_setup.S:328-333)
  destroys the address the task should go to. One behind the `mtc0` of
  `task_switch` (task_asm.S:149-163) costs a task its way if another
  task's blocking call resumes it then. On ARM the same goes for one behind its
  write of cpsr (task_asm.S:35-38), whoever resumes the task (`ContextKept` names
  them all).
* On both processors a tick between `task_tickdo` and the clearing of the clock's
  interrupt is lost.
* On ARM `int_clear_int` clears the pending bits of all sources, since it writes
  back what it read (`SRCPND |= ...`). Ticks that come while an interrupt of the
  UART is latched or served are lost. Characters that come back to back could drop
  every tick.
* On ARM a character that comes after `int_uart0` has read the one before and
  before it clears `SUBSRCPND` stays in the UART until the next (uart.c:134).
* A receive that times out also ends in "should not go here" (msg.c:225).
* `phead` of the UART line buffer is never taken back to its start: after 1024
  characters the interrupt writes behind it (`Reach` beyond the length of the
  buffer makes `LineAsSeen` fail).
* A line of more than 100 characters is copied over the end of `cmd`
  (uart.c:76-85): `Uart` tests for nothing either, and says with `overrun` that it
  has happened.
* Two calls of `number` that overlap print digits of each other
  (`TextAsFormatted` without `alone`). `number` does not test for the end of the
  caller's array and writes behind it (`BEHIND`).
* `%l` is shown as it stands, and all later conversions of the format do nothing;
  `Meant` takes this for what was meant, and no caller uses it. Of a format that
  ends with a single `%`, `format_decode` returns the closing 0 as part of the
  piece, and `vsnprintf` reads on behind it (print.c:188): such formats are left
  out, and no caller has one.
* A text that does not fit the print queue is lost without "msg send error"
  (print.c:346 compares an unsigned number with 0).
* A line of 100 characters blocks the console: `msg_send` rounds it up to more
  than `rcv_buf` holds, and ltai answers the line before it again and again
  (`LongLine`, `Stuck`; without `ShortLines`, `RepliesFollow` fails). A text of 255
  characters would do the same to the print task (print.c:311).
* A line or an answer that lies across the end of its queue leaves its header
  behind (msg.c:201), and ltai answers a line nobody typed, a lap later.
* A line that is entered before the print task has made its queue makes `ltprintf`
  call `msg_send` with NULL (print.c:345); on MIPS nothing is mapped there.
* Seen while reading, outside the models: `strncpy` writes a 0 behind what it
  copies, so `task_create` (task.c:87) writes one behind `task_name`, into
  `task_state`, which it sets afterwards; `strcpy` copies no 0; HCLK is FCLK/3 in
  arch.h:24 while `clk_init` divides by 4; the "oops!" branch of `ltai_machine`
  goes on with an entry behind the table, but `ltai_cur_state` never leaves it.

Why the bounds are enough. Three tasks beside idle are the least with a first, a
middle and a last waiter on one list, and with one ready task that could be
overtaken by two others; `kernel` has one more. Delay 1 is due in the next tick,
2 is not, 0 never is. Two objects make waiters of another list, and a pool that
is full. In `sem` two tasks are enough for a list that a delete leaves behind and
that a new semaphore in the same slot must not see; the list of three is in
`msg_queue`, where all of the same pointer code runs. A ring of five slots is
full, half full, or has one task, with the running task at any place. A buffer of
11 words holds three messages of one word of text; with texts of 1 and 2 words
messages end at every distance from the end of the buffer, headers do not fit,
and texts wrap; `msg_ring` goes on behind the first text in two pieces, and
`split`, which `Intact` and `ImplementsChannel` look at, draws the line between
what the flaw of msg.c:201 breaks and what works without it, so that the flaw
does not hide the rest. Two words behind the buffers show that the flaw reaches
the next queue. A line buffer of 4 holds a full line and the start of the next,
and a line that is too long for `cmd`. An array of 5 characters ends before,
inside and behind each kind of piece. Two lines take the dialogue through both of
its waits and to its last state; a long one that follows a short one, or comes
first, stops it in either. In the switches three tasks are one that is caught on
its way, one that runs meanwhile and one that brings it back.

Bounds that are not the code's own: `TICK_WRAP` (where the tick restarts; nothing
depends on it), `WORD` (words of 2 or 5 bits), `Room`, `LineRoom` and `TextRoom`
(messages instead of bytes), `MaxLines`, `MaxShown` (not reached), `MaxAgain` (how
often a line that is stuck makes ltai answer again; without it the answers never
end), `Reach` (as many characters as the line buffer has), `SIZE`, `BEHIND`.
`UART_RCV_BUF_LEN` and `CMD_LEN` are the code's, 1024 and 100, made small.

`CHECK_DEADLOCK FALSE` is used for `MsgRing`: after the flaw of msg.c:201 a
buffer can be full of messages the receiver does not find, with the receiver
blocked, and the queue then really stops. And for `Dialogue`, which ends where its
queues are no longer sound or a load does not return.

Fairness. `WF` of the tick, in `Sem`, `MsgQueue` and `Dialogue`: the timer is a
device that never stops, and it is masked only inside critical sections and after
a create that failed (there the property says so). On ARM the dropped ticks limit
this to users who do not type without a pause. `SF` of the step of a task: a task
that has the processor again and again gets on with its code; not weak fairness,
since the tick takes the processor away in between. In `Boot` the timer, the
steps of a handler and the return from `int_enable` are weakly fair: each goes on
unless something keeps it from doing so. The start-up code is strongly fair, as
the step of a task is above, and so is the return of the clock interrupt to the
idle task, which is always ready and is not overtaken for ever (`NoOvertaking`).
The entries of the two handlers are strongly fair: a task may disable interrupts
again and again, but an interrupt that is pending is taken between two critical
sections in the end. Nothing is assumed of senders, givers and users, and
`kernel` and `ring`, which check no liveness, assume nothing at all.

Each property has a mutant: an operator next to the one it mutates, with a
comment `Mutant:` that says what a plausible slip would do.

## 4. Proofs

The theorems hold for any number of slots, objects and tasks, any set of delays,
any maxima and starting counts, any messages and buffers, any line buffer and
characters, any lines and room in the queues of the console, and any formats, words
and arrays of printing: what the `ASSUME`s of the modules ask of the constants is
that the values make sense (a limit is a number, a name is not `NULL`). Where a theorem
needs more, it says so as a hypothesis: `NumbersFit`, that a number has room in the
array of digits (which `WordsFit` shows for words of 32 bits); every other
hypothesis is a weakness of the code (below).

| Theorem | Says |
|---|---|
| `Invariance` | `Spec => []Inv` |
| `TypeCorrect`, `OneTaskRuns`, `WaitersPend`, `OrderedLists` | the invariants of run `kernel` |
| `RoundRobinFair` | `NoOvertaking`: at each switch all other ready tasks come nearer |
| `LockHolds` | the locked scheduler keeps the processor with its task |
| `FirstComeFirstServed` | nobody gets in front of a waiter |
| `WaitsEndOnTime` | `OnTime`: a wait that nobody cuts short ends at the tick it asked for |
| `RingStaysInOrder` | `RingInOrder`: the circular list is all tasks in the order of their slots |
| `RingImplementsKernel` | walks along the circular list are the scheduler of `Kernel` |
| `ListingIsComplete` | `ListingComplete`: `task_show` lists every task once |
| `SemListsLinked`, `MsgListsLinked` | `ListsLinked`: `next` and `prev` lead through the waiters, both ways |
| `SemImplementsKernel`, `MsgImplementsKernel` | what the pointers do is what `Kernel` does with orders |
| `SemServedInOrder`, `MsgServedInOrder` | so `NoQueueJumping`, `NoOvertaking` and `LockKeepsProcessor` hold of the pointers |
| `TokensNotLost` | `NoLostToken`: no token is kept from a task that waits |
| `SemTypeCorrect`, `MsgTypeCorrect` | types and limits: no more tokens than the maximum, no more messages than there is room for |
| `MessagesNotStranded` | `NoMessageStranded`: while tasks wait, every message has a task on its way to it |
| `RingTypeCorrect` | `TypeOK` of `MsgRing`: pointers stay in their buffers |
| `RingIntact` | `Intact`: until a text is torn, unread messages are whole and in order and the room is counted right |
| `RingImplementsChannel` | `ImplementsChannel`: until then the words in memory are the FIFO channel |
| `WokenFindsUntilTorn` | until then a woken receiver finds a message (`WokenFinds`) |
| `ArmTypeCorrect`, `MipsTypeCorrect` | types; interrupts are disabled in the handler, on ARM to its last instruction, on MIPS up to the write of Status in `taskswichirq` |
| `ArmContextKept`, `MipsContextKept` | a task that is back in its code finds its registers and stack again, by whichever way it left and came back, although interrupts may come while they are loaded. Those cost none its way but a new task or one that was interrupted (ARM), or that `task_switch` has resumed (MIPS) |
| `ArmImplementsProcessor`, `MipsImplementsProcessor` | critical sections are the steps the other modules take them for |
| `EventsKept` | `NothingDropped`: an event is lost at the times of `Dropped` only, among them the window of the clock handler on both processors |
| `HandlersFindAll` | `HandlersReady`: no interrupt before its handler can run |
| `AddressesFound` | `AccessesHit`: every address reaches what it is meant for |
| `LinesAsTyped` | `LineAsSeen`: ltai gets the line that the user sees, up to the first line longer than `cmd` and while the line buffer has room |
| `BootTypeCorrect` | `AllTypeOK` |
| `ConsoleUsesKernel` | what the console does to tasks and wait lists is what `Kernel` does |
| `DialogueTypeCorrect` | `DialogueTypeOK`: types, room in the queues; and, up to the first text received in two pieces, no task wakes in `msg_rcv` to an empty queue |
| `RepliesFollowLines` | `RepliesFollow`: up to that text, the first line of 100 characters heard and a fault, the texts on their way to the screen are the answers to the lines taken |
| `FormatTypeCorrect` | `TypeOK` of `Format`: above all, a number fits the shared array |
| `TextsAsFormatted` | `TextAsFormatted`: what is shown is the start of what was meant |

`KernelProofs`. `Inv` is `TypeOK`, `TableInUse`, `OneRunning`, `IdleReady`,
`WaitingIsPending` and `ListsInOrder` together. None of the properties is
inductive alone: that at most one task is RUN needs to know that a blocking
caller always leaves the processor, which needs `IdleReady` (somebody is ready)
and `TableInUse` (and is on the list); that a switch does not revive a waiter
needs `WaitingIsPending`; that `Unlink` keeps the lists in order needs
`ListsInOrder` itself and that waiters are blocked. The argument goes through
three lemmas about the round robin: the nearest candidate exists (`LeastNat`, by
well-foundedness, and `NearestCandidate`), and where each of the two ways of
switching leads (`SchedEffect`, `NextrunEffect`). `BlockEffect` says what
blocking does to the table, once for `Sleep` and `Wait`. The steps of `Kernel`
follow one by one. A step of `KernelTime` is one of `Kernel` (`TimeStep`), so
`Inv` holds there too. `TimeInv` adds that the countdown of a waiting task and
the ticks it has waited make up the delay it asked for. `Inv` is needed to know
that a waiting task is in the table and not the one running, so that every tick
counts for it, and `TickPends` that a tick ends the waits that are due and no
others.

`TaskRingProofs`. The inductive invariant is `RingAll`: `RingInOrder` with the
state of the table, `PickInv` (the slot that the first step of `task_create`
found free is still the next one at the second) and `ShowInv` (how far a listing
has come says which tasks it has shown). With the list in order the walk from
`task_cur`, a recursive function, is `(task_cur + k) % n` (`WalkAt`, by the least
*k* where it would not be), so the first task a search meets is the nearest one
of `Task`, and each step is one of `Kernel` or leaves its state alone.

`BlockingProofs`, wait lists. `ListsLinked` is not inductive: it does not say
that no task is on two lists. `Good` says that the list of every object that
exists is a `Chain`, a sequence of nodes that `next` and `prev` follow both ways,
whose tasks are the waiters on that object. Taking a node off a chain (`GoodOff`)
and putting one at its end (`GoodOn`) keep it; a tick takes off the due tasks one
after the other. The order of a chain is the order `ahead` of `Kernel`, so each
step on the pointers is one step of `Kernel`. A delete walks from a head read
before interrupts were disabled; `Stale` says that this head still leads to the
list, over tasks that wait no longer. `KernelPromises` hands the action
properties of `Kernel` down to the modules that implement it.

`BlockingProofs`, semaphores. `CallInv` is what a call keeps between its check of
the semaphore and its work: the semaphore exists, the caller is on no list and
may block, the head is `Stale` for it. `TokenInv` is `NoLostToken` with the
counts as words and maxima above 0, `RangeInv` that no count is above its
maximum. `TokensNotLost` asks `SomeMaximum`, and the code does not check it: with
a maximum of 0, `sem_give` wakes a task and then takes the token back from a
count of 0, which becomes 0xffffffff (sem.c:126). `SemTypeCorrect` asks
`FitsMaximum`, too: `sem_create` takes any starting count.

`BlockingProofs`, message queues. `StrandInv` says that a task on a wait list is
inside `msg_rcv` on that queue and that, while one waits, the messages are no
more than the tasks on their way back to look. `MessagesNotStranded` asks
`BuffersFit`: a message that is too long for its receiver stays at the head
(msg.c:111), and the receiver goes away without it.

The switches (`InterruptProofs`, `SwitchMipsProofs`). The properties speak of the
running task. `Inv` says the same of all others by what is in their contexts
(`Left`), and of the interrupted one by what is in the frame (`Interrupted`). A
switch then moves a fact from a context to the processor and back. The refinement
needs of `Inv` that an interrupted task is not in a critical section. On ARM a
task may be at a `Place` of `task_switch` instead of in its code; `Whole` then
looks for r1 on its stack. On MIPS the task on the processor, an interrupted one
and a switched one may each be at a `Place` instead of in its code, so `Inv` says
one thing of all three, `Stands`: what a task needs at a place to find its way
home, its registers in front of a jump, the frame on its stack as long as it
loads them. Only a new task has interrupts enabled while it loads (`Loading`),
which is why frames are nested no deeper than two.

Start-up (`InterruptProofs`). `SetUp` says that what is set up is what the first
*n* steps of `plat_boot` set up, for some *n*; `Pending`, what the bits of the
interrupt controller have to do with each other. `NothingDropped` is not
inductive, since `int_clear_int` takes away every bit: an event survives it
because a tick that is owed is the one latched and not yet served, and a
character that is owed keeps its sub-source, which raises the bit again; and none
is owed while the clock's own bit is about to be cleared, since one that comes
then is `Dropped`. `MapInv` ties page table and enable bit to the same *n*, so
that an access that `AccessesHit` speaks of finds either no translation or the
whole system map. `LineInv` says that the line the user sees is what lies between
the two pointers of the buffer; `LinesAsTyped` asks that no more characters come
(`Reach`) than the buffer is long, since nothing takes `phead` back.

`MsgRingProofs`. Neither `Intact` nor the types are enough for one another: that a
send writes over nothing unread needs to know where the messages lie, and
`Intact` says so by walking along them, which no step preserves by itself. `Lay`
gives message *i* a position `u[i]` that only grows, at most one lap from `ptail`;
an offset is a position less one lap where it is past the end (`Mod`, `Pos`), and
a header that does not fit at the end is one word further (`Hd`). Within one lap
different positions are different words (`Apart` for those of two queues), so a
send, which puts one position at the end, writes to words of no message, and a
receive drops the first. `RingInv` has this for every queue whose history and
memory have not parted, until the first tear with all other words cleared
(`Clean`), and with what a waiting receiver may count on (`Quiet`: it waits at an
empty buffer, it is woken with a message there, and the message it has found is
still the first). `Clean` is needed to know that a receiver finds *nothing* in an
empty buffer: it looks at whatever lies at `ptail`. That is exactly what msg.c:201
breaks, and why the refinement ends with the first tear. `RingIntact` holds beyond
it, for the queues that have lost nothing. For the refinement, `LayRead` computes
what `ReadFrom` reads of messages laid out so. The proofs
ask of the constants that a buffer has 5 words and that messages leave four words
of it (two for the header, two to spare): `msg_send` refuses any other.

`DialogueProofs`. Every step of the console leaves the state of `Kernel` alone or
is one of its steps (`ConsoleUsesKernel`), so `Inv` holds of it. That a task made
ready in `msg_rcv` finds a message (the last conjuncts of `DialogueTypeOK`) is
not inductive: `WaitsOK` says that each task waits for its own queue only, inside
`msg_rcv` only and without a timeout, and that one inside `msg_rcv` that is off
the list has a message. So the tick wakes nobody who waits, and nobody else takes
the message. `FollowInv` needs two sequences: the lines heard are those taken and
those in the queue (`HeardOK`), and the texts shown, held, queued and yet to be
said, read as one (`Flow`), hold the replies to the lines taken (`AnswersOK`).
Most steps move a text from one part to the next; only `LtaiReceive` adds a
reply, to the line it takes. `Talk` and `RepliesIn` are recursive functions, of
which the proofs use what they are of one element more (`TalkAppend`,
`RepliesAppend`) and of two sequences in a row (`RepliesConcat`). `AnswersOK`
holds as long as `ShortLines`, that no line of 100 characters has been heard
(ltai.c:103). `MarksOK` says that ltai is inside `ltprintf` only with a text to
send. That the queues are sound is assumed of no step: the ones that break them
set `ended`, and nothing follows.

`FormatProofs`. `TextAsFormatted` speaks of a call that is done; `FormatInv` says
how far each call has come. Before a piece the array holds what the pieces read so
far mean, as far as it has room (`Holds`); inside `number` the shared array holds
the last *i* digits, and `num` is the number divided by the *i*-th power of the base
(`AtDigits`), then the meaning of the piece backwards (`AtCopy`), of which the
caller's array has what is copied. All this holds character by character of a
call with `alone`, and of two calls under way none has it. Of the others it says
only that no character is a NUL and that positions are right, whatever others
write to `numbers`: so even an overlapped text is as long as it should be. The loop
ends at the length of `Numeral` because the quotient is 0 exactly there
(`NumeralLength`, `DigitStep`), and `NumberMeans` says that `number` writes a
meaning backwards, marks included. `Power` and the library's `FlattenSeq` are
recursive functions; that they exist, and their equations, come from the least
number where they would fail (`Descent`).

TLC has checked `Inv`, `TimeInv`, `BootInv` and `FormatInv` on the instances of the
runs before they were proved.

Only model-checked: liveness, for which the prover has no rules (fairness needs
ENABLED). Of what the passing runs check, all invariants, action properties and
refinements are proved.

## 5. What is not modelled

* `task_delete`, which nobody calls and whose comment says it is broken.
* Sending by the UART (it polls a device), the dividers that `clk_init` writes
  and the baud rate: registers that no code reads back.
* The assembly that runs before `plat_boot`: stacks, clearing of memory. The test
  tasks that MIPS starts, and `task_test.c`.
* The loops of the string helpers, apart from `memset` in `MsgRing`: bytes without
  a state of their own.
* `msg_rcv` with several receivers on MIPS, where the part behind `task_sched`
  can be interrupted: `MsgRing` has that with one receiver, `MsgQueue` has several
  on ARM. No queue of the repository has two receivers.

## 6. Plan

The models of the first plan are done: `Task`, `Kernel`, `KernelTime`, `TaskRing`;
`Objects`, `Sem`, `MsgQueue`; `Channel`, `MsgRing`; `Processor`, `SwitchMips`,
`SwitchArm`; `Uart`, `Mmu`, `Boot`; `Format`; `Dialogue`; and the proofs of
section 4. All invariants, action properties and refinements that the
runs check are theorems; what stays with TLC is liveness.
