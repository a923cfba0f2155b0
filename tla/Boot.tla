--------------------------------- MODULE Boot ---------------------------------
(***************************************************************************)
(* Start-up and interrupts: plat_boot of src/arch/arm/boot.c and           *)
(* src/arch/mips/boot.c, the dispatch of src/int/interrupt.c and           *)
(* src/int/int_api.c, and the UART interrupt, which feeds the line buffer  *)
(* of Uart.  The run takes both processors, chosen in the initial state.   *)
(*                                                                         *)
(* The devices are external.  On ARM the controller keeps a pending bit    *)
(* per source (SRCPND) and latches one of them (INTPND, INTOFFSET): the    *)
(* first to come, or the timer if both are pending when the last one is    *)
(* cleared.  The UART raises its bit as long as SUBSRCPND is set.  On MIPS *)
(* the two lines in Cause are up until the clock's control register or the *)
(* keyboard's data register is read.  Neither UART has more than one       *)
(* character of buffer: a character not read in time is overwritten.       *)
(*                                                                         *)
(* Of the tasks, the one that boots and becomes the idle task is told from *)
(* the others: it alone goes on with plat_boot, and on MIPS, where each    *)
(* task has its own Status, it alone has the keyboard's line unmasked      *)
(* (task.c:115 leaves it out).  Which of them runs next is in Task.        *)
(***************************************************************************)
EXTENDS Uart, Mmu

VARIABLES
    arch,      \* "ARM" or "MIPS"
    todo,      \* the rest of plat_boot, then << >>
    display,   \* the registers of the UART are set up
    irq_func,  \* the sources with a function
    started,   \* task_start has been called
    unmasked,  \* sources let through by INTMSK and SUBINTMASK, or by the
               \* Status of the idle task
    idle,      \* the idle task runs
    ie,        \* interrupts are enabled
    timer,     \* the timer runs
    srcpnd,    \* sources pending
    intpnd,    \* the source latched, or "none"
    subsrcpnd, \* the UART wants attention
    key,       \* the character in the UART, or NoKey
    serving,   \* the rest of the interrupt handler, or "none"
    owed       \* history: how many events of each source have come, but not
               \* at a time at which they are dropped, and are not yet served

devVars == <<srcpnd, intpnd, subsrcpnd, key>>
setupVars == <<arch, display, irq_func, started, unmasked, timer>>
taskVars == <<idle, ie>>
allVars == <<uartVars, mmuVars, setupVars, devVars, taskVars, todo, serving, owed>>

Source == {"tick", "uart"}
NoKey == "no key"

\* Mutant: the timer is started before there is a task.
ArmBoot_TimerFirst ==
    <<"helloworld", "memcpy", "init_sys_mmu", "start_mmu", "clk_init",
      "uart_init", "test_mmu", "banner", "timer_init", "task_start",
      "start_print_task", "ltai_start">>

ArmBoot ==
    <<"helloworld", "memcpy", "init_sys_mmu", "start_mmu", "clk_init",
      "uart_init", "test_mmu", "banner", "task_start", "timer_init",
      "start_print_task", "ltai_start">>
MipsBoot ==
    <<"clk_init", "uart_init", "banner", "task_start", "timer_init",
      "start_print_task", "ltai_start">>

AllTypeOK ==
    /\ UartTypeOK
    /\ MmuTypeOK
    /\ arch \in {"ARM", "MIPS"}
    /\ \E n \in 0 .. Len(ArmBoot) :
          todo = SubSeq(IF arch = "ARM" THEN ArmBoot ELSE MipsBoot, n + 1,
                        Len(IF arch = "ARM" THEN ArmBoot ELSE MipsBoot))
    /\ display \in BOOLEAN /\ started \in BOOLEAN
    /\ irq_func \subseteq Source /\ unmasked \subseteq Source
    /\ idle \in BOOLEAN /\ ie \in BOOLEAN /\ timer \in BOOLEAN
    /\ srcpnd \subseteq Source /\ intpnd \in Source \cup {"none"}
    /\ subsrcpnd \in BOOLEAN
    /\ key \in Key \cup {NoKey}
    /\ serving \in {"none", "ack", "clear", "overrun"}
    /\ owed \in [Source -> Nat]

AllInit ==
    /\ UartInit
    /\ MmuInit
    /\ arch \in {"ARM", "MIPS"}
    /\ todo = IF arch = "ARM" THEN ArmBoot ELSE MipsBoot
    /\ display = FALSE /\ started = FALSE
    /\ irq_func = {} /\ unmasked = {}
    /\ idle = TRUE /\ ie = FALSE /\ timer = FALSE
    /\ srcpnd = {} /\ intpnd = "none" /\ subsrcpnd = FALSE
    /\ key = NoKey
    /\ serving = "none"
    /\ owed = [s \in Source |-> 0]

-----------------------------------------------------------------------------
(* plat_boot. *)

\* Mutant: the sub-source of the UART stays masked.
uart_init_unmasks_Nothing == {}
uart_init_unmasks == {"uart"}

\* What a step of plat_boot sets up.  The steps that only write to devices,
\* or to memory that is not modelled here, set up nothing.
plat_boot ==
    /\ todo # << >>
    /\ serving = "none" /\ idle /\ (timer => ie)
    /\ todo' = Tail(todo)
    /\ LET step == Head(todo)
       IN  /\ IF step = "init_sys_mmu" THEN init_sys_mmu
              ELSE IF step = "start_mmu" THEN start_mmu
              ELSE UNCHANGED mmuVars
           /\ display' = (display \/ step = "uart_init")
           /\ irq_func' = IF step = "uart_init" THEN {"uart"} ELSE irq_func
           /\ started' = (started \/ step = "task_start")
           /\ unmasked' = IF step = "uart_init" THEN uart_init_unmasks
                          ELSE IF step = "timer_init" THEN unmasked \cup {"tick"}
                          ELSE unmasked
           /\ timer' = (timer \/ step = "timer_init")
           /\ ie' = (ie \/ step = "timer_init")
    /\ UNCHANGED <<uartVars, arch, devVars, idle, serving, owed>>

\* int_disable and int_enable of the running task.  The idle task calls them
\* when it starts the others, and never in its loop.
int_disable_enable ==
    /\ timer /\ serving = "none"
    /\ idle => todo # << >>
    /\ ie' = ~ie
    /\ UNCHANGED <<uartVars, mmuVars, setupVars, devVars, idle, todo, serving, owed>>

\* start_print_task has started the first task besides the idle one.
Others == todo = << >> \/ Head(todo) = "ltai_start"

\* Another task may run.  The idle task never leaves but by an interrupt, and
\* finds interrupts enabled; another one may have left from a section of its
\* own with interrupts disabled.
Switch ==
    /\ idle' \in (IF Others THEN BOOLEAN ELSE {TRUE})
    /\ ie' \in (IF idle' THEN {TRUE} ELSE BOOLEAN)

\* A task gives the processor up, with interrupts disabled.
task_sched ==
    /\ serving = "none" /\ ~ie /\ ~idle
    /\ Switch
    /\ UNCHANGED <<uartVars, mmuVars, setupVars, devVars, todo, serving, owed>>

-----------------------------------------------------------------------------
(* The devices. *)

Latched(p, now) == IF now = "none" /\ p # {}
                   THEN IF "tick" \in p THEN "tick" ELSE "uart"
                   ELSE now

\* Events of a source that come before the handler sees to the first of them
\* are one to it: its line or bit is up already.  A tick is dropped besides if
\* it comes between task_tickdo and the clearing of the clock's interrupt, on
\* either processor.  On ARM, where int_clear_int clears the bits of all
\* sources, one is dropped if it comes from the time an interrupt of the UART
\* is latched; and a character if it comes after int_uart0 has read the one
\* before and until it clears SUBSRCPND.
Dropped(s) ==
    \/ owed[s] > 0
    \/ s = "tick" /\ serving = "clear"
    \/ arch = "ARM" /\ s = "tick" /\ intpnd = "uart"
    \/ arch = "ARM" /\ s = "uart" /\ serving = "ack"

Raise(s) ==
    /\ srcpnd' = srcpnd \cup {s}
    /\ intpnd' = IF arch = "ARM" THEN Latched(srcpnd' \cap unmasked, intpnd) ELSE intpnd
    /\ owed' = IF Dropped(s) THEN owed ELSE [owed EXCEPT ![s] = @ + 1]

Expire ==
    /\ timer
    /\ Raise("tick")
    /\ UNCHANGED <<uartVars, mmuVars, setupVars, taskVars, subsrcpnd, key, todo, serving>>

\* The bound of Put holds for the keys pressed.
Press(k) ==
    /\ display
    /\ k \in Char => phead < Reach
    /\ key' = k
    /\ subsrcpnd' = TRUE
    /\ Raise("uart")
    /\ UNCHANGED <<uartVars, mmuVars, setupVars, taskVars, todo, serving>>

-----------------------------------------------------------------------------
(* The interrupt handler. *)

\* On MIPS the tasks' own Status masks the keyboard.
Unmasked == IF arch = "MIPS" /\ ~idle THEN unmasked \ {"uart"} ELSE unmasked

\* The source an interrupt is for.  On MIPS the clock line is looked at
\* first, by int_isclockirq, then the others by common_irq_handler.
IrqFor == IF arch = "ARM" THEN intpnd
          ELSE Latched(srcpnd \cap Unmasked, "none")

Take(s) == ie /\ serving = "none" /\ IrqFor = s

\* One event is served.
Served(s) == owed' = [owed EXCEPT ![s] = IF @ = 0 THEN 0 ELSE @ - 1]

\* Up to task_tickdo.  What it and the scheduler do is in Task.
ClockInterrupt ==
    /\ Take("tick")
    /\ Served("tick")
    /\ serving' = "clear"
    /\ UNCHANGED <<uartVars, mmuVars, setupVars, devVars, taskVars, todo>>

\* int_uart0, up to the return of int_uart0_char_handle, or to its overrun.
\* Reading the character lowers the line on MIPS; on ARM SUBSRCPND and SRCPND
\* are cleared behind it.
int_uart0 ==
    /\ Take("uart")
    /\ "uart" \in irq_func
    /\ int_uart0_char_handle(key) \/ (key = NoKey /\ UNCHANGED uartVars)
    /\ key' = NoKey
    /\ Served("uart")
    /\ srcpnd' = IF arch = "ARM" THEN srcpnd ELSE srcpnd \ {"uart"}
    /\ serving' = IF overrun' THEN "overrun" ELSE IF arch = "ARM" THEN "ack" ELSE "none"
    /\ UNCHANGED <<mmuVars, setupVars, taskVars, intpnd, subsrcpnd, todo>>

ClearSubSource ==
    /\ serving = "ack"
    /\ serving' = "clear"
    /\ subsrcpnd' = FALSE
    /\ UNCHANGED <<uartVars, mmuVars, setupVars, taskVars, srcpnd, intpnd, key, todo, owed>>

\* Mutant: the UART is not asked again.
Cleared_All == {}

\* The |= writes ones to every bit that is set, so SRCPND is cleared of all
\* sources; only a UART that still wants attention raises its own again.
Cleared == IF subsrcpnd THEN {"uart"} ELSE {}

int_clear_int ==
    /\ arch = "ARM" /\ serving = "clear"
    /\ serving' = "none"
    /\ srcpnd' = Cleared
    /\ intpnd' = Latched(Cleared \cap unmasked, "none")
    /\ IF intpnd = "tick" THEN Switch ELSE UNCHANGED taskVars
    /\ UNCHANGED <<uartVars, mmuVars, setupVars, subsrcpnd, key, todo, owed>>

\* Reading the control register lowers the line, whenever it went up.
int_clear_clock_int ==
    /\ arch = "MIPS" /\ serving = "clear"
    /\ serving' = "none"
    /\ srcpnd' = srcpnd \ {"tick"}
    /\ Switch
    /\ UNCHANGED <<uartVars, mmuVars, setupVars, intpnd, subsrcpnd, key, todo, owed>>

\* The rest of an interrupt of the clock.
EndOfTick == int_clear_clock_int \/ (intpnd = "tick" /\ int_clear_int)

AllNext ==
    \/ plat_boot
    \/ int_disable_enable
    \/ task_sched
    \/ Expire
    \/ \E k \in Key : Press(k)
    \/ ClockInterrupt
    \/ int_uart0
    \/ ClearSubSource
    \/ int_clear_int
    \/ int_clear_clock_int

\* The boot code and the handler go on; tasks enable interrupts again and
\* again, neither source keeps the other out for ever, and the idle task gets
\* its turn, which is that of any other ready task.
BootSpec ==
    /\ AllInit /\ [][AllNext]_allVars
    /\ SF_allVars(plat_boot)
    /\ WF_allVars(ClearSubSource) /\ WF_allVars(int_clear_int)
    /\ WF_allVars(int_clear_clock_int)
    /\ WF_allVars(Expire)
    /\ WF_allVars(~ie /\ int_disable_enable)
    /\ SF_allVars(ClockInterrupt) /\ SF_allVars(int_uart0)
    /\ SF_allVars(EndOfTick /\ idle')

-----------------------------------------------------------------------------
\* The accesses of a step of plat_boot: sections used, and meant.
Memory == <<\h300, \h300>>
UartOff == <<\h500, \h500>>
UartOn == <<\hD00, \h500>>
Accesses(step) ==
    {Memory} \cup
    (IF step = "helloworld" THEN {UartOff}
     ELSE IF step = "init_sys_mmu" THEN {<<L1_PTR_BASE_ADDR, \h307>>}
     ELSE IF step = "clk_init" THEN {<<\hCC0, \h4C0>>}
     ELSE IF step = "uart_init" THEN {UartOn, <<\hCA0, \h4A0>>}
     ELSE IF step \in {"test_mmu", "banner"} THEN {UartOn}
     ELSE IF step = "timer_init" THEN {<<\hD10, \h510>>, <<\hCA0, \h4A0>>}
     ELSE {})

\* The vector, the code, the interrupt controller and the UART.
HandlerAccesses == {<<0, \h300>>, Memory, <<\hCA0, \h4A0>>, UartOn}

(* Every address that start-up and the interrupt handlers use reaches the   *)
(* memory or the device that is meant, before and after start_mmu, and on   *)
(* MIPS nothing is printed before uart_init has set the pointers to the     *)
(* registers.                                                               *)
AccessesHit ==
    IF arch = "ARM"
    THEN \A a \in (IF todo = << >> THEN {} ELSE Accesses(Head(todo)))
                  \cup (IF ie THEN HandlerAccesses ELSE {}) :
            Translate(a[1]) = a[2]
    ELSE (todo # << >> /\ Head(todo) \in {"banner", "timer_init"}) => display

(* When an interrupt is taken, what its handler uses is there: the running  *)
(* task for the clock, the registered function and the line buffer for the  *)
(* UART.                                                                    *)
HandlersReady ==
    /\ Take("tick") => started
    /\ Take("uart") => "uart" \in irq_func

(* A tick or a character is not dropped unless it comes at one of the times *)
(* that Dropped names: it stays pending until its handler sees to it,       *)
(* though int_clear_int clears the pending bits of all sources.  (On MIPS   *)
(* nothing of the UART is dropped but what its one character of buffer      *)
(* makes one.)                                                              *)
NothingDropped == \A s \in Source : owed[s] <= IF s \in srcpnd THEN 1 ELSE 0

(* Its handler does run, however often tasks disable interrupts, though on  *)
(* MIPS no task but the idle one lets the keyboard in; unless a line has    *)
(* overrun cmd.  (That the clock never stops cannot be said of ARM:         *)
(* characters that come back to back could drop every tick.)                *)
EventsServed == \A s \in Source : owed[s] > 0 ~> owed[s] = 0 \/ overrun
=============================================================================
