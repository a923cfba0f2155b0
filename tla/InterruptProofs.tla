-------------------------- MODULE InterruptProofs --------------------------
(***************************************************************************)
(* Proofs about interrupts, from where they come from to the switch that   *)
(* they may end in: about Boot, for any line buffer and any characters,    *)
(* and about SwitchArm, for any number of tasks.                           *)
(*                                                                         *)
(* Of Boot: what the handlers need is there whenever interrupts are        *)
(* enabled, no event is dropped but at the times that Dropped names, every *)
(* address reaches what it is meant for, and ltai gets the line that was   *)
(* typed.  The invariant has four parts.  SetUp ties what plat_boot has    *)
(* set up to how far it has come, MapInv the page table and the enable     *)
(* bit.  Pending says what the bits of the interrupt controller have to do *)
(* with each other: a tick that is owed is the one latched, and a          *)
(* character that is owed keeps its sub-source pending, so that the        *)
(* clearing of all sources takes nothing away.  LineInv says that the line *)
(* the user sees is what lies in the buffer between its two pointers.      *)
(*                                                                         *)
(* Of SwitchArm: the types, what a task finds when it runs again, and that *)
(* critical sections are those of Processor.  The properties speak of the  *)
(* running task.  Inv says the same of every other one, in terms of the    *)
(* context it has left, and of the interrupted one, in terms of the frame. *)
(***************************************************************************)
EXTENDS Boot, SwitchArm, TLAPS

-----------------------------------------------------------------------------
(* Start-up, the interrupt controllers and the line buffer. *)

\* The steps of plat_boot, and the places of three of them.
Steps == IF arch = "ARM" THEN ArmBoot ELSE MipsBoot
UartAt == IF arch = "ARM" THEN 6 ELSE 2
StartAt == IF arch = "ARM" THEN 9 ELSE 4
TimerAt == IF arch = "ARM" THEN 10 ELSE 5

Step == {"helloworld", "memcpy", "init_sys_mmu", "start_mmu", "clk_init",
         "uart_init", "test_mmu", "banner", "task_start", "timer_init",
         "start_print_task", "ltai_start"}

\* plat_boot has taken n steps.
Taken(n) ==
    /\ todo = SubSeq(Steps, n + 1, Len(Steps))
    /\ irq_func = IF n >= UartAt THEN {"uart"} ELSE {}
    /\ display <=> n >= UartAt
    /\ started <=> n >= StartAt
    /\ timer <=> n >= TimerAt
    /\ unmasked = IF n >= TimerAt THEN {"uart", "tick"}
                  ELSE IF n >= UartAt THEN {"uart"} ELSE {}

SetUp == arch \in {"ARM", "MIPS"} /\ \E n \in 0 .. Len(Steps) : Taken(n)

Pending ==
    /\ srcpnd \subseteq Source
    /\ "tick" \in srcpnd => timer
    /\ "uart" \in srcpnd => display
    /\ owed \in [Source -> {0, 1}]
    /\ \A s \in Source : owed[s] = 1 => s \in srcpnd
    /\ serving \in {"none", "ack", "clear", "overrun"}
    /\ serving = "clear" => owed["tick"] = 0
    /\ arch = "MIPS" => serving # "ack"
    /\ arch = "ARM" =>
          /\ intpnd = "none" \/ intpnd \in srcpnd
          /\ serving \in {"ack", "overrun"} => intpnd = "uart"
          /\ owed["tick"] = 1 => intpnd = "tick" /\ serving = "none"
          /\ owed["uart"] = 1 => subsrcpnd /\ serving # "ack"
          /\ subsrcpnd => display

BootInv == SetUp /\ Pending

LEMMA StepsFacts ==
    ASSUME arch \in {"ARM", "MIPS"}
    PROVE  /\ Steps \in Seq(Step)
           /\ Len(Steps) \in Nat
           /\ {UartAt, StartAt, TimerAt} \subseteq Nat
           /\ 0 < UartAt /\ UartAt < StartAt /\ StartAt < TimerAt
           /\ Steps[UartAt] = "uart_init"
           /\ Steps[StartAt] = "task_start"
           /\ Steps[TimerAt] = "timer_init"
           /\ \A i \in 1 .. Len(Steps) :
                 /\ Steps[i] = "uart_init" => i = UartAt
                 /\ Steps[i] = "task_start" => i = StartAt
                 /\ Steps[i] = "timer_init" => i = TimerAt
<1>1. CASE arch = "ARM"
  <2>1. Steps = ArmBoot /\ UartAt = 6 /\ StartAt = 9 /\ TimerAt = 10
    BY <1>1 DEF Steps, UartAt, StartAt, TimerAt
  <2>2. ArmBoot \in Seq(Step) /\ Len(ArmBoot) = 12
    BY DEF ArmBoot, Step
  <2>3. /\ ArmBoot[1] = "helloworld" /\ ArmBoot[2] = "memcpy"
        /\ ArmBoot[3] = "init_sys_mmu" /\ ArmBoot[4] = "start_mmu"
        /\ ArmBoot[5] = "clk_init" /\ ArmBoot[6] = "uart_init"
        /\ ArmBoot[7] = "test_mmu" /\ ArmBoot[8] = "banner"
        /\ ArmBoot[9] = "task_start" /\ ArmBoot[10] = "timer_init"
        /\ ArmBoot[11] = "start_print_task" /\ ArmBoot[12] = "ltai_start"
    BY DEF ArmBoot
  <2>4. \A i \in 1 .. 12 : \/ i = 1 \/ i = 2 \/ i = 3 \/ i = 4 \/ i = 5 \/ i = 6
                           \/ i = 7 \/ i = 8 \/ i = 9 \/ i = 10 \/ i = 11 \/ i = 12
    OBVIOUS
  <2>5. QED
    BY <2>1, <2>2, <2>3, <2>4
<1>2. CASE arch = "MIPS"
  <2>1. Steps = MipsBoot /\ UartAt = 2 /\ StartAt = 4 /\ TimerAt = 5
    BY <1>2 DEF Steps, UartAt, StartAt, TimerAt
  <2>2. MipsBoot \in Seq(Step) /\ Len(MipsBoot) = 7
    BY DEF MipsBoot, Step
  <2>3. /\ MipsBoot[1] = "clk_init" /\ MipsBoot[2] = "uart_init"
        /\ MipsBoot[3] = "banner" /\ MipsBoot[4] = "task_start"
        /\ MipsBoot[5] = "timer_init" /\ MipsBoot[6] = "start_print_task"
        /\ MipsBoot[7] = "ltai_start"
    BY DEF MipsBoot
  <2>4. \A i \in 1 .. 7 : \/ i = 1 \/ i = 2 \/ i = 3 \/ i = 4 \/ i = 5 \/ i = 6 \/ i = 7
    OBVIOUS
  <2>5. QED
    BY <2>1, <2>2, <2>3, <2>4
<1>3. QED
  BY <1>1, <1>2

\* The rest of a sequence, one further.
LEMMA RestOf ==
    ASSUME NEW s, NEW S, s \in Seq(S), NEW n \in 0 .. Len(s),
           SubSeq(s, n + 1, Len(s)) # << >>
    PROVE  /\ n < Len(s)
           /\ Head(SubSeq(s, n + 1, Len(s))) = s[n + 1]
           /\ Tail(SubSeq(s, n + 1, Len(s))) = SubSeq(s, n + 2, Len(s))
<1>1. n < Len(s)
  OBVIOUS
<1>2. QED
  BY <1>1

LEMMA BootInit == AllInit => BootInv
<1> SUFFICES ASSUME AllInit
             PROVE  BootInv
  OBVIOUS
<1>1. arch \in {"ARM", "MIPS"} /\ todo = Steps
  BY DEF AllInit, Steps
<1>2. SubSeq(Steps, 0 + 1, Len(Steps)) = Steps
  BY <1>1, StepsFacts
<1>3. Taken(0) /\ 0 \in 0 .. Len(Steps)
  BY <1>1, <1>2, StepsFacts DEF AllInit, Taken
<1>4. Pending
  BY DEF AllInit, Pending, Source
<1>5. QED
  BY <1>1, <1>3, <1>4 DEF BootInv, SetUp

\* A step of plat_boot sets up what its place says, and no event is there
\* before its source has been set up.
LEMMA PlatBootInv ==
    ASSUME BootInv, plat_boot
    PROVE  BootInv'
<1>1. PICK n \in 0 .. Len(Steps) : Taken(n)
  BY DEF BootInv, SetUp
<1>2. arch \in {"ARM", "MIPS"} /\ arch' = arch /\ Steps' = Steps
      /\ UartAt' = UartAt /\ StartAt' = StartAt /\ TimerAt' = TimerAt
  BY DEF BootInv, SetUp, plat_boot, Steps, UartAt, StartAt, TimerAt
<1>3. n < Len(Steps) /\ Head(todo) = Steps[n + 1]
      /\ todo' = SubSeq(Steps, n + 2, Len(Steps))
  BY <1>1, <1>2, RestOf, StepsFacts DEF Taken, plat_boot
<1>4. /\ n + 1 \in 1 .. Len(Steps)
      /\ Head(todo) = "uart_init" <=> n + 1 = UartAt
      /\ Head(todo) = "task_start" <=> n + 1 = StartAt
      /\ Head(todo) = "timer_init" <=> n + 1 = TimerAt
  <2>1. n \in Nat /\ Len(Steps) \in Nat /\ n + 1 \in 1 .. Len(Steps)
    BY <1>2, <1>3, StepsFacts
  <2>2. Head(todo) = Steps[n + 1]
    BY <1>3
  <2>3. Head(todo) = "uart_init" <=> n + 1 = UartAt
    BY <1>2, <2>1, <2>2, StepsFacts
  <2>4. Head(todo) = "task_start" <=> n + 1 = StartAt
    BY <1>2, <2>1, <2>2, StepsFacts
  <2>5. Head(todo) = "timer_init" <=> n + 1 = TimerAt
    BY <1>2, <2>1, <2>2, StepsFacts
  <2>6. QED
    BY <2>1, <2>3, <2>4, <2>5
<1>5. Taken(n + 1)'
  <2> DEFINE step == Head(todo)
  <2>0. n \in Nat /\ UartAt \in Nat /\ StartAt \in Nat /\ TimerAt \in Nat
        /\ 0 < UartAt /\ UartAt < StartAt /\ StartAt < TimerAt
    BY <1>2, StepsFacts
  <2>1. todo' = SubSeq(Steps, (n + 1) + 1, Len(Steps))
    BY <1>3, <2>0
  <2>2. /\ irq_func = IF n >= UartAt THEN {"uart"} ELSE {}
        /\ display <=> n >= UartAt
        /\ started <=> n >= StartAt
        /\ timer <=> n >= TimerAt
        /\ unmasked = IF n >= TimerAt THEN {"uart", "tick"}
                      ELSE IF n >= UartAt THEN {"uart"} ELSE {}
    BY <1>1 DEF Taken
  <2>3. /\ display' = (display \/ step = "uart_init")
        /\ started' = (started \/ step = "task_start")
        /\ timer' = (timer \/ step = "timer_init")
        /\ irq_func' = IF step = "uart_init" THEN {"uart"} ELSE irq_func
        /\ unmasked' = IF step = "uart_init" THEN {"uart"}
                       ELSE IF step = "timer_init" THEN unmasked \cup {"tick"}
                       ELSE unmasked
    BY DEF plat_boot, uart_init_unmasks
  <2>4. /\ step = "uart_init" <=> n + 1 = UartAt
        /\ step = "task_start" <=> n + 1 = StartAt
        /\ step = "timer_init" <=> n + 1 = TimerAt
    BY <1>4
  <2> HIDE DEF step
  <2>5. irq_func' = IF n + 1 >= UartAt THEN {"uart"} ELSE {}
    <3>1. CASE n + 1 = UartAt
      BY <3>1, <2>0, <2>3, <2>4
    <3>2. CASE n + 1 # UartAt
      <4>1. n + 1 >= UartAt <=> n >= UartAt
        BY <3>2, <2>0
      <4>2. QED
        BY <3>2, <4>1, <2>2, <2>3, <2>4
    <3>3. QED
      BY <3>1, <3>2
  <2>6. display' <=> n + 1 >= UartAt
    <3>1. n + 1 >= UartAt <=> n >= UartAt \/ n + 1 = UartAt
      BY <2>0
    <3>2. QED
      BY <3>1, <2>2, <2>3, <2>4
  <2>7. started' <=> n + 1 >= StartAt
    <3>1. n + 1 >= StartAt <=> n >= StartAt \/ n + 1 = StartAt
      BY <2>0
    <3>2. QED
      BY <3>1, <2>2, <2>3, <2>4
  <2>8. timer' <=> n + 1 >= TimerAt
    <3>1. n + 1 >= TimerAt <=> n >= TimerAt \/ n + 1 = TimerAt
      BY <2>0
    <3>2. QED
      BY <3>1, <2>2, <2>3, <2>4
  <2>9. unmasked' = IF n + 1 >= TimerAt THEN {"uart", "tick"}
                    ELSE IF n + 1 >= UartAt THEN {"uart"} ELSE {}
    <3>1. CASE n + 1 = UartAt
      BY <3>1, <2>0, <2>3, <2>4
    <3>2. CASE n + 1 = TimerAt
      <4>1. n >= UartAt /\ ~ (n >= TimerAt) /\ n + 1 # UartAt /\ n + 1 >= TimerAt
        BY <3>2, <2>0
      <4>2. unmasked = {"uart"} /\ unmasked' = unmasked \cup {"tick"}
        BY <3>2, <4>1, <2>2, <2>3, <2>4
      <4>3. QED
        BY <4>1, <4>2
    <3>3. CASE n + 1 # UartAt /\ n + 1 # TimerAt
      <4>1. /\ n + 1 >= UartAt <=> n >= UartAt
            /\ n + 1 >= TimerAt <=> n >= TimerAt
        BY <3>3, <2>0
      <4>2. unmasked' = unmasked
        BY <3>3, <2>3, <2>4
      <4>3. QED
        BY <4>1, <4>2, <2>2
    <3>4. QED
      BY <3>1, <3>2, <3>3
  <2>10. QED
    BY <1>2, <2>1, <2>5, <2>6, <2>7, <2>8, <2>9 DEF Taken
<1>6. SetUp'
  BY <1>2, <1>4, <1>5 DEF SetUp
<1>7. Pending'
  BY <1>2 DEF BootInv, Pending, plat_boot, devVars
<1>8. QED
  BY <1>6, <1>7 DEF BootInv

\* Nothing else changes what is set up.
LEMMA SetUpKept ==
    ASSUME SetUp, UNCHANGED <<setupVars, todo>>
    PROVE  SetUp'
BY DEF SetUp, setupVars, Taken, Steps, UartAt, StartAt, TimerAt

\* What is set up when the timer runs, and when the UART does.
LEMMA WhatRuns ==
    ASSUME SetUp
    PROVE  /\ arch \in {"ARM", "MIPS"}
           /\ timer => started /\ display /\ "tick" \in unmasked
           /\ display => "uart" \in irq_func /\ "uart" \in unmasked
           /\ unmasked \subseteq Source
BY StepsFacts DEF SetUp, Taken, Source

\* An event that comes: it is counted once.
LEMMA RaiseOwes ==
    ASSUME Pending, NEW s \in Source, Raise(s)
    PROVE  /\ srcpnd' = srcpnd \cup {s}
           /\ owed' \in [Source -> {0, 1}]
           /\ \A r \in Source \ {s} : owed'[r] = owed[r]
           /\ owed'[s] = 1 => owed[s] = 1 \/ ~Dropped(s)
<1>1. owed \in [Source -> {0, 1}]
  BY DEF Pending
<1>2. CASE Dropped(s)
  BY <1>1, <1>2 DEF Raise
<1>3. CASE ~Dropped(s)
  <2>1. owed[s] = 0
    BY <1>1, <1>3 DEF Dropped
  <2>2. owed' = [owed EXCEPT ![s] = 1]
    BY <1>3, <2>1 DEF Raise
  <2>3. QED
    BY <1>1, <1>3, <2>2 DEF Raise
<1>4. QED
  BY <1>2, <1>3

LEMMA DevicesInv ==
    ASSUME BootInv, Expire \/ \E k \in Key : Press(k)
    PROVE  BootInv'
<1>1. SetUp'
  BY SetUpKept DEF BootInv, Expire, Press
<1>2. CASE Expire
  <2>1. /\ timer /\ "tick" \in unmasked /\ arch' = arch
        /\ intpnd' = IF arch = "ARM" THEN Latched(srcpnd' \cap unmasked, intpnd) ELSE intpnd
        /\ UNCHANGED <<setupVars, subsrcpnd, serving>>
    BY <1>2, WhatRuns DEF Expire, Raise, BootInv, setupVars
  <2>2. /\ srcpnd' = srcpnd \cup {"tick"}
        /\ owed' \in [Source -> {0, 1}]
        /\ owed'["uart"] = owed["uart"]
        /\ owed'["tick"] = 1 => owed["tick"] = 1 \/ ~Dropped("tick")
    BY <1>2, RaiseOwes DEF Expire, BootInv, Source
  <2>3. /\ srcpnd' \subseteq Source
        /\ \A s \in Source : owed'[s] = 1 => s \in srcpnd'
        /\ "tick" \in srcpnd' => timer'
        /\ "uart" \in srcpnd' => display'
    BY <2>1, <2>2 DEF BootInv, Pending, Source, setupVars
  <2>4. serving' = "clear" => owed'["tick"] = 0
    BY <2>1, <2>2 DEF BootInv, Pending, Dropped, Source
  <2>5. ASSUME arch = "ARM"
        PROVE  /\ intpnd' = "none" \/ intpnd' \in srcpnd'
               /\ owed'["tick"] = 1 => intpnd' = "tick" /\ serving' = "none"
    <3>1. intpnd' = IF intpnd = "none" THEN "tick" ELSE intpnd
      BY <2>1, <2>2, <2>5 DEF Latched
    <3>2. intpnd \in {"none", "tick", "uart"}
      BY <2>5 DEF BootInv, Pending, Source
    <3>3. serving # "none" => Dropped("tick")
      BY <2>5 DEF BootInv, Pending, Dropped
    <3>4. intpnd' = "none" \/ intpnd' \in srcpnd'
      BY <2>2, <2>5, <3>1, <3>2 DEF BootInv, Pending
    <3>5. ASSUME owed'["tick"] = 1
          PROVE  intpnd' = "tick" /\ serving' = "none"
      <4>1. CASE owed["tick"] = 1
        BY <2>1, <2>5, <3>1, <4>1 DEF BootInv, Pending
      <4>2. CASE ~ Dropped("tick")
        <5>1. serving = "none" /\ intpnd # "uart"
          BY <2>5, <3>3, <4>2 DEF Dropped
        <5>2. QED
          BY <2>1, <3>1, <3>2, <5>1 DEF setupVars
      <4>3. QED
        BY <2>2, <3>5, <4>1, <4>2
    <3>6. QED
      BY <3>4, <3>5
  <2>6. ASSUME arch = "ARM"
        PROVE  /\ serving' \in {"ack", "overrun"} => intpnd' = "uart"
               /\ owed'["uart"] = 1 => subsrcpnd' /\ serving' # "ack"
               /\ subsrcpnd' => display'
    BY <2>1, <2>2, <2>6 DEF BootInv, Pending, Latched, setupVars
  <2>7. /\ serving' \in {"none", "ack", "clear", "overrun"}
        /\ arch = "MIPS" => serving' # "ack"
    BY <2>1 DEF BootInv, Pending
  <2>8. QED
    BY <1>1, <2>1, <2>2, <2>3, <2>4, <2>5, <2>6, <2>7 DEF BootInv, Pending
<1>3. ASSUME NEW k \in Key, Press(k)
      PROVE  BootInv'
  <2>1. /\ display /\ "uart" \in unmasked /\ subsrcpnd' /\ arch' = arch
        /\ intpnd' = IF arch = "ARM" THEN Latched(srcpnd' \cap unmasked, intpnd) ELSE intpnd
        /\ UNCHANGED <<setupVars, serving>>
    BY <1>3, WhatRuns DEF Press, Raise, BootInv, setupVars
  <2>2. /\ srcpnd' = srcpnd \cup {"uart"}
        /\ owed' \in [Source -> {0, 1}]
        /\ owed'["tick"] = owed["tick"]
        /\ owed'["uart"] = 1 => owed["uart"] = 1 \/ ~Dropped("uart")
    BY <1>3, RaiseOwes DEF Press, BootInv, Source
  <2>3. /\ srcpnd' \subseteq Source
        /\ \A s \in Source : owed'[s] = 1 => s \in srcpnd'
        /\ "tick" \in srcpnd' => timer'
        /\ "uart" \in srcpnd' => display'
    BY <2>1, <2>2 DEF BootInv, Pending, Source, setupVars
  <2>4. ASSUME arch = "ARM"
        PROVE  /\ intpnd' = "none" \/ intpnd' \in srcpnd'
               /\ owed'["tick"] = 1 => intpnd' = "tick" /\ serving' = "none"
               /\ serving' \in {"ack", "overrun"} => intpnd' = "uart"
    BY <2>1, <2>2, <2>4 DEF BootInv, Pending, Latched
  <2>5. ASSUME arch = "ARM", owed'["uart"] = 1
        PROVE  serving' # "ack"
    BY <2>1, <2>2, <2>5 DEF BootInv, Pending, Dropped
  <2>6. /\ arch = "MIPS" => serving' # "ack"
        /\ serving' \in {"none", "ack", "clear", "overrun"}
        /\ serving' = "clear" => owed'["tick"] = 0
        /\ subsrcpnd' /\ display'
    BY <2>1, <2>2 DEF BootInv, Pending, setupVars
  <2>7. QED
    BY <1>1, <2>1, <2>2, <2>3, <2>4, <2>5, <2>6 DEF BootInv, Pending
<1>4. QED
  BY <1>2, <1>3

\* An event that is served is no longer owed.
LEMMA ServedOwes ==
    ASSUME Pending, NEW s \in Source, Served(s)
    PROVE  /\ owed' \in [Source -> {0, 1}]
           /\ owed'[s] = 0
           /\ \A r \in Source \ {s} : owed'[r] = owed[r]
<1>1. owed \in [Source -> {0, 1}]
  BY DEF Pending
<1>2. (IF owed[s] = 0 THEN 0 ELSE owed[s] - 1) = 0
  BY <1>1
<1>3. owed' = [owed EXCEPT ![s] = 0]
  BY <1>2 DEF Served
<1>4. QED
  BY <1>1, <1>3

LEMMA HandlersInv ==
    ASSUME BootInv, ClockInterrupt \/ int_uart0
    PROVE  BootInv'
<1>1. SetUp'
  BY SetUpKept DEF BootInv, ClockInterrupt, int_uart0
<1>2. arch \in {"ARM", "MIPS"} /\ owed \in [Source -> {0, 1}]
  BY WhatRuns DEF BootInv, Pending
<1>3. CASE ClockInterrupt
  <2>1. /\ serving = "none" /\ serving' = "clear" /\ (arch = "ARM" => intpnd = "tick")
        /\ UNCHANGED <<setupVars, devVars>>
    BY <1>3 DEF ClockInterrupt, Take, IrqFor
  <2>2. owed' \in [Source -> {0, 1}] /\ owed'["tick"] = 0 /\ owed'["uart"] = owed["uart"]
    BY <1>3, ServedOwes DEF ClockInterrupt, BootInv, Source
  <2>3. Pending'
    BY <2>1, <2>2 DEF BootInv, Pending, Source, setupVars, devVars
  <2>4. QED
    BY <1>1, <2>3 DEF BootInv
<1>4. CASE int_uart0
  <2>1. /\ serving = "none" /\ (arch = "ARM" => intpnd = "uart")
        /\ srcpnd' = IF arch = "ARM" THEN srcpnd ELSE srcpnd \ {"uart"}
        /\ serving' \in IF arch = "ARM" THEN {"overrun", "ack"} ELSE {"overrun", "none"}
        /\ UNCHANGED <<setupVars, intpnd, subsrcpnd>>
    BY <1>4 DEF int_uart0, Take, IrqFor
  <2>2. owed' \in [Source -> {0, 1}] /\ owed'["uart"] = 0 /\ owed'["tick"] = owed["tick"]
    BY <1>4, ServedOwes DEF int_uart0, BootInv, Source
  <2>3. Pending'
    BY <1>2, <2>1, <2>2 DEF BootInv, Pending, Source, setupVars
  <2>4. QED
    BY <1>1, <2>3 DEF BootInv
<1>5. QED
  BY <1>3, <1>4

LEMMA ClearInv ==
    ASSUME BootInv, ClearSubSource \/ int_clear_int \/ int_clear_clock_int
    PROVE  BootInv'
<1>1. SetUp'
  BY SetUpKept DEF BootInv, ClearSubSource, int_clear_int, int_clear_clock_int
<1>2. owed \in [Source -> {0, 1}]
  BY DEF BootInv, Pending
<1>3. CASE ClearSubSource
  <2>1. arch = "ARM"
    BY <1>3, WhatRuns DEF ClearSubSource, BootInv, Pending
  <2>2. QED
    BY <1>1, <1>2, <1>3, <2>1 DEF ClearSubSource, BootInv, Pending, Source, setupVars
<1>4. CASE int_clear_int
  BY <1>1, <1>2, <1>4
     DEF int_clear_int, Cleared, Latched, BootInv, Pending, Source, setupVars
<1>5. CASE int_clear_clock_int
  BY <1>1, <1>2, <1>5
     DEF int_clear_clock_int, BootInv, Pending, Source, setupVars
<1>6. QED
  BY <1>3, <1>4, <1>5

LEMMA BootNext == BootInv /\ [AllNext]_allVars => BootInv'
<1> SUFFICES ASSUME BootInv, [AllNext]_allVars
             PROVE  BootInv'
  OBVIOUS
<1>1. CASE plat_boot
  BY <1>1, PlatBootInv
<1>2. CASE int_disable_enable \/ task_sched \/ UNCHANGED allVars
  <2>1. UNCHANGED <<setupVars, devVars, todo, serving, owed>>
    BY <1>2 DEF int_disable_enable, task_sched, allVars
  <2>2. QED
    BY <2>1, SetUpKept DEF BootInv, Pending, setupVars, devVars
<1>3. CASE Expire \/ \E k \in Key : Press(k)
  BY <1>3, DevicesInv
<1>4. CASE ClockInterrupt \/ int_uart0
  BY <1>4, HandlersInv
<1>5. CASE ClearSubSource \/ int_clear_int \/ int_clear_clock_int
  BY <1>5, ClearInv
<1>6. QED
  BY <1>1, <1>2, <1>3, <1>4, <1>5 DEF AllNext

LEMMA BootInvariance == BootSpec => []BootInv
BY BootInit, BootNext, PTL DEF BootSpec

(* An event that comes is pending until its handler sees to it, though      *)
(* int_clear_int clears the pending bits of all sources, unless it comes at *)
(* one of the times that Dropped names: behind another one of its source    *)
(* that is not seen to yet; a tick between task_tickdo and the clearing of  *)
(* the clock's interrupt, on either processor, and on ARM while the UART is *)
(* latched; and on ARM a character between the reading of the one before    *)
(* and the clearing of SUBSRCPND.                                           *)
THEOREM EventsKept == BootSpec => []NothingDropped
<1>1. BootInv => NothingDropped
  BY DEF BootInv, Pending, NothingDropped, Source
<1>2. QED
  BY <1>1, BootInvariance, PTL

(* No interrupt is taken before what its handler uses is set up: plat_boot  *)
(* calls task_start before timer_init enables interrupts, and uart_init     *)
(* registers the function before it unmasks the source.                     *)
THEOREM HandlersFindAll == BootSpec => []HandlersReady
<1>1. BootInv => HandlersReady
  <2> SUFFICES ASSUME BootInv
               PROVE  HandlersReady
    OBVIOUS
  <2>1. Take("tick") => timer
    BY WhatRuns DEF BootInv, Pending, Take, IrqFor, Latched, Unmasked
  <2>2. Take("uart") => display
    BY WhatRuns DEF BootInv, Pending, Take, IrqFor, Latched, Unmasked, Source
  <2>3. QED
    BY <2>1, <2>2, WhatRuns DEF BootInv, HandlersReady
<1>2. QED
  BY <1>1, BootInvariance, PTL


-----------------------------------------------------------------------------
(* The page table. *)

\* Where the sections that the code uses are, once translation is on.
LEMMA Mapped ==
    ASSUME table = SystemMap, mmu
    PROVE  /\ Translate(0) = \h300
           /\ Translate(\h300) = \h300
           /\ Translate(\hCC0) = \h4C0
           /\ Translate(\hCA0) = \h4A0
           /\ Translate(\hD00) = \h500
           /\ Translate(\hD10) = \h510
<1>1. Len(table) = 3 /\ table[1] = <<0, 768, 8>> /\ table[2] = <<768, 768, 8>>
      /\ table[3] = <<3200, 1152, 384>>
  BY DEF SystemMap, VIRTUAL_VECTOR_ADDR, PHYSICAL_VECTOR_ADDR, MEM_MAP_SIZE,
         VIRTUAL_MEM_ADDR, PHYSICAL_MEM_ADDR, VIRTUAL_IO_ADDR, PHYSICAL_IO_ADDR, IO_MAP_SIZE
<1>2. \A i \in 1 .. 3 : i = 1 \/ i = 2 \/ i = 3
  OBVIOUS
<1>3. ASSUME NEW v \in Nat, NEW i \in 1 .. 3,
             v \in table[i][1] .. table[i][1] + table[i][3] - 1
      PROVE  Translate(v) = table[i][2] + (v - table[i][1])
  <2>1. RunsOf(v) = {i}
    BY <1>1, <1>2, <1>3 DEF RunsOf
  <2>2. (CHOOSE j \in {i} : \A k \in {i} : k <= j) = i
    OBVIOUS
  <2>3. QED
    BY <2>1, <2>2 DEF Translate
<1>4. Translate(0) = 768 /\ Translate(768) = 768
  <2>1. 0 \in table[1][1] .. table[1][1] + table[1][3] - 1
    BY <1>1
  <2>2. 768 \in table[2][1] .. table[2][1] + table[2][3] - 1
    BY <1>1
  <2>3. QED
    BY <1>1, <1>3, <2>1, <2>2
<1>5. ASSUME NEW v \in 3200 .. 3583
      PROVE  Translate(v) = v - 2048
  <2>1. v \in table[3][1] .. table[3][1] + table[3][3] - 1
    BY <1>1
  <2>2. QED
    BY <1>1, <1>3, <2>1
<1>6. QED
  BY <1>4, <1>5


\* How far plat_boot has come says what is mapped, and interrupts are not
\* enabled, nor anything but plat_boot done, before timer_init.
Reached(n) ==
    /\ todo = SubSeq(Steps, n + 1, Len(Steps))
    /\ arch = "ARM" => /\ table = IF n >= 3 THEN SystemMap ELSE << >>
                       /\ mmu <=> n >= 4
    /\ arch = "MIPS" => table = << >> /\ mmu = FALSE
    /\ ie \in BOOLEAN /\ idle \in BOOLEAN /\ timer \in BOOLEAN
    /\ (ie \/ timer \/ ~idle \/ serving # "none") => n >= TimerAt

MapInv == arch \in {"ARM", "MIPS"} /\ \E n \in 0 .. Len(Steps) : Reached(n)

\* Where the steps are that write the page table.
LEMMA MmuAt ==
    ASSUME arch \in {"ARM", "MIPS"}, NEW i \in 1 .. Len(Steps)
    PROVE  /\ Steps[i] = "init_sys_mmu" <=> (arch = "ARM" /\ i = 3)
           /\ Steps[i] = "start_mmu" <=> (arch = "ARM" /\ i = 4)
           /\ arch = "MIPS" /\ Steps[i] \in {"banner", "timer_init"} => i >= 3
<1>1. CASE arch = "ARM"
  <2>1. Steps = ArmBoot /\ Len(ArmBoot) = 12
    BY <1>1 DEF Steps, ArmBoot
  <2>2. /\ ArmBoot[1] = "helloworld" /\ ArmBoot[2] = "memcpy"
        /\ ArmBoot[3] = "init_sys_mmu" /\ ArmBoot[4] = "start_mmu"
        /\ ArmBoot[5] = "clk_init" /\ ArmBoot[6] = "uart_init"
        /\ ArmBoot[7] = "test_mmu" /\ ArmBoot[8] = "banner"
        /\ ArmBoot[9] = "task_start" /\ ArmBoot[10] = "timer_init"
        /\ ArmBoot[11] = "start_print_task" /\ ArmBoot[12] = "ltai_start"
    BY DEF ArmBoot
  <2>3. \/ i = 1 \/ i = 2 \/ i = 3 \/ i = 4 \/ i = 5 \/ i = 6
        \/ i = 7 \/ i = 8 \/ i = 9 \/ i = 10 \/ i = 11 \/ i = 12
    BY <2>1
  <2>4. QED
    BY <1>1, <2>1, <2>2, <2>3
<1>2. CASE arch = "MIPS"
  <2>1. Steps = MipsBoot /\ Len(MipsBoot) = 7
    BY <1>2 DEF Steps, MipsBoot
  <2>2. /\ MipsBoot[1] = "clk_init" /\ MipsBoot[2] = "uart_init"
        /\ MipsBoot[3] = "banner" /\ MipsBoot[4] = "task_start"
        /\ MipsBoot[5] = "timer_init" /\ MipsBoot[6] = "start_print_task"
        /\ MipsBoot[7] = "ltai_start"
    BY DEF MipsBoot
  <2>3. i = 1 \/ i = 2 \/ i = 3 \/ i = 4 \/ i = 5 \/ i = 6 \/ i = 7
    BY <2>1
  <2>4. QED
    BY <1>2, <2>1, <2>2, <2>3
<1>3. QED
  BY <1>1, <1>2

LEMMA MapStart == AllInit => MapInv
<1> SUFFICES ASSUME AllInit
             PROVE  MapInv
  OBVIOUS
<1>1. arch \in {"ARM", "MIPS"} /\ todo = Steps
  BY DEF AllInit, Steps
<1>2. SubSeq(Steps, 0 + 1, Len(Steps)) = Steps
  BY <1>1, StepsFacts
<1>3. 0 \in 0 .. Len(Steps)
  BY <1>1, StepsFacts
<1>4. Reached(0)
  <2>1. /\ table = << >> /\ mmu = FALSE /\ ie = FALSE
        /\ timer = FALSE /\ idle = TRUE /\ serving = "none"
    BY DEF AllInit, MmuInit
  <2>2. (mmu <=> 0 >= 4) /\ table = IF 0 >= 3 THEN SystemMap ELSE << >>
    BY <2>1
  <2>3. QED
    BY <1>1, <1>2, <2>1, <2>2 DEF Reached
<1>5. QED
  BY <1>1, <1>3, <1>4 DEF MapInv

LEMMA MapNext == MapInv /\ [AllNext]_allVars => MapInv'
<1> SUFFICES ASSUME MapInv, [AllNext]_allVars
             PROVE  MapInv'
  OBVIOUS
<1>1. PICK n \in 0 .. Len(Steps) : Reached(n)
  BY DEF MapInv
<1>2. arch \in {"ARM", "MIPS"} /\ arch' = arch /\ Steps' = Steps /\ TimerAt' = TimerAt
  BY DEF MapInv, AllNext, plat_boot, int_disable_enable, task_sched, Expire, Press,
         ClockInterrupt, int_uart0, ClearSubSource, int_clear_int, int_clear_clock_int,
         allVars, setupVars, Steps, TimerAt
<1>3. n \in Nat /\ Len(Steps) \in Nat /\ TimerAt \in Nat /\ TimerAt <= Len(Steps)
  BY <1>2, StepsFacts DEF Steps, TimerAt, ArmBoot, MipsBoot
<1>4. CASE plat_boot
  <2>1. n < Len(Steps) /\ Head(todo) = Steps[n + 1]
        /\ todo' = SubSeq(Steps, (n + 1) + 1, Len(Steps))
    BY <1>1, <1>2, <1>3, <1>4, RestOf, StepsFacts DEF Reached, plat_boot
  <2>2. n + 1 \in 1 .. Len(Steps) /\ n + 1 \in 0 .. Len(Steps)
    BY <1>3, <2>1
  <2>3. /\ Head(todo) = "init_sys_mmu" <=> (arch = "ARM" /\ n + 1 = 3)
        /\ Head(todo) = "start_mmu" <=> (arch = "ARM" /\ n + 1 = 4)
    BY <1>2, <2>1, <2>2, MmuAt
  <2>4. Head(todo) = "timer_init" => n + 1 = TimerAt
    BY <1>2, <2>1, <2>2, StepsFacts
  <2>5. /\ ie' \in BOOLEAN /\ idle' \in BOOLEAN /\ timer' \in BOOLEAN
        /\ (ie' \/ timer' \/ ~idle' \/ serving' # "none") => n + 1 >= TimerAt
    <3>1. /\ ie' = (ie \/ Head(todo) = "timer_init")
          /\ timer' = (timer \/ Head(todo) = "timer_init")
          /\ idle' = idle /\ serving' = serving
      BY <1>4 DEF plat_boot
    <3>2. QED
      BY <1>1, <1>3, <2>4, <3>1 DEF Reached
  <2>6. arch = "MIPS" => table' = << >> /\ mmu' = FALSE
    BY <1>1, <1>4, <2>3 DEF Reached, plat_boot, mmuVars
  <2>7. ASSUME arch = "ARM"
        PROVE  /\ table' = IF n + 1 >= 3 THEN SystemMap ELSE << >>
               /\ mmu' <=> n + 1 >= 4
    <3>1. table = (IF n >= 3 THEN SystemMap ELSE << >>) /\ (mmu <=> n >= 4)
      BY <1>1, <2>7 DEF Reached
    <3>2. CASE n + 1 = 3
      <4>1. table' = SystemMap /\ mmu' = mmu
        BY <1>4, <2>3, <2>7, <3>2 DEF plat_boot, init_sys_mmu
      <4>2. QED
        BY <1>3, <3>1, <3>2, <4>1
    <3>3. CASE n + 1 = 4
      <4>1. table' = table /\ mmu' = TRUE
        BY <1>4, <2>3, <2>7, <3>3 DEF plat_boot, start_mmu
      <4>2. QED
        BY <1>3, <3>1, <3>3, <4>1
    <3>4. CASE n + 1 # 3 /\ n + 1 # 4
      <4>1. table' = table /\ mmu' = mmu
        BY <1>4, <2>3, <3>4 DEF plat_boot, mmuVars
      <4>2. (n + 1 >= 3 <=> n >= 3) /\ (n + 1 >= 4 <=> n >= 4)
        BY <1>3, <3>4
      <4>3. QED
        BY <3>1, <4>1, <4>2
    <3>5. QED
      BY <3>2, <3>3, <3>4
  <2>8. Reached(n + 1)'
    BY <1>2, <2>1, <2>5, <2>6, <2>7 DEF Reached
  <2>9. QED
    BY <1>2, <2>2, <2>8 DEF MapInv
<1>5. CASE ~ plat_boot
  <2>1. UNCHANGED <<todo, mmuVars>> /\ timer' = timer
    BY <1>5 DEF AllNext, int_disable_enable, task_sched, Expire, Press, ClockInterrupt,
       int_uart0, ClearSubSource, int_clear_int, int_clear_clock_int, allVars, setupVars
  <2>2. ie' \in BOOLEAN /\ idle' \in BOOLEAN
    <3>1. Switch => ie' \in BOOLEAN /\ idle' \in BOOLEAN
      BY DEF Switch
    <3>2. CASE UNCHANGED taskVars
      BY <1>1, <3>2 DEF Reached, taskVars
    <3>3. int_disable_enable => ie' \in BOOLEAN /\ idle' \in BOOLEAN
      BY <1>1 DEF int_disable_enable, Reached
    <3>4. \/ UNCHANGED taskVars \/ Switch \/ int_disable_enable
      BY <1>5 DEF AllNext, task_sched, Expire, Press, ClockInterrupt,
         int_uart0, ClearSubSource, int_clear_int, int_clear_clock_int, allVars
    <3>5. QED
      BY <3>1, <3>2, <3>3, <3>4
  <2>3. (ie' \/ ~idle' \/ serving' # "none")
           => (ie \/ timer \/ ~idle \/ serving # "none")
    BY <1>5 DEF AllNext, int_disable_enable, task_sched, Expire, Press, ClockInterrupt,
       int_uart0, ClearSubSource, int_clear_int, int_clear_clock_int, allVars, taskVars,
       Take
  <2>4. Reached(n)'
    BY <1>1, <1>2, <2>1, <2>2, <2>3 DEF Reached, mmuVars
  <2>5. QED
    BY <1>2, <2>4 DEF MapInv
<1>6. QED
  BY <1>4, <1>5

LEMMA MapInvariance == BootSpec => []MapInv
BY MapStart, MapNext, PTL DEF BootSpec

\* The steps of plat_boot before translation is on use other addresses than
\* those behind it, where the registers of devices are moved.
LEMMA StepsHit ==
    ASSUME arch = "ARM", NEW n \in 0 .. Len(Steps), Reached(n), todo # << >>,
           NEW a \in Accesses(Head(todo))
    PROVE  Translate(a[1]) = a[2]
<1>1. Steps = ArmBoot /\ Len(ArmBoot) = 12 /\ Steps \in Seq(Step)
  BY StepsFacts DEF Steps, ArmBoot
<1>2. n < 12 /\ Head(todo) = ArmBoot[n + 1]
  BY <1>1, RestOf DEF Reached
<1>3. /\ ArmBoot[1] = "helloworld" /\ ArmBoot[2] = "memcpy"
      /\ ArmBoot[3] = "init_sys_mmu" /\ ArmBoot[4] = "start_mmu"
      /\ ArmBoot[5] = "clk_init" /\ ArmBoot[6] = "uart_init"
      /\ ArmBoot[7] = "test_mmu" /\ ArmBoot[8] = "banner"
      /\ ArmBoot[9] = "task_start" /\ ArmBoot[10] = "timer_init"
      /\ ArmBoot[11] = "start_print_task" /\ ArmBoot[12] = "ltai_start"
  BY DEF ArmBoot
<1>4. CASE n < 4
  <2>1. mmu = FALSE
    BY <1>4 DEF Reached
  <2>2. \/ Head(todo) = "helloworld" \/ Head(todo) = "memcpy"
        \/ Head(todo) = "init_sys_mmu" \/ Head(todo) = "start_mmu"
    <3>1. n = 0 \/ n = 1 \/ n = 2 \/ n = 3
      BY <1>1, <1>4
    <3>2. QED
      BY <3>1, <1>2, <1>3
  <2>3. a[1] = a[2]
    BY <2>2 DEF Accesses, Memory, UartOff, L1_PTR_BASE_ADDR
  <2>4. QED
    BY <2>1, <2>3 DEF Translate
<1>5. CASE n >= 4
  <2>1. table = SystemMap /\ mmu
    BY <1>1, <1>5 DEF Reached
  <2>2. Head(todo) \notin {"helloworld", "init_sys_mmu"}
    <3>1. \/ n = 4 \/ n = 5 \/ n = 6 \/ n = 7 \/ n = 8 \/ n = 9 \/ n = 10 \/ n = 11
      BY <1>1, <1>2, <1>5
    <3>2. QED
      BY <3>1, <1>2, <1>3
  <2>3. a \in {Memory, <<\hCC0, \h4C0>>, UartOn, <<\hCA0, \h4A0>>, <<\hD10, \h510>>}
    BY <2>2 DEF Accesses
  <2>4. QED
    BY <2>1, <2>3, Mapped DEF Memory, UartOn
<1>6. QED
  BY <1>1, <1>4, <1>5

(* Every address that start-up and the handlers use reaches the memory or   *)
(* the device that is meant: helloworld and init_sys_mmu run before         *)
(* start_mmu, what uses the registers at their new place runs behind it,    *)
(* and interrupts, whose vectors are mapped to 0, come later still.         *)
THEOREM AddressesFound == BootSpec => []AccessesHit
<1>1. BootInv /\ MapInv => AccessesHit
  <2> SUFFICES ASSUME BootInv, MapInv
               PROVE  AccessesHit
    OBVIOUS
  <2>1. PICK n \in 0 .. Len(Steps) : Reached(n)
    BY DEF MapInv
  <2>2. ASSUME arch = "ARM", todo # << >>, NEW a \in Accesses(Head(todo))
        PROVE  Translate(a[1]) = a[2]
    BY <2>1, <2>2, StepsHit
  <2>3. ASSUME arch = "ARM", ie, NEW a \in HandlerAccesses
        PROVE  Translate(a[1]) = a[2]
    <3>1. n >= 10
      BY <2>1, <2>3 DEF Reached, TimerAt
    <3>2. table = SystemMap /\ mmu
      <4>1. n >= 3 /\ n >= 4
        BY <3>1
      <4>2. QED
        BY <2>1, <2>3, <4>1 DEF Reached
    <3>3. QED
      BY <2>3, <3>2, Mapped DEF HandlerAccesses, Memory, UartOn
  <2>4. ASSUME arch = "MIPS", todo # << >>, Head(todo) \in {"banner", "timer_init"}
        PROVE  display
    <3>1. PICK m \in 0 .. Len(Steps) : Taken(m)
      BY DEF BootInv, SetUp
    <3>2. Steps \in Seq(Step) /\ Len(Steps) \in Nat
      BY <2>4, StepsFacts
    <3>3. m < Len(Steps) /\ Head(todo) = Steps[m + 1]
      BY <2>4, <3>1, <3>2, RestOf DEF Taken
    <3>4. m + 1 \in 1 .. Len(Steps)
      BY <3>2, <3>3
    <3>5. m + 1 >= 3
      BY <2>4, <3>3, <3>4, MmuAt
    <3>6. m >= UartAt
      BY <2>4, <3>2, <3>5 DEF UartAt
    <3>7. QED
      BY <3>1, <3>6 DEF Taken
  <2>5. arch = "ARM" \/ arch = "MIPS"
    BY DEF MapInv
  <2>6. QED
    BY <2>2, <2>3, <2>4, <2>5 DEF AccessesHit
<1>2. QED
  BY <1>1, BootInvariance, MapInvariance, PTL

-----------------------------------------------------------------------------
(* The line buffer. *)

\* What the user sees of the line is what lies between the two pointers, and
\* the pointers stay in order as long as they do not come round the end.
LineTypeOK ==
    /\ UartTypeOK
    /\ ptail <= phead
    /\ Len(typed) = phead - ptail

Shown == \A i \in 1 .. Len(typed) :
            /\ ptail + i - 1 \in Offset
            /\ typed[i] = rcv_buf[ptail + i - 1]

LineInv == Shown /\ (overrun \/ line = seen)

LEMMA LineStart == UartInit => LineTypeOK /\ LineInv
<1> SUFFICES ASSUME UartInit
             PROVE  LineTypeOK /\ LineInv
  OBVIOUS
<1>1. 0 \in 0 .. Reach /\ UART_RCV_BUF_LEN \in Nat
  BY UartAssumption
<1>2. << >> \in Seq(Char) /\ << >> \in Seq(Char \cup {Nul})
  OBVIOUS
<1>3. UartTypeOK
  BY <1>1, <1>2 DEF UartInit, UartTypeOK
<1>4. QED
  BY <1>3 DEF UartInit, LineTypeOK, LineInv, Shown

LEMMA StoredType ==
    ASSUME UartTypeOK, NEW x, NEW c \in Char \cup {Nul}
    PROVE  /\ Stored(x, c) \in [Offset -> Char \cup {Nul}]
           /\ \A y \in Offset : Stored(x, c)[y] = IF y = x THEN c ELSE rcv_buf[y]
BY DEF UartTypeOK, Stored

\* The line that is handed over is the one between the pointers.
LEMMA LineTyped ==
    ASSUME LineTypeOK
    PROVE  /\ Line \in Seq(Char \cup {Nul})
           /\ Shown => Line = typed
<1>1. phead \in Nat /\ ptail \in Nat /\ phead - ptail \in Nat /\ UART_RCV_BUF_LEN \in Nat
  BY UartAssumption DEF LineTypeOK, UartTypeOK
<1>2. Line = Copied(ptail, phead)
  BY <1>1 DEF LineTypeOK, Line
<1>3. ASSUME NEW i \in 1 .. phead - ptail
      PROVE  (IF ptail + i - 1 \in Offset THEN rcv_buf[ptail + i - 1] ELSE Nul)
                \in Char \cup {Nul}
  BY DEF LineTypeOK, UartTypeOK
<1>4. Line \in [1 .. phead - ptail -> Char \cup {Nul}]
  BY <1>2, <1>3 DEF Copied
<1>5. ASSUME Shown
      PROVE  Line = typed
  <2>1. typed \in [1 .. phead - ptail -> Char]
    BY <1>1 DEF LineTypeOK, UartTypeOK
  <2>2. ASSUME NEW i \in 1 .. phead - ptail
        PROVE  Copied(ptail, phead)[i] = typed[i]
    BY <1>5, <2>2 DEF Shown, Copied, LineTypeOK
  <2>3. \A i \in 1 .. phead - ptail : Line[i] = typed[i]
    BY <1>2, <2>2
  <2>4. /\ Line = [i \in 1 .. phead - ptail |-> Line[i]]
        /\ typed = [i \in 1 .. phead - ptail |-> typed[i]]
    BY <1>4, <2>1
  <2>5. [i \in 1 .. phead - ptail |-> Line[i]] = [i \in 1 .. phead - ptail |-> typed[i]]
    BY <2>3
  <2>6. QED
    BY <2>4, <2>5
<1>6. QED
  BY <1>1, <1>4, <1>5

LEMMA PutLine ==
    ASSUME LineTypeOK, NEW c \in Char, Put(c)
    PROVE  /\ LineTypeOK'
           /\ Reach <= UART_RCV_BUF_LEN /\ LineInv => LineInv'
<1>1. /\ phead \in Nat /\ ptail \in Nat /\ Reach \in Nat /\ UART_RCV_BUF_LEN \in Nat
      /\ phead < Reach /\ phead' = phead + 1 /\ ptail' = ptail
      /\ typed \in Seq(Char) /\ typed' = Append(typed, c)
      /\ rcv_buf' = Stored(phead, c) /\ line' = line /\ seen' = seen /\ overrun' = overrun
  BY UartAssumption DEF LineTypeOK, UartTypeOK, Put
<1>2. typed' \in Seq(Char) /\ Len(typed') = Len(typed) + 1
      /\ \A i \in 1 .. Len(typed') : typed'[i] = IF i = Len(typed) + 1 THEN c ELSE typed[i]
  BY <1>1
<1>3. rcv_buf' \in [Offset -> Char \cup {Nul}]
      /\ \A y \in Offset : rcv_buf'[y] = IF y = phead THEN c ELSE rcv_buf[y]
  BY <1>1, StoredType DEF LineTypeOK
<1>4. LineTypeOK'
  BY <1>1, <1>2, <1>3 DEF LineTypeOK, UartTypeOK
<1>5. ASSUME Reach <= UART_RCV_BUF_LEN, LineInv
      PROVE  LineInv'
  <2>1. ASSUME NEW i \in 1 .. Len(typed')
        PROVE  ptail' + i - 1 \in Offset /\ typed'[i] = rcv_buf'[ptail' + i - 1]
    <3>1. Len(typed) \in Nat /\ Len(typed) = phead - ptail
      BY <1>1 DEF LineTypeOK
    <3>2. CASE i = Len(typed) + 1
      <4>1. ptail' + i - 1 = phead /\ phead \in Offset
        BY <1>1, <1>5, <3>1, <3>2 DEF Offset
      <4>2. QED
        BY <1>2, <1>3, <3>2, <4>1
    <3>3. CASE i # Len(typed) + 1
      <4>1. i \in 1 .. Len(typed) /\ ptail + i - 1 # phead
        BY <1>1, <1>2, <3>1, <3>3
      <4>2. ptail + i - 1 \in Offset /\ typed[i] = rcv_buf[ptail + i - 1]
        BY <1>5, <4>1 DEF LineInv, Shown
      <4>3. QED
        BY <1>1, <1>2, <1>3, <3>3, <4>1, <4>2
    <3>4. QED
      BY <3>2, <3>3
  <2>2. QED
    BY <1>1, <1>5, <2>1 DEF LineInv, Shown
<1>6. QED
  BY <1>4, <1>5

LEMMA BackspaceLine ==
    ASSUME LineTypeOK, Backspace
    PROVE  /\ LineTypeOK'
           /\ LineInv => LineInv'
<1>1. /\ phead \in Nat /\ ptail \in Nat /\ Reach \in Nat /\ phead <= Reach
      /\ ptail < phead /\ phead' = phead - 1 /\ ptail' = ptail
      /\ typed \in Seq(Char) /\ Len(typed) = phead - ptail
      /\ rcv_buf' = Stored(phead - 1, Nul) /\ line' = line /\ seen' = seen
      /\ overrun' = overrun
  BY UartAssumption DEF LineTypeOK, UartTypeOK, Backspace, Erasable
<1>2. typed # << >> /\ typed' = SubSeq(typed, 1, Len(typed) - 1)
  BY <1>1 DEF Backspace, Front
<1>3. typed' \in Seq(Char) /\ Len(typed') = Len(typed) - 1
      /\ \A i \in 1 .. Len(typed') : i \in 1 .. Len(typed) /\ typed'[i] = typed[i]
  <2>1. Len(typed) \in Nat /\ Len(typed) - 1 \in Nat
    BY <1>1
  <2>2. QED
    BY <1>1, <1>2, <2>1
<1>4. rcv_buf' \in [Offset -> Char \cup {Nul}]
      /\ \A y \in Offset : rcv_buf'[y] = IF y = phead - 1 THEN Nul ELSE rcv_buf[y]
  BY <1>1, StoredType DEF LineTypeOK
<1>5. LineTypeOK'
  BY <1>1, <1>3, <1>4 DEF LineTypeOK, UartTypeOK
<1>6. ASSUME LineInv
      PROVE  LineInv'
  <2>1. ASSUME NEW i \in 1 .. Len(typed')
        PROVE  ptail' + i - 1 \in Offset /\ typed'[i] = rcv_buf'[ptail' + i - 1]
    <3>1. i \in 1 .. Len(typed) /\ typed'[i] = typed[i] /\ ptail + i - 1 # phead - 1
      BY <1>1, <1>3
    <3>2. ptail + i - 1 \in Offset /\ typed[i] = rcv_buf[ptail + i - 1]
      BY <1>6, <3>1 DEF LineInv, Shown
    <3>3. QED
      BY <1>1, <1>4, <3>1, <3>2
  <2>2. QED
    BY <1>1, <1>6, <2>1 DEF LineInv, Shown
<1>7. QED
  BY <1>5, <1>6

LEMMA EnterLine ==
    ASSUME LineTypeOK, Enter
    PROVE  /\ LineTypeOK'
           /\ LineInv => LineInv'
<1>1. /\ phead \in Nat /\ phead' = phead /\ overrun' = overrun /\ ptail' = phead /\ typed' = << >>
      /\ rcv_buf' = Stored(phead, Nul)
      /\ line' = (IF Line = << >> THEN line ELSE Line)
      /\ seen' = (IF typed = << >> THEN seen ELSE typed)
  BY DEF LineTypeOK, UartTypeOK, Enter, Restart
<1>2. << >> \in Seq(Char) /\ Len(<< >>) = 0
  OBVIOUS
<1>3. UartTypeOK'
  BY <1>1, <1>2, StoredType, LineTyped DEF LineTypeOK, UartTypeOK
<1>4. LineTypeOK'
  BY <1>1, <1>2, <1>3 DEF LineTypeOK
<1>5. ASSUME LineInv
      PROVE  LineInv'
  <2>1. Line = typed /\ (overrun' \/ line' = seen')
    BY <1>1, <1>5, LineTyped DEF LineInv
  <2>2. QED
    BY <1>1, <2>1 DEF LineInv, Shown
<1>6. QED
  BY <1>4, <1>5

\* A line too long for cmd leaves the buffer as it is, but for the 0 behind it.
LEMMA OverrunLine ==
    ASSUME LineTypeOK, Overrun
    PROVE  /\ LineTypeOK'
           /\ LineInv => LineInv'
<1>1. /\ phead \in Nat /\ ptail \in Nat /\ phead' = phead /\ ptail' = ptail /\ typed' = typed
      /\ rcv_buf' = Stored(phead, Nul) /\ line' = line /\ seen' = typed /\ overrun'
      /\ overrun' \in BOOLEAN
      /\ Len(typed) = phead - ptail
  BY DEF LineTypeOK, UartTypeOK, Overrun
<1>2. rcv_buf' \in [Offset -> Char \cup {Nul}]
      /\ \A y \in Offset : rcv_buf'[y] = IF y = phead THEN Nul ELSE rcv_buf[y]
  BY <1>1, StoredType DEF LineTypeOK
<1>3. LineTypeOK'
  BY <1>1, <1>2 DEF LineTypeOK, UartTypeOK
<1>4. ASSUME LineInv
      PROVE  LineInv'
  <2>1. ASSUME NEW i \in 1 .. Len(typed')
        PROVE  ptail' + i - 1 \in Offset /\ typed'[i] = rcv_buf'[ptail' + i - 1]
    <3>1. i \in 1 .. Len(typed) /\ ptail + i - 1 # phead
      BY <1>1
    <3>2. ptail + i - 1 \in Offset /\ typed[i] = rcv_buf[ptail + i - 1]
      BY <1>4, <3>1 DEF LineInv, Shown
    <3>3. QED
      BY <1>1, <1>2, <3>1, <3>2
  <2>2. QED
    BY <1>1, <2>1 DEF LineInv, Shown
<1>5. QED
  BY <1>3, <1>4

LEMMA LineNext ==
    LineTypeOK /\ [AllNext]_allVars
        => LineTypeOK' /\ (Reach <= UART_RCV_BUF_LEN /\ LineInv => LineInv')
<1> SUFFICES ASSUME LineTypeOK, [AllNext]_allVars
             PROVE  LineTypeOK' /\ (Reach <= UART_RCV_BUF_LEN /\ LineInv => LineInv')
  OBVIOUS
<1>1. CASE UNCHANGED uartVars
  BY <1>1 DEF LineTypeOK, LineInv, Shown, UartTypeOK, uartVars
<1>2. CASE int_uart0_char_handle(key)
  <2>1. \/ \E c \in Char : Put(c)
        \/ Backspace \/ Enter \/ Overrun \/ UNCHANGED uartVars
    BY <1>2 DEF int_uart0_char_handle
  <2>2. QED
    BY <1>1, <2>1, PutLine, BackspaceLine, EnterLine, OverrunLine
<1>3. UNCHANGED uartVars \/ int_uart0_char_handle(key)
  BY DEF AllNext, plat_boot, int_disable_enable, task_sched, Expire, Press,
         ClockInterrupt, int_uart0, ClearSubSource, int_clear_int, int_clear_clock_int,
         allVars
<1>4. QED
  BY <1>1, <1>2, <1>3

(* ltai gets the line as the user saw it when pressing enter, with what was *)
(* taken back gone, as long as no more characters are typed and kept than   *)
(* the buffer holds, and until a line is entered that is longer than cmd:   *)
(* uart.c never takes phead back to the start of the buffer, and writes     *)
(* behind its end after that; and it copies the line to cmd, which has 100  *)
(* characters and is on the stack of the interrupt, whatever its length.    *)
THEOREM LinesAsTyped == Reach <= UART_RCV_BUF_LEN => (BootSpec => []LineAsSeen)
<1> SUFFICES ASSUME Reach <= UART_RCV_BUF_LEN
             PROVE  BootSpec => []LineAsSeen
  OBVIOUS
<1>1. AllInit => LineTypeOK /\ LineInv
  BY LineStart DEF AllInit
<1>2. LineTypeOK /\ LineInv /\ [AllNext]_allVars => LineTypeOK' /\ LineInv'
  BY LineNext
<1>3. LineInv => LineAsSeen
  BY DEF LineInv, LineAsSeen
<1>4. QED
  BY <1>1, <1>2, <1>3, PTL DEF BootSpec

-----------------------------------------------------------------------------
(* Types. *)

FlagsTyped ==
    /\ display \in BOOLEAN /\ started \in BOOLEAN /\ timer \in BOOLEAN
    /\ mmu \in BOOLEAN /\ subsrcpnd \in BOOLEAN
    /\ intpnd \in Source \cup {"none"}
    /\ key \in Key \cup {NoKey}

LEMMA FlagsNext == FlagsTyped /\ [AllNext]_allVars => FlagsTyped'
<1> SUFFICES ASSUME FlagsTyped, [AllNext]_allVars
             PROVE  FlagsTyped'
  OBVIOUS
<1>1. CASE plat_boot
  BY <1>1 DEF FlagsTyped, plat_boot, init_sys_mmu, start_mmu, mmuVars, devVars
<1>2. CASE int_disable_enable \/ task_sched \/ UNCHANGED allVars
  BY <1>2 DEF FlagsTyped, int_disable_enable, task_sched, allVars, mmuVars, setupVars,
     devVars
<1>3. CASE Expire
  BY <1>3 DEF FlagsTyped, Expire, Raise, Latched, Source, mmuVars, setupVars
<1>4. CASE \E k \in Key : Press(k)
  BY <1>4 DEF FlagsTyped, Press, Raise, Latched, Source, mmuVars, setupVars
<1>5. CASE ClockInterrupt \/ int_uart0
  BY <1>5 DEF FlagsTyped, ClockInterrupt, int_uart0, mmuVars, setupVars, devVars
<1>6. CASE ClearSubSource \/ int_clear_int \/ int_clear_clock_int
  BY <1>6 DEF FlagsTyped, ClearSubSource, int_clear_int, int_clear_clock_int, Latched,
     Source, mmuVars, setupVars
<1>7. QED
  BY <1>1, <1>2, <1>3, <1>4, <1>5, <1>6 DEF AllNext

(* Every variable keeps its type, the pointers of the line buffer their     *)
(* range, and plat_boot takes its steps in their order.                     *)
THEOREM BootTypeCorrect == BootSpec => []AllTypeOK
<1>1. AllInit => LineTypeOK /\ FlagsTyped
  BY LineStart DEF AllInit, MmuInit, FlagsTyped
<1>2. LineTypeOK /\ FlagsTyped /\ [AllNext]_allVars => LineTypeOK' /\ FlagsTyped'
  BY LineNext, FlagsNext
<1>3. BootInv /\ MapInv /\ LineTypeOK /\ FlagsTyped => AllTypeOK
  <2> SUFFICES ASSUME BootInv, MapInv, LineTypeOK, FlagsTyped
               PROVE  AllTypeOK
    OBVIOUS
  <2>1. PICK n \in 0 .. Len(Steps) : Reached(n)
    BY DEF MapInv
  <2>2. arch \in {"ARM", "MIPS"} /\ ie \in BOOLEAN /\ idle \in BOOLEAN
    BY <2>1 DEF MapInv, Reached
  <2>3. SystemMap \in Seq(Run) /\ << >> \in Seq(Run)
    <3>1. /\ <<0, 768, 8>> \in Run /\ <<768, 768, 8>> \in Run
          /\ <<3200, 1152, 384>> \in Run
      <4>1. /\ 0 \in Section /\ 768 \in Section /\ 8 \in Section
            /\ 3200 \in Section /\ 1152 \in Section /\ 384 \in Section
        BY DEF Section
      <4>2. QED
        BY <4>1 DEF Run
    <3>2. << <<0, 768, 8>>, <<768, 768, 8>>, <<3200, 1152, 384>> >> \in Seq(Run)
      BY <3>1
    <3>3. SystemMap = << <<0, 768, 8>>, <<768, 768, 8>>, <<3200, 1152, 384>> >>
      BY DEF SystemMap, VIRTUAL_VECTOR_ADDR, PHYSICAL_VECTOR_ADDR, MEM_MAP_SIZE,
             VIRTUAL_MEM_ADDR, PHYSICAL_MEM_ADDR, VIRTUAL_IO_ADDR, PHYSICAL_IO_ADDR,
             IO_MAP_SIZE
    <3>4. QED
      BY <3>2, <3>3
  <2>4. MmuTypeOK
    <3>1. table = SystemMap \/ table = << >>
      BY <2>1, <2>2 DEF Reached
    <3>2. QED
      BY <2>3, <3>1 DEF MmuTypeOK, FlagsTyped
  <2>5. Len(ArmBoot) = 12
    BY DEF ArmBoot
  <2>6. n \in 0 .. Len(ArmBoot)
    <3>1. CASE arch = "ARM"
      BY <3>1 DEF Steps
    <3>2. CASE arch = "MIPS"
      <4>1. Len(MipsBoot) = 7 /\ Steps = MipsBoot
        BY <3>2 DEF Steps, MipsBoot
      <4>2. QED
        BY <2>5, <4>1
    <3>3. QED
      BY <2>2, <3>1, <3>2
  <2>7. \E m \in 0 .. Len(ArmBoot) :
           todo = SubSeq(IF arch = "ARM" THEN ArmBoot ELSE MipsBoot, m + 1,
                         Len(IF arch = "ARM" THEN ArmBoot ELSE MipsBoot))
    BY <2>1, <2>6 DEF Reached, Steps
  <2>8. irq_func \subseteq Source /\ unmasked \subseteq Source
    BY DEF BootInv, SetUp, Taken, Source
  <2>9. /\ srcpnd \subseteq Source /\ owed \in [Source -> Nat]
        /\ serving \in {"none", "ack", "clear", "overrun"}
    BY DEF BootInv, Pending
  <2>10. QED
    BY <2>2, <2>4, <2>7, <2>8, <2>9 DEF AllTypeOK, LineTypeOK, FlagsTyped
<1>4. QED
  BY <1>1, <1>2, <1>3, BootInvariance, MapInvariance, PTL DEF BootSpec

-----------------------------------------------------------------------------
(* The switch. *)

\* What task t needs besides its callee-saved registers if it was outside of a
\* critical section, in its own code or at a place of task_switch.
Whole(regs, t, at) ==
    /\ regs["r0"] = t /\ regs["lr"] = t
    /\ (IF at = "svc" THEN regs["r1"] ELSE stack[t]["r1"]) = t

Room(at) == IF at = "svc" THEN 0 ELSE -12

\* Task t has left the processor: from a call, masked, or from an interrupt.
Left(t) ==
    /\ ctx[t].regs["r4"] = t
    /\ ctx[t].sp = Room(ctx[t].at)
    /\ pos[t] \in {"run", "returned"}
    /\ ctx[t].masked = (pos[t] = "returned")
    /\ pos[t] = "returned" => ctx[t].at = "svc"
    /\ pos[t] = "run" => Whole(ctx[t].regs, t, ctx[t].at)

Running ==
    /\ sp = Room(mode) /\ cpu["r4"] = cur
    /\ masked = (pos[cur] # "run")
    /\ pos[cur] = "critical" => mode = "svc"
    /\ pos[cur] # "returned" => Whole(cpu, cur, mode)

Interrupted ==
    /\ sp = Room(frame.at) /\ cpu["r4"] = cur /\ cpu["lr"] = cur
    /\ pos[cur] = "run"
    /\ frame.regs["r0"] = cur
    /\ (IF frame.at = "svc" THEN frame.regs["r1"] ELSE stack[cur]["r1"]) = cur
    /\ ~frame.spsr

Inv ==
    /\ TypeOK
    /\ new \subseteq Task \ {cur}
    /\ mode \in At => Running
    /\ mode = "irq" => Interrupted
    /\ mode = "lost" => pos[cur] = "run"
    /\ \A t \in Task \ {cur} : Left(t)

LEMMA InitInv == Init => Inv
<1> SUFFICES ASSUME Init
             PROVE  Inv
  OBVIOUS
<1>1. TypeOK
  BY SwitchAssumption DEF Init, TypeOK, Regs, Reg, Args, At
<1>2. Running
  BY SwitchAssumption DEF Init, Running, Room, Whole, Reg, Args
<1>3. \A t \in Task : Left(t)
  BY DEF Init, Left, Room, Whole, Reg, Args
<1>4. QED
  BY <1>1, <1>2, <1>3 DEF Init, Inv

LEMMA CallsInv ==
    ASSUME Inv, int_disable \/ int_enable
    PROVE  Inv'
<1>1. CASE int_disable
  <2>1. TypeOK' /\ new' \subseteq Task \ {cur'}
    BY <1>1 DEF int_disable, Inv, TypeOK
  <2>2. Running'
    BY <1>1 DEF int_disable, Inv, TypeOK, Running, Room, Whole, At
  <2>3. \A t \in Task \ {cur'} : Left(t)'
    BY <1>1 DEF int_disable, Inv, TypeOK, Left, Room, Whole
  <2>4. QED
    BY <1>1, <2>1, <2>2, <2>3 DEF int_disable, Inv
<1>2. CASE int_enable
  <2>1. TypeOK' /\ new' \subseteq Task \ {cur'}
    BY <1>2 DEF int_enable, Inv, TypeOK, Regs, Reg, Args, Enabled, is_inirq
  <2>2. Running'
    BY <1>2 DEF int_enable, Inv, TypeOK, Running, Room, Whole, Reg, Args, Enabled,
       is_inirq, At
  <2>3. \A t \in Task \ {cur'} : Left(t)'
    BY <1>2 DEF int_enable, Inv, TypeOK, Left, Room, Whole
  <2>4. QED
    BY <1>2, <2>1, <2>2, <2>3 DEF int_enable, Inv
<1>3. QED
  BY <1>1, <1>2

LEMMA TaskSwitchInv ==
    ASSUME Inv, NEW u \in Task \ {cur}, task_switch(u)
    PROVE  Inv'
<1>1. /\ mode = "svc" /\ pos[cur] = "critical"
      /\ mode' = IF ctx[u].at = "svc" THEN "address" ELSE "lost"
      /\ cur' = u /\ pos' = [pos EXCEPT ![cur] = "returned"]
      /\ ctx' = [ctx EXCEPT ![cur] = SavedByCall]
      /\ cpu' = [r \in Reg |-> IF r \in {"r1", "r2"} THEN Junk ELSE ctx[u].regs[r]]
      /\ stack' = [stack EXCEPT ![u] = [r \in {"r1", "r2"} |-> ctx[u].regs[r]]]
      /\ sp' = ctx[u].sp - 12 /\ masked' = ctx[u].masked
      /\ new' = new \ {u} /\ UNCHANGED <<spsr, frame>>
  BY DEF task_switch, AfterCall
<1>2. SavedByCall \in [regs : Regs(Reg), sp : {-12, 0}, masked : BOOLEAN, at : At]
  BY <1>1 DEF SavedByCall, Inv, Running, Room, TypeOK, Regs, Reg, Args, At
<1>3. /\ ctx[u] \in [regs : Regs(Reg), sp : {-12, 0}, masked : BOOLEAN, at : At]
      /\ ctx[u].regs \in Regs(Reg) /\ ctx[u].sp \in {-12, 0}
      /\ ctx[u].masked \in BOOLEAN /\ ctx[u].at \in At
  BY DEF Inv, TypeOK
<1>4. TypeOK' /\ new' \subseteq Task \ {cur'}
  <2>1. cpu' \in Regs(Reg) /\ stack' \in [Task -> Regs({"r1", "r2"})]
    BY <1>1, <1>3 DEF Inv, TypeOK, Regs, Reg, Args
  <2>2. sp' \in {-24, -12, 0} /\ mode' \in At \cup {"irq", "lost"} /\ mode' # "irq"
    BY <1>1, <1>3 DEF At, Place
  <2>3. ctx' \in [Task -> [regs : Regs(Reg), sp : {-12, 0}, masked : BOOLEAN, at : At]]
    BY <1>1, <1>2 DEF Inv, TypeOK
  <2>4. QED
    BY <1>1, <1>3, <2>1, <2>2, <2>3 DEF Inv, TypeOK
<1>5. Left(u) /\ pos'[u] = pos[u] /\ stack'[u]["r1"] = ctx[u].regs["r1"]
  BY <1>1 DEF Inv, TypeOK
<1>6. mode' \in At => Running'
  <2>1. CASE mode' = "address"
    <3>1. ctx[u].at = "svc"
      BY <1>1, <2>1
    <3>2. /\ cpu'["r4"] = u /\ cpu'["r0"] = ctx[u].regs["r0"]
          /\ cpu'["lr"] = ctx[u].regs["lr"]
      BY <1>1, <1>5 DEF Left, Reg, Args
    <3>3. sp' = -12
      BY <1>1, <1>5, <3>1 DEF Left, Room
    <3>4. QED
      BY <1>1, <1>5, <2>1, <3>1, <3>2, <3>3 DEF Running, Left, Room, Whole
  <2>2. CASE mode' # "address"
    BY <1>1, <2>2 DEF At, Place
  <2>3. QED
    BY <2>1, <2>2
<1>7. mode' = "lost" => pos'[cur'] = "run"
  BY <1>1, <1>5 DEF Left
<1>8. ASSUME NEW t \in Task \ {u}
      PROVE  Left(t)'
  <2>1. CASE t = cur
    <3>1. ctx'[t] = SavedByCall /\ pos'[t] = "returned"
      BY <1>1, <2>1 DEF Inv, TypeOK
    <3>2. /\ SavedByCall.regs["r4"] = cur /\ SavedByCall.masked = TRUE
          /\ SavedByCall.at = "svc" /\ SavedByCall.sp = 0
      BY <1>1 DEF SavedByCall, Inv, Running, Room, TypeOK, Regs, Reg, Args, At
    <3>3. QED
      BY <2>1, <3>1, <3>2 DEF Left, Room
  <2>2. CASE t # cur
    <3>1. ctx'[t] = ctx[t] /\ pos'[t] = pos[t] /\ stack'[t] = stack[t]
      BY <1>1, <2>2 DEF Inv, TypeOK
    <3>2. QED
      BY <2>2, <3>1 DEF Inv, Left, Room, Whole
  <2>3. QED
    BY <2>1, <2>2
<1>9. QED
  BY <1>1, <1>4, <1>6, <1>7, <1>8 DEF Inv, At, Place

LEMMA PopInv ==
    ASSUME Inv, push \/ pop
    PROVE  Inv'
<1>1. CASE push
  <2>1. TypeOK' /\ new' \subseteq Task \ {cur'}
    BY <1>1 DEF push, Inv, TypeOK, At, Place
  <2>2. Running'
    BY <1>1 DEF push, Inv, Running, Room, Whole, At, Place
  <2>3. \A t \in Task \ {cur'} : Left(t)'
    BY <1>1 DEF push, Inv, Left, Room, Whole
  <2>4. QED
    BY <1>1, <2>1, <2>2, <2>3 DEF push, Inv
<1>2. CASE pop
  <2>1. mode = "pop" /\ Running /\ sp = -12
    BY <1>2 DEF pop, Inv, Running, Room, At, Place
  <2>2. cpu' \in Regs(Reg)
    BY <1>2 DEF pop, Inv, TypeOK, Regs, Reg, Args
  <2>3. TypeOK' /\ new' \subseteq Task \ {cur'}
    BY <1>2, <2>1, <2>2 DEF pop, Inv, TypeOK, At, Place
  <2>4. /\ cpu'["r0"] = cpu["r0"] /\ cpu'["r1"] = stack[cur]["r1"]
        /\ cpu'["r4"] = cpu["r4"] /\ cpu'["lr"] = cpu["lr"]
    BY <1>2 DEF pop, Reg, Args
  <2>5. Running'
    BY <1>2, <2>1, <2>4 DEF pop, Running, Room, Whole
  <2>6. \A t \in Task \ {cur'} : Left(t)'
    BY <1>2 DEF pop, Inv, Left, Room, Whole
  <2>7. QED
    BY <1>2, <2>3, <2>5, <2>6 DEF pop, Inv
<1>3. QED
  BY <1>1, <1>2

LEMMA HandlerInv ==
    ASSUME Inv, __vector_irq \/ Handler \/ retfromirq
    PROVE  Inv'
<1>1. CASE __vector_irq
  <2>1. TypeOK' /\ new' \subseteq Task \ {cur'}
    BY <1>1 DEF __vector_irq, Inv, TypeOK, Regs, Reg, Args
  <2>2. mode \in At /\ Running /\ pos[cur] = "run"
    BY <1>1 DEF __vector_irq, Inv, TypeOK, Running
  <2>3. /\ frame'.at = mode /\ frame'.spsr = FALSE
        /\ frame'.regs["r0"] = cpu["r0"] /\ frame'.regs["r1"] = cpu["r1"]
    BY <1>1 DEF __vector_irq, Args
  <2>4. Interrupted'
    BY <1>1, <2>2, <2>3 DEF __vector_irq, Running, Interrupted, Room, Whole
  <2>5. \A t \in Task \ {cur'} : Left(t)'
    BY <1>1 DEF __vector_irq, Inv, Left, Room, Whole
  <2>6. QED
    BY <1>1, <2>1, <2>4, <2>5 DEF __vector_irq, Inv, At, Place
<1>2. CASE Handler
  <2>1. TypeOK' /\ new' \subseteq Task \ {cur'}
    BY <1>2 DEF Handler, Called, Enabled, is_inirq, Inv, TypeOK, Regs, Reg, Args
  <2>2. Interrupted'
    BY <1>2 DEF Handler, Called, Inv, TypeOK, Interrupted, Room, Reg, Args
  <2>3. \A t \in Task \ {cur'} : Left(t)'
    BY <1>2 DEF Handler, Inv, Left, Room, Whole
  <2>4. QED
    BY <1>2, <2>1, <2>2, <2>3 DEF Handler, Inv, At, Place
<1>3. CASE retfromirq
  <2>1. frame.at \in At /\ Interrupted
    BY <1>3 DEF retfromirq, Inv, TypeOK
  <2>2. TypeOK' /\ new' \subseteq Task \ {cur'}
    <3>1. frame.spsr \in BOOLEAN /\ frame.regs \in Regs(Args) /\ frame.at # "irq"
      BY <2>1 DEF Inv, TypeOK, At, Place
    <3>2. cpu' \in Regs(Reg)
      BY <1>3, <3>1 DEF retfromirq, Inv, TypeOK, Regs, Reg, Args
    <3>3. QED
      BY <1>3, <2>1, <3>1, <3>2 DEF retfromirq, Inv, TypeOK
  <2>3. /\ cpu'["r0"] = cur /\ cpu'["r1"] = frame.regs["r1"]
        /\ cpu'["r4"] = cur /\ cpu'["lr"] = cur
    BY <1>3, <2>1 DEF retfromirq, Interrupted, Reg, Args
  <2>4. Running'
    <3>1. frame.spsr \in BOOLEAN
      BY DEF Inv, TypeOK
    <3>2. frame.spsr = FALSE
      BY <2>1, <3>1 DEF Interrupted
    <3>3. mode' = frame.at /\ masked' = FALSE /\ UNCHANGED <<cur, pos, sp, stack>>
      BY <1>3, <3>2 DEF retfromirq
    <3>4. QED
      BY <2>1, <2>3, <3>3 DEF Interrupted, Running, Room, Whole
  <2>5. \A t \in Task \ {cur'} : Left(t)'
    BY <1>3 DEF retfromirq, Inv, Left, Room, Whole
  <2>6. QED
    BY <1>3, <2>1, <2>2, <2>4, <2>5 DEF retfromirq, Inv, At, Place
<1>4. QED
  BY <1>1, <1>2, <1>3

LEMMA IrqSwitchInv ==
    ASSUME Inv, NEW u \in Task \ {cur}, taskswichirq(u)
    PROVE  Inv'
<1>1. /\ mode = "irq"
      /\ mode' = IF ctx[u].at = "address" THEN "lost" ELSE ctx[u].at
      /\ cur' = u /\ pos' = pos
      /\ ctx' = [ctx EXCEPT ![cur] = SavedByIrq]
      /\ cpu' = IF u \in new THEN ctx[u].regs ELSE Restored(ctx[u].regs)
      /\ sp' = ctx[u].sp /\ spsr' = ctx[u].masked /\ masked' = ctx[u].masked
      /\ new' = new \ {u} /\ frame' = frame /\ stack' = stack
  BY DEF taskswichirq
<1>2. Interrupted
  BY <1>1 DEF Inv
<1>3. /\ ctx[u].regs \in Regs(Reg) /\ ctx[u].sp \in {-12, 0}
      /\ ctx[u].masked \in BOOLEAN /\ ctx[u].at \in At
  BY DEF Inv, TypeOK
<1>4. SavedByIrq \in [regs : Regs(Reg), sp : {-12, 0}, masked : BOOLEAN, at : At]
  BY <1>2 DEF SavedByIrq, Inv, Interrupted, Room, TypeOK, Regs, Reg, Args
<1>5. /\ cpu' \in Regs(Reg)
      /\ \A r \in {"r0", "r1", "r4", "lr"} : cpu'[r] = ctx[u].regs[r]
  BY <1>1, <1>3 DEF Restored, Called, Regs, Reg, Args
<1>6. mode' \in At \cup {"lost"} /\ mode' # "irq"
  BY <1>1, <1>3 DEF At, Place
<1>7. TypeOK' /\ new' \subseteq Task \ {cur'}
  BY <1>1, <1>3, <1>4, <1>5, <1>6 DEF Inv, TypeOK
<1>8. Left(u)
  BY DEF Inv
<1>9. mode' \in At => Running'
  <2>1. CASE mode' = ctx[u].at
    BY <1>1, <1>5, <1>8, <2>1 DEF Running, Left, Room, Whole
  <2>2. CASE mode' # ctx[u].at
    BY <1>1, <2>2 DEF At, Place
  <2>3. QED
    BY <2>1, <2>2
<1>10. mode' = "lost" => pos'[cur'] = "run"
  BY <1>1, <1>3, <1>8 DEF Left, At, Place
<1>11. ASSUME NEW t \in Task \ {u}
      PROVE  Left(t)'
  <2>1. CASE t = cur
    <3>1. ctx'[t] = SavedByIrq /\ pos'[t] = "run"
      BY <1>1, <1>2, <2>1 DEF Inv, Interrupted, TypeOK
    <3>2. /\ SavedByIrq.regs["r4"] = t /\ SavedByIrq.at = frame.at
          /\ SavedByIrq.sp = Room(frame.at)
          /\ SavedByIrq.regs["r0"] = t /\ SavedByIrq.regs["lr"] = t
          /\ SavedByIrq.regs["r1"] = frame.regs["r1"] /\ ~SavedByIrq.masked
      BY <1>2, <2>1 DEF SavedByIrq, Interrupted, Reg, Args
    <3>3. SavedByIrq.masked = FALSE
      BY <3>2, <1>4
    <3>4. QED
      BY <1>1, <1>2, <2>1, <3>1, <3>2, <3>3 DEF Left, Whole, Room, Interrupted
  <2>2. CASE t # cur
    BY <1>1, <2>2 DEF Inv, TypeOK, Left, Room, Whole
  <2>3. QED
    BY <2>1, <2>2
<1>12. QED
  BY <1>1, <1>6, <1>7, <1>9, <1>10, <1>11 DEF Inv

LEMMA NextInv == Inv /\ [Next]_vars => Inv'
<1> SUFFICES ASSUME Inv, [Next]_vars
             PROVE  Inv'
  OBVIOUS
<1>1. CASE int_disable \/ int_enable
  BY <1>1, CallsInv
<1>2. CASE __vector_irq \/ Handler \/ retfromirq
  BY <1>2, HandlerInv
<1>3. ASSUME NEW u \in Task \ {cur}, task_switch(u) \/ taskswichirq(u)
      PROVE  Inv'
  BY <1>3, TaskSwitchInv, IrqSwitchInv
<1>4. CASE push \/ pop
  BY <1>4, PopInv
<1>5. CASE Astray \/ UNCHANGED vars
  BY <1>5 DEF Astray, vars, Inv, TypeOK, Running, Interrupted, Left, Room, Whole
<1>6. QED
  BY <1>1, <1>2, <1>3, <1>4, <1>5 DEF Next

LEMMA Invariance == Spec => []Inv
BY InitInv, NextInv, PTL DEF Spec

(* Every variable keeps its type, and the handler stays masked although the *)
(* code it calls enables interrupts (int_enable).                           *)
THEOREM ArmTypeCorrect == Spec => []TypeOK
<1>1. Inv => TypeOK
  BY DEF Inv
<1>2. QED
  BY <1>1, Invariance, PTL

(* A task that is back in its own code finds its stack and its registers    *)
(* again, whichever of task_switch and taskswichirq it left and comes back  *)
(* by, and although interrupts may come, and other tasks run, in the tail   *)
(* of task_switch.  An interrupt there costs none its way back that called  *)
(* task_switch itself: only a new task, or one that an interrupt had taken  *)
(* off the processor.                                                       *)
THEOREM ArmContextKept == Spec => []ContextKept
<1>1. Inv => ContextKept
  BY DEF Inv, Running, Room, Whole, ContextKept, At
<1>2. QED
  BY <1>1, Invariance, PTL

(* On ARM a critical section, from int_disable to int_enable, is never      *)
(* interrupted, before the switch in it or behind it.                       *)
THEOREM ArmImplementsProcessor == Spec => ImplementsProcessor
<1>1. Init => P!Init
  BY DEF Init, P!Init
<1>2. ASSUME Inv, [Next]_vars
      PROVE  [P!Next]_(P!vars)
  <2>1. CASE int_disable
    BY <2>1 DEF int_disable, P!Next, P!Enter
  <2>2. CASE int_enable
    BY <2>2 DEF int_enable, P!Next, P!Leave
  <2>3. ASSUME NEW u \in Task \ {cur}, task_switch(u)
        PROVE  P!Next
    BY <2>3 DEF task_switch, P!Next, P!Give
  <2>4. ASSUME NEW u \in Task \ {cur}, taskswichirq(u)
        PROVE  P!Next
    BY <1>2, <2>4 DEF taskswichirq, Inv, Interrupted, P!Next, P!Lose
  <2>5. CASE push \/ pop \/ __vector_irq \/ Handler \/ retfromirq \/ Astray
             \/ UNCHANGED vars
    BY <2>5 DEF push, pop, __vector_irq, Handler, retfromirq, Astray, vars, P!vars
  <2>6. QED
    BY <1>2, <2>1, <2>2, <2>3, <2>4, <2>5 DEF Next
<1>3. QED
  BY <1>1, <1>2, Invariance, PTL DEF Spec, ImplementsProcessor, P!Spec
=============================================================================
