-------------------------- MODULE SwitchMipsProofs --------------------------
(***************************************************************************)
(* Proofs about SwitchMips, for any number of tasks: the types, what a     *)
(* task finds when it runs again, and that critical sections are those of  *)
(* Processor up to the switch in them.                                     *)
(*                                                                         *)
(* Stands says what a task needs at each place at which an exception may   *)
(* come, to find its way home from there: its registers at home, and in    *)
(* front of a jump; the frame that taskswichirq has put on its stack as    *)
(* long as it loads them.  Inv says it of the running task, of what the    *)
(* handler has pushed or loads, and of every context.  The enable bits     *)
(* take part with two facts: a task in a critical section has them off,    *)
(* and only a new task has them on while its registers are loaded.         *)
(***************************************************************************)
EXTENDS SwitchMips, TLAPS

\* All the registers that t expects are in regs.
Kept(regs, t) ==
    /\ regs["gpr"] = t
    /\ (pos[t] # "returned" /\ ~mixed) => \A r \in Scratch : regs[r] = t

\* Task t does not miss the scratch registers.
Frugal(t) ==
    \/ left[t] = "call" /\ pos[t] = "returned"
    \/ left[t] = "new" /\ pos[t] = "run"
    \/ left[t] = "irq" /\ mixed

FreshFrame(t) == [regs |-> [r \in Reg |-> t], pc |-> t]

\* Task t is new, and the frame is on its stack from which it starts.
Begun(t) == left[t] = "new" /\ pos[t] = "run" /\ stack[t][-120] = FreshFrame(t)

\* Task t finds home from the place at, with the registers and at the stack
\* pointer given.
Stands(t, at, regs, s) ==
    \/ at = t /\ s = 0 /\ Kept(regs, t)
    \/ at = "jump" /\ s = 0 /\ Frugal(t) /\ regs["gpr"] = t /\ regs["a3"] \in {t, "jump"}
    \/ at = "load" /\ s = -120 /\ Begun(t)
    \/ at = "loaded" /\ s = -120 /\ Begun(t) /\ regs["gpr"] = t
    \/ /\ at = "jump" /\ s = -120 /\ Begun(t)
       /\ regs["a3"] \in {"load", "loaded", "jump"}
       /\ regs["a3"] = "loaded" => regs["gpr"] = t

\* Task t has left the processor, or not had it yet.
Left(t) ==
    /\ pos[t] # "critical"
    /\ Stands(t, ctx[t].pc, ctx[t].regs, ctx[t].sp + 120)
    /\ left[t] = "call" => pos[t] = "returned"
    /\ left[t] = "new" => pos[t] = "run"
    /\ left[t] = "new" /\ ctx[t].pc = t => \A r \in Reg : ctx[t].regs[r] = t
    /\ ctx[t].st.c => left[t] = "new" /\ ctx[t].pc = t

Running ==
    /\ ~k1
    /\ Stands(cur, pc, cpu, sp)
    /\ pos[cur] = "critical" => ~status.c

Interrupted ==
    /\ k1
    /\ pos[cur] # "critical"
    /\ sp \in {-240, -120}
    /\ Stands(cur, Top.pc, Top.regs, sp + 120)

Loading ==
    /\ pos[cur] # "critical"
    /\ sp \in {-240, -120}
    /\ Stands(cur, Top.pc, Top.regs, sp + 120)
    /\ status.c => sp = -120 /\ Begun(cur)
    /\ pc # "load" => \/ cpu = Top.regs
                      \/ sp = -120 /\ Begun(cur) /\ cpu["gpr"] = cur

Inv ==
    /\ TypeOK
    /\ pc \in {cur, "jump"} => Running
    /\ pc = "handler" => Interrupted
    /\ pc \in {"load", "loaded", "jr"} => Loading
    /\ pc = "lost" => Frugal(cur)
    /\ \A t \in Task \ {cur} : Left(t)

LEMMA Apart ==
    /\ \A t \in Task : t \notin {"load", "loaded", "jr", "jump", "handler", "lost"}
    /\ Place \subseteq Address /\ Task \subseteq Address /\ Junk \notin Address
BY SwitchAssumption DEF Place, Address

LEMMA InitInv == Init => Inv
<1> SUFFICES ASSUME Init
             PROVE  Inv
  OBVIOUS
<1>1. TypeOK
  <2>1. cpu \in Regs /\ Nothing \in Frame
    BY SwitchAssumption DEF Init, Nothing, Frame, Regs, Address
  <2>2. stack \in [Task -> [{-240, -120} -> Frame]]
    BY <2>1 DEF Init
  <2>3. \A t \in Task : Fresh(t) \in [regs : Regs, pc : Address, sp : {-240, -120}, st : Bits]
    BY DEF Fresh, Regs, Address, Bits
  <2>4. ctx \in [Task -> [regs : Regs, pc : Address, sp : {-240, -120}, st : Bits]]
    BY <2>3 DEF Init
  <2>5. /\ cur \in Task /\ pc \in {cur, "jr", "handler", "lost"} \cup Place
        /\ sp \in {-240, -120, 0} /\ status \in Bits /\ k1 \in BOOLEAN
    BY SwitchAssumption DEF Init
  <2>6. /\ pos \in [Task -> {"run", "critical", "returned"}]
        /\ left \in [Task -> {"new", "call", "irq"}] /\ mixed \in BOOLEAN
    BY DEF Init
  <2>7. pc # "handler"
    BY SwitchAssumption DEF Init
  <2>8. QED
    BY <2>1, <2>2, <2>4, <2>5, <2>6, <2>7 DEF TypeOK
<1>2. Running
  BY SwitchAssumption DEF Init, Running, Stands, Kept, Reg, Scratch
<1>3. ASSUME NEW t \in Task
      PROVE  Left(t)
  <2>1. ctx[t] = Fresh(t) /\ pos[t] = "run" /\ left[t] = "new"
    BY DEF Init
  <2>2. /\ ctx[t].pc = t /\ ctx[t].sp = -120
        /\ \A r \in Reg : ctx[t].regs[r] = t
    BY <2>1 DEF Fresh
  <2>3. Stands(t, ctx[t].pc, ctx[t].regs, ctx[t].sp + 120)
    BY <2>2 DEF Stands, Kept, Reg, Scratch
  <2>4. QED
    BY <2>1, <2>2, <2>3 DEF Left
<1>4. pc = cur /\ cur \in Task
  BY SwitchAssumption DEF Init
<1>5. QED
  BY <1>1, <1>2, <1>3, <1>4, Apart DEF Inv

\* What task t has left behind is still there if nothing of it has changed.
LEMMA LeftSame ==
    ASSUME NEW t \in Task, Left(t),
           pos'[t] = pos[t], ctx'[t] = ctx[t], left'[t] = left[t],
           stack'[t] = stack[t], mixed => mixed'
    PROVE  Left(t)'
<1>1. Stands(t, ctx[t].pc, ctx[t].regs, ctx[t].sp + 120)
  BY DEF Left
<1>2. Stands(t, ctx[t].pc, ctx[t].regs, ctx[t].sp + 120)'
  BY <1>1 DEF Stands, Kept, Frugal, Begun
<1>3. QED
  BY <1>2 DEF Left

LEMMA Places ==
    ASSUME Inv
    PROVE  /\ cur \in Task /\ pc \in {cur, "jump", "load", "loaded", "jr", "handler", "lost"}
           /\ cpu \in Regs /\ status \in Bits
           /\ pc = cur => sp = 0 /\ Kept(cpu, cur) /\ Running
           /\ pc \in {"load", "loaded", "jr", "handler"} => Top \in Frame
           /\ pc = "handler" => ~status.c /\ Interrupted
<1>1. /\ cur \in Task /\ pc \in {cur, "jump", "load", "loaded", "jr", "handler", "lost"}
      /\ cpu \in Regs /\ status \in Bits
  BY DEF Inv, TypeOK, Place
<1>2. pc = cur => sp = 0 /\ Kept(cpu, cur) /\ Running
  BY <1>1, Apart DEF Inv, Running, Stands
<1>3. pc \in {"load", "loaded", "jr", "handler"} => sp \in {-240, -120}
  BY DEF Inv, Interrupted, Loading
<1>4. pc \in {"load", "loaded", "jr", "handler"} => Top \in Frame
  BY <1>1, <1>3 DEF Inv, TypeOK, Top
<1>5. QED
  BY <1>1, <1>2, <1>4 DEF Inv, TypeOK

LEMMA IntDisableInv == Inv /\ int_disable => Inv'
<1> SUFFICES ASSUME Inv, int_disable
             PROVE  Inv'
  OBVIOUS
<1>1. /\ cur \in Task /\ pc = cur /\ sp = 0 /\ Kept(cpu, cur) /\ ~k1
      /\ status \in Bits /\ pos[cur] = "run"
  BY Places DEF int_disable, Running
<1>2. status' \in Bits /\ ~status'.c
  BY <1>1 DEF int_disable, Disabled, is_inirq, Bits
<1>3. pos' \in [Task -> {"run", "critical", "returned"}]
  BY DEF int_disable, Inv, TypeOK
<1>4. TypeOK'
  BY <1>1, <1>2, <1>3, Apart DEF int_disable, Inv, TypeOK
<1>5. Kept(cpu, cur)'
  BY <1>1 DEF int_disable, Kept, Inv, TypeOK
<1>6. Running'
  BY <1>1, <1>2, <1>5 DEF int_disable, Running, Stands
<1>7. \A t \in Task \ {cur} : Left(t)'
  BY LeftSame DEF int_disable, Inv, TypeOK
<1>8. pc' = cur /\ cur' = cur
  BY <1>1 DEF int_disable
<1>9. QED
  BY <1>1, <1>4, <1>6, <1>7, <1>8, Apart DEF Inv

LEMMA IntEnableInv == Inv /\ int_enable => Inv'
<1> SUFFICES ASSUME Inv, int_enable
             PROVE  Inv'
  OBVIOUS
<1>1. /\ cur \in Task /\ pc = cur /\ sp = 0 /\ Kept(cpu, cur) /\ ~k1
      /\ status \in Bits /\ cpu \in Regs
  BY Places DEF int_enable, Running
<1>2. status' \in Bits
  BY <1>1 DEF int_enable, Enabled, is_inirq, Bits
<1>3. pos' \in [Task -> {"run", "critical", "returned"}] /\ pos'[cur] = "run"
  BY <1>1 DEF int_enable, Inv, TypeOK
<1>4. cpu' \in Regs
  BY <1>1 DEF int_enable, Regs, Address
<1>5. TypeOK'
  BY <1>1, <1>2, <1>3, <1>4, Apart DEF int_enable, Inv, TypeOK
<1>6. Kept(cpu, cur)'
  BY <1>1 DEF int_enable, Kept, Reg, Scratch
<1>7. Running'
  BY <1>1, <1>3, <1>6 DEF int_enable, Running, Stands
<1>8. \A t \in Task \ {cur} : Left(t)'
  BY LeftSame DEF int_enable, Inv, TypeOK
<1>9. pc' = cur /\ cur' = cur
  BY <1>1 DEF int_enable
<1>10. QED
  BY <1>1, <1>5, <1>7, <1>8, <1>9, Apart DEF Inv

LEMMA HandlerInv == Inv /\ Handler => Inv'
<1> SUFFICES ASSUME Inv, Handler
             PROVE  Inv'
  OBVIOUS
<1>1. pc = "handler" /\ Interrupted /\ cur \in Task
  BY Places DEF Handler
<1>2. status' = status
  BY <1>1 DEF Handler, Enabled, is_inirq, Interrupted
<1>3. cpu' \in Regs
  BY DEF Handler, Regs
<1>4. TypeOK'
  BY <1>2, <1>3 DEF Handler, Inv, TypeOK
<1>5. Interrupted'
  BY <1>1 DEF Handler, Interrupted, Stands, Kept, Frugal, Begun, Top
<1>6. \A t \in Task \ {cur} : Left(t)'
  BY LeftSame DEF Handler, Inv
<1>7. pc' = "handler" /\ cur' = cur
  BY <1>1 DEF Handler
<1>8. QED
  BY <1>1, <1>4, <1>5, <1>6, <1>7, Apart DEF Inv

\* The way home from a place takes a frame on the stack with it only below the
\* two that the handler may pop or push meanwhile.
LEMMA StandsStill ==
    ASSUME NEW t, NEW at, NEW regs, NEW s,
           Stands(t, at, regs, s),
           pos'[t] = pos[t], left'[t] = left[t], mixed => mixed',
           s = -120 => stack'[t][-120] = stack[t][-120]
    PROVE  Stands(t, at, regs, s)'
BY DEF Stands, Kept, Frugal, Begun

LEMMA TaskSwitchInv ==
    ASSUME Inv, NEW u \in Task \ {cur}, task_switch(u)
    PROVE  Inv'
<1>1. /\ cur \in Task /\ pc = cur /\ sp = 0 /\ Kept(cpu, cur) /\ Running /\ ~k1
      /\ status \in Bits /\ cpu \in Regs /\ pos[cur] = "critical" /\ ~status.c
  BY Places DEF task_switch, Running
<1>2. ctx[u] \in [regs : Regs, pc : Address, sp : {-240, -120}, st : Bits] /\ Left(u)
  BY DEF Inv, TypeOK
<1>3. /\ pos' \in [Task -> {"run", "critical", "returned"}] /\ pos'[cur] = "returned"
      /\ left' \in [Task -> {"new", "call", "irq"}] /\ left'[cur] = "call"
      /\ pos'[u] = pos[u] /\ left'[u] = left[u] /\ stack' = stack
      /\ cur' = u /\ pc' = "jump" /\ k1' = k1
  BY <1>1 DEF task_switch, Inv, TypeOK
<1>4. mixed' \in BOOLEAN /\ (mixed => mixed') /\ (left[u] = "irq" => mixed')
  BY DEF task_switch, Inv, TypeOK
<1>5. status' \in Bits
  BY <1>2 DEF task_switch, ByCall, Bits
<1>6. cpu' \in Regs /\ cpu'["a3"] = ctx[u].pc /\ cpu'["gpr"] = ctx[u].regs["gpr"]
  BY <1>2 DEF task_switch, Regs, Reg, Scratch, Address
<1>7. ctx'[cur] = [regs |-> cpu, pc |-> cur, sp |-> sp - 120, st |-> status]
  BY <1>1 DEF task_switch, SavedByCall, Inv, TypeOK
<1>8. sp - 120 = -120 /\ cur \in Address
  BY <1>1, Apart
<1>9. SavedByCall \in [regs : Regs, pc : Address, sp : {-240, -120}, st : Bits]
  BY <1>1, <1>8 DEF SavedByCall
<1>10. ctx' \in [Task -> [regs : Regs, pc : Address, sp : {-240, -120}, st : Bits]]
  BY <1>9 DEF task_switch, Inv, TypeOK
<1>11. sp' = ctx[u].sp + 120 /\ sp' \in {-240, -120, 0}
  BY <1>2 DEF task_switch
<1>12. TypeOK'
  BY <1>1, <1>3, <1>4, <1>5, <1>6, <1>10, <1>11 DEF Inv, TypeOK, Place
<1>13. Stands(cur, pc, cpu, sp)'
  <2>1. Stands(u, ctx[u].pc, ctx[u].regs, sp')
    BY <1>2, <1>11 DEF Left
  <2>2. u # "jump" /\ u \in Task
    BY Apart
  <2>3. Begun(u) => Begun(u)'
    BY <1>3 DEF Begun
  <2>4. Frugal(u) => Frugal(u)'
    BY <1>3, <1>4 DEF Frugal
  <2>5. ctx[u].pc = u => Frugal(u)'
    <3>1. left[u] \in {"new", "call", "irq"}
      BY DEF Inv, TypeOK
    <3>2. left[u] = "call" => pos[u] = "returned"
      BY <1>2 DEF Left
    <3>3. left[u] = "new" => pos[u] = "run"
      BY <1>2 DEF Left
    <3>4. QED
      BY <1>3, <1>4, <3>1, <3>2, <3>3 DEF Frugal
  <2>6. \/ sp' = 0 /\ Frugal(u)' /\ cpu'["gpr"] = u /\ cpu'["a3"] \in {u, "jump"}
        \/ /\ sp' = -120 /\ Begun(u)'
           /\ cpu'["a3"] \in {"load", "loaded", "jump"}
           /\ cpu'["a3"] = "loaded" => cpu'["gpr"] = u
    BY <1>6, <2>1, <2>2, <2>3, <2>4, <2>5 DEF Stands, Kept
  <2>7. QED
    BY <1>3, <2>6 DEF Stands
<1>14. Running'
  BY <1>1, <1>2, <1>3, <1>13 DEF Running, Left
<1>15. ASSUME NEW t \in Task, t = cur
       PROVE  Left(t)'
  <2>1. /\ ctx'[t].pc = t /\ ctx'[t].sp + 120 = 0 /\ ~ctx'[t].st.c
        /\ ctx'[t].regs = cpu
    BY <1>1, <1>7, <1>8, <1>15
  <2>2. cpu["gpr"] = t /\ pos'[t] = "returned" /\ left'[t] = "call"
    BY <1>1, <1>3, <1>15 DEF Kept
  <2>3. QED
    BY <2>1, <2>2 DEF Left, Stands, Kept
<1>16. ASSUME NEW t \in Task \ {cur, u}
       PROVE  Left(t)'
  <2>1. pos'[t] = pos[t] /\ ctx'[t] = ctx[t] /\ left'[t] = left[t] /\ stack'[t] = stack[t]
    BY DEF task_switch, Inv, TypeOK
  <2>2. Left(t) /\ t \in Task
    BY DEF Inv
  <2>3. QED
    BY <1>4, <2>1, <2>2, LeftSame
<1>17. ASSUME NEW t \in Task \ {u}
       PROVE  Left(t)'
  BY <1>15, <1>16
<1>18. QED
  BY <1>3, <1>12, <1>14, <1>17, Apart DEF Inv

LEMMA JumpInv == Inv /\ jump => Inv'
<1> SUFFICES ASSUME Inv, jump
             PROVE  Inv'
  OBVIOUS
<1>1. /\ cur \in Task /\ pc = "jump" /\ Running /\ cpu \in Regs /\ ~k1
      /\ Stands(cur, "jump", cpu, sp)
  BY Places DEF jump, Inv, Running
<1>2. /\ pos' = pos /\ left' = left /\ stack' = stack /\ ctx' = ctx /\ cur' = cur
      /\ sp' = sp /\ status' = status /\ mixed' = mixed /\ k1' = k1
  BY DEF jump
<1>3. cur \notin {"jump", "load", "loaded", "jr", "handler", "lost"}
  BY <1>1, Apart
<1>4. cpu["a3"] \in {cur, "jump", "load", "loaded"}
  BY <1>1, <1>3 DEF Stands
<1>5. pc' = (IF cpu["a3"] = "jump" THEN "lost" ELSE cpu["a3"])
  BY DEF jump
<1>6. pc' \in {cur, "lost", "load", "loaded"}
  BY <1>4, <1>5
<1>7. /\ cpu' \in Regs /\ cpu'["gpr"] = cpu["gpr"]
      /\ cpu["a3"] = cur /\ left[cur] = "new" => \A r \in Scratch : cpu'[r] = cur
  BY <1>1 DEF jump, Started, Regs, Reg, Scratch, Address
<1>8. TypeOK'
  BY <1>2, <1>3, <1>6, <1>7 DEF Inv, TypeOK, Place
<1>9. ASSUME pc' = cur
      PROVE  Running'
  <2>1. cpu["a3"] = cur
    BY <1>3, <1>5, <1>9
  <2>2. sp = 0 /\ Frugal(cur) /\ cpu["gpr"] = cur
    BY <1>1, <1>3, <2>1 DEF Stands
  <2>3. Kept(cpu, cur)'
    BY <1>2, <1>7, <2>1, <2>2 DEF Kept, Frugal
  <2>4. Stands(cur, pc, cpu, sp)'
    BY <1>2, <1>9, <2>2, <2>3 DEF Stands
  <2>5. QED
    BY <1>1, <1>2, <2>4 DEF Running
<1>10. ASSUME pc' \in {"load", "loaded"}
       PROVE  Loading'
  <2>1. sp = -120 /\ Begun(cur) /\ (pc' = "loaded" => cpu["gpr"] = cur)
    BY <1>1, <1>3, <1>5, <1>10 DEF Stands
  <2>2. Top' = FreshFrame(cur) /\ Begun(cur)' /\ pos'[cur] = "run"
    BY <1>2, <2>1 DEF Begun, Top, FreshFrame
  <2>3. Top'.pc = cur /\ Kept(Top.regs, cur)'
    BY <1>2, <2>2 DEF FreshFrame, Kept, Reg, Scratch
  <2>4. Stands(cur, Top.pc, Top.regs, sp + 120)'
    BY <1>2, <2>1, <2>3 DEF Stands
  <2>5. QED
    BY <1>2, <1>7, <1>10, <2>1, <2>2, <2>4 DEF Loading
<1>11. \A t \in Task \ {cur} : Left(t)'
  BY <1>2, LeftSame DEF Inv
<1>12. Frugal(cur) \/ (pos[cur] = "run" /\ left[cur] = "new")
  BY <1>1, <1>3 DEF Stands, Begun
<1>13. Frugal(cur)'
  BY <1>2, <1>12 DEF Frugal
<1>14. QED
  BY <1>2, <1>3, <1>6, <1>8, <1>9, <1>10, <1>11, <1>13 DEF Inv

LEMMA LowlevelpanicInv == Inv /\ lowlevelpanic => Inv'
<1> SUFFICES ASSUME Inv, lowlevelpanic
             PROVE  Inv'
  OBVIOUS
<1>1. /\ cur \in Task /\ pc \in {cur, "jump", "load", "loaded", "jr"} /\ cpu \in Regs
      /\ status \in Bits /\ status.c /\ sp \in {-240, -120, 0}
  BY Places DEF lowlevelpanic, Place, Inv, TypeOK
<1>2. cur \notin {"jump", "load", "loaded", "jr", "handler", "lost"}
  BY <1>1, Apart
<1>3. /\ pos' = pos /\ left' = left /\ ctx' = ctx /\ cur' = cur /\ cpu' = cpu
      /\ sp' = sp - 120 /\ mixed' = mixed /\ k1'
      /\ \A t \in Task \ {cur} : stack'[t] = stack[t]
  BY DEF lowlevelpanic, Inv, TypeOK
<1>4. status' \in Bits /\ ~status'.c
  BY <1>1 DEF lowlevelpanic, Exception, Bits
<1>5. \A t \in Task \ {cur} : Left(t)'
  BY <1>3, LeftSame DEF Inv
<1>6. /\ pc \in {cur, "jump"} => Stands(cur, pc, cpu, sp) /\ pos[cur] # "critical"
      /\ pc \in {"load", "loaded", "jr"} => Loading /\ sp = -120 /\ Begun(cur)
  BY <1>1 DEF Inv, Running, Loading
<1>7. sp \in {-120, 0} /\ pos[cur] # "critical"
  BY <1>1, <1>6 DEF Stands, Begun
<1>8. sp' \in {-240, -120} /\ sp' + 120 = sp /\ (sp = -120 => sp' # -120)
  BY <1>3, <1>7
<1>9. CASE pc = "jr"
  <2>1. pc' = "lost" /\ stack' = stack
    BY <1>9 DEF lowlevelpanic
  <2>2. TypeOK'
    BY <1>1, <1>3, <1>4, <1>8, <2>1 DEF Inv, TypeOK
  <2>3. Frugal(cur)'
    BY <1>3, <1>6, <1>9 DEF Begun, Frugal
  <2>4. QED
    BY <1>2, <1>3, <1>5, <2>1, <2>2, <2>3 DEF Inv
<1>10. CASE pc # "jr"
  <2> DEFINE f == [regs |-> cpu, pc |-> pc]
  <2>1. pc' = "handler" /\ stack' = [stack EXCEPT ![cur][sp - 120] = f]
    BY <1>10 DEF lowlevelpanic
  <2>2. f \in Frame
    BY <1>1, <1>10 DEF Frame, Address, Place
  <2>3. stack \in [Task -> [{-240, -120} -> Frame]]
    BY DEF Inv, TypeOK
  <2> HIDE DEF f
  <2>4. stack'[cur][sp'] = f /\ (sp = -120 => stack'[cur][-120] = stack[cur][-120])
    BY <1>1, <1>3, <1>8, <2>1, <2>3
  <2>5. stack' \in [Task -> [{-240, -120} -> Frame]]
    BY <1>3, <1>8, <2>1, <2>2, <2>3
  <2>6. TypeOK'
    BY <1>1, <1>3, <1>4, <1>8, <2>1, <2>5 DEF Inv, TypeOK
  <2>7. Stands(cur, pc, cpu, sp)
    <3>1. CASE pc \in {cur, "jump"}
      BY <1>6, <3>1
    <3>2. CASE pc \in {"load", "loaded"}
      <4>1. Top.regs["gpr"] = cur
        BY <1>1, <1>6, <3>2 DEF Begun, FreshFrame, Top, Reg
      <4>2. pc = "loaded" => cpu["gpr"] = cur
        BY <1>6, <3>2, <4>1 DEF Loading
      <4>3. QED
        BY <1>6, <3>2, <4>2 DEF Stands
    <3>3. QED
      BY <1>1, <1>10, <3>1, <3>2
  <2>8. Top'.regs = cpu /\ Top'.pc = pc
    BY <1>3, <2>4 DEF Top, f
  <2>9. Stands(cur, Top.pc, Top.regs, sp + 120)'
    BY <1>3, <1>8, <2>4, <2>7, <2>8 DEF Stands, Kept, Frugal, Begun
  <2>10. Interrupted'
    BY <1>3, <1>7, <1>8, <2>9 DEF Interrupted
  <2>11. QED
    BY <1>2, <1>3, <1>5, <2>1, <2>6, <2>10 DEF Inv
<1>11. QED
  BY <1>9, <1>10

\* The frame on top is popped, and its registers are those of the processor,
\* unless a new task goes to its code and fills them.
LEMMA PoppedInv ==
    ASSUME Inv, cur \in Task, sp \in {-240, -120}, pos[cur] # "critical",
           Stands(cur, Top.pc, Top.regs, sp + 120), Top \in Frame,
           stack' = Popped, sp' = sp + 120, pc' = Top.pc, ~k1',
           cpu' \in Regs, k1' \in BOOLEAN, status' \in Bits,
           \/ cpu' = Started(Top.regs, Top.pc)
           \/ cpu' = Top.regs
           \/ Top.pc = cur /\ Kept(cpu', cur),
           pos' = pos, left' = left, ctx' = ctx, cur' = cur, mixed' = mixed
    PROVE  Inv'
<1>1. cur \notin {"jump", "load", "loaded", "jr", "handler", "lost"}
  BY Apart
<1>2. Nothing \in Frame /\ stack \in [Task -> [{-240, -120} -> Frame]]
  BY DEF Nothing, Frame, Regs, Inv, TypeOK
<1>3. stack' \in [Task -> [{-240, -120} -> Frame]]
  BY <1>2 DEF Popped
<1>4. /\ \A t \in Task \ {cur} : stack'[t] = stack[t]
      /\ sp' = -120 => stack'[cur][-120] = stack[cur][-120]
  BY <1>2 DEF Popped
<1>5. \A t \in Task \ {cur} : Left(t)'
  BY <1>4, LeftSame DEF Inv
<1>6. /\ pc' \in {cur, "jump", "load", "loaded"} /\ sp' \in {-120, 0}
      /\ Stands(cur, pc', Top.regs, sp')
  BY DEF Stands
<1>7. pc' = cur => Kept(cpu', cur)
  <2>1. Kept(Top.regs, cur) => Kept(Started(Top.regs, Top.pc), cur)
    BY DEF Started, Kept, Reg, Scratch, Frame, Regs
  <2>2. QED
    BY <1>1, <1>6, <2>1 DEF Stands
<1>8. pc' # cur => cpu' = Top.regs
  <2>1. pc' # cur => Started(Top.regs, Top.pc) = Top.regs
    BY DEF Started, Frame, Regs
  <2>2. QED
    BY <2>1
<1>9. Stands(cur, pc', cpu', sp')
  BY <1>1, <1>6, <1>7, <1>8 DEF Stands
<1>10. Stands(cur, pc, cpu, sp)'
  BY <1>4, <1>9 DEF Stands, Kept, Frugal, Begun
<1>11. TypeOK'
  BY <1>1, <1>3, <1>6 DEF Inv, TypeOK, Place
<1>12. pc' \in {cur, "jump"} => Running'
  BY <1>10 DEF Running
<1>13. ASSUME pc' \in {"load", "loaded"}
       PROVE  Loading'
  <2>1. sp' = -120 /\ Begun(cur)' /\ (pc' # "load" => cpu'["gpr"] = cur)
    BY <1>1, <1>10, <1>13 DEF Stands
  <2>2. Top' = FreshFrame(cur) /\ pos[cur] = "run"
    BY <2>1 DEF Begun, Top, FreshFrame
  <2>3. Top'.pc = cur /\ Kept(Top.regs, cur)'
    BY <2>2 DEF FreshFrame, Kept, Reg, Scratch
  <2>4. Stands(cur, Top.pc, Top.regs, sp + 120)'
    BY <2>1, <2>3 DEF Stands
  <2>5. QED
    BY <2>1, <2>4 DEF Loading
<1>14. QED
  BY <1>1, <1>5, <1>6, <1>11, <1>12, <1>13 DEF Inv

LEMMA RetfromirqInv == Inv /\ retfromirq => Inv'
<1> SUFFICES ASSUME Inv, retfromirq
             PROVE  Inv'
  OBVIOUS
<1>1. /\ cur \in Task /\ pc = "handler" /\ Interrupted /\ Top \in Frame
      /\ status \in Bits
  BY Places DEF retfromirq
<1>2. status' \in Bits
  BY <1>1 DEF retfromirq, rfe, Bits
<1>3. cpu' = Top.regs /\ cpu' \in Regs
  BY <1>1 DEF retfromirq, Frame
<1>4. QED
  BY <1>1, <1>2, <1>3, PoppedInv DEF retfromirq, Interrupted

LEMMA LoadInv == Inv /\ (load \/ load_k0) => Inv'
<1> SUFFICES ASSUME Inv, load \/ load_k0
             PROVE  Inv'
  OBVIOUS
<1>1. cur \in Task /\ pc \in {"load", "loaded"} /\ Loading /\ Top \in Frame /\ cpu \in Regs
  BY Places DEF load, load_k0, Inv
<1>2. /\ pos' = pos /\ left' = left /\ ctx' = ctx /\ cur' = cur /\ status' = status
      /\ sp' = sp /\ mixed' = mixed /\ k1' = k1 /\ stack' = stack
      /\ pc' \in {"loaded", "jr"}
      /\ cpu' = Top.regs \/ (pc = "loaded" /\ cpu' = cpu)
  BY DEF load, load_k0
<1>3. cpu' \in Regs
  BY <1>1, <1>2 DEF Frame
<1>4. TypeOK'
  BY <1>2, <1>3 DEF Inv, TypeOK, Place
<1>5. Top' = Top
  BY <1>2 DEF Top
<1>6. Begun(cur) => Begun(cur)'
  BY <1>2 DEF Begun
<1>7. Stands(cur, Top.pc, Top.regs, sp + 120)'
  BY <1>1, <1>2, <1>5 DEF Loading, Stands, Kept, Frugal, Begun
<1>8. Loading'
  BY <1>1, <1>2, <1>5, <1>6, <1>7 DEF Loading
<1>9. \A t \in Task \ {cur} : Left(t)'
  BY <1>2, LeftSame DEF Inv
<1>10. cur \notin {"loaded", "jr"}
  BY <1>1, Apart
<1>11. QED
  BY <1>2, <1>4, <1>8, <1>9, <1>10 DEF Inv

LEMMA JrInv == Inv /\ jr => Inv'
<1> SUFFICES ASSUME Inv, jr
             PROVE  Inv'
  OBVIOUS
<1>1. /\ cur \in Task /\ pc = "jr" /\ Loading /\ Top \in Frame
      /\ status \in Bits /\ cpu \in Regs
  BY Places DEF jr, Inv
<1>2. status' \in Bits
  BY <1>1 DEF jr, rfe, Bits
<1>3. cpu' \in Regs
  BY <1>1 DEF jr, Started, Regs, Address
<1>4. \/ cpu' = Started(Top.regs, Top.pc)
      \/ Top.pc = cur /\ Kept(cpu', cur)
  <2>1. CASE cpu = Top.regs
    BY <2>1 DEF jr
  <2>2. CASE sp = -120 /\ Begun(cur) /\ cpu["gpr"] = cur
    <3>1. Top.pc = cur /\ left[cur] = "new"
      BY <2>2 DEF Begun, Top, FreshFrame
    <3>2. cpu'["gpr"] = cur /\ \A r \in Scratch : cpu'[r] = cur
      BY <2>2, <3>1 DEF jr, Started, Reg, Scratch
    <3>3. QED
      BY <3>1, <3>2 DEF Kept
  <2>3. QED
    BY <1>1, <2>1, <2>2 DEF Loading
<1>5. /\ pos' = pos /\ left' = left /\ ctx' = ctx /\ cur' = cur /\ mixed' = mixed
      /\ sp' = sp + 120 /\ stack' = Popped /\ pc' = Top.pc /\ ~k1' /\ k1' \in BOOLEAN
  BY DEF jr
<1>6. pos[cur] # "critical" /\ sp \in {-240, -120} /\ Stands(cur, Top.pc, Top.regs, sp + 120)
  BY <1>1 DEF Loading
<1>7. QED
  BY <1>1, <1>2, <1>3, <1>4, <1>5, <1>6, PoppedInv

LEMMA TaskswichirqInv ==
    ASSUME Inv, NEW u \in Task \ {cur}, taskswichirq(u)
    PROVE  Inv'
<1>1. /\ cur \in Task /\ pc = "handler" /\ Interrupted /\ Top \in Frame
      /\ status \in Bits /\ ~status.c
  BY Places DEF taskswichirq
<1>2. ctx[u] \in [regs : Regs, pc : Address, sp : {-240, -120}, st : Bits] /\ Left(u)
  BY DEF Inv, TypeOK
<1>3. /\ pos' = pos /\ mixed' = mixed /\ cur' = u /\ pc' = "load"
      /\ k1' = k1 /\ sp' = ctx[u].sp /\ status' = ctx[u].st
      /\ left' \in [Task -> {"new", "call", "irq"}]
      /\ left'[cur] = IF Top.pc = cur THEN "irq" ELSE left[cur]
      /\ \A t \in Task \ {cur} : left'[t] = left[t]
  BY <1>1 DEF taskswichirq, Inv, TypeOK
<1>4. cpu' \in Regs
  BY DEF taskswichirq, Regs
<1> DEFINE f == [regs |-> ctx[u].regs, pc |-> ctx[u].pc]
           C == [regs : Regs, pc : Address, sp : {-240, -120}, st : Bits]
<1>5. f \in Frame /\ Nothing \in Frame
  BY <1>2 DEF Nothing, Frame, Regs
<1>6. stack \in [Task -> [{-240, -120} -> Frame]] /\ sp \in {-240, -120}
  BY <1>1 DEF Inv, TypeOK, Interrupted
<1>7. SavedByIrq \in C
  <2>1. Top.pc \in Address
    BY <1>1, Apart DEF Interrupted, Stands, Place
  <2>2. QED
    BY <1>1, <1>6, <2>1 DEF SavedByIrq, Frame
<1>8. /\ ctx' \in [Task -> C] /\ ctx'[cur] = SavedByIrq
      /\ \A t \in Task \ {cur} : ctx'[t] = ctx[t]
  BY <1>1, <1>7 DEF taskswichirq, Inv, TypeOK
<1>9. Popped \in [Task -> [{-240, -120} -> Frame]]
  BY <1>5, <1>6 DEF Popped
<1>10. \A t \in Task \ {cur} : Popped[t] = stack[t]
  BY <1>6 DEF Popped
<1>11. sp = -240 => Popped[cur][-120] = stack[cur][-120]
  BY <1>1, <1>6 DEF Popped
<1>12. stack' = [Popped EXCEPT ![u][ctx[u].sp] = f]
  BY DEF taskswichirq
<1> HIDE DEF f, C
<1>13. /\ stack' \in [Task -> [{-240, -120} -> Frame]]
       /\ stack'[u][ctx[u].sp] = f
       /\ ctx[u].sp = -240 => stack'[u][-120] = stack[u][-120]
       /\ \A t \in Task \ {cur, u} : stack'[t] = stack[t]
       /\ sp = -240 => stack'[cur][-120] = stack[cur][-120]
  <2>1. stack' \in [Task -> [{-240, -120} -> Frame]]
    BY <1>2, <1>5, <1>9, <1>12
  <2>2. /\ stack'[u] = [Popped[u] EXCEPT ![ctx[u].sp] = f]
        /\ \A t \in Task \ {u} : stack'[t] = Popped[t]
    BY <1>9, <1>12
  <2>3. Popped[u] \in [{-240, -120} -> Frame]
    BY <1>9
  <2>4. ctx[u].sp \in {-240, -120}
    BY <1>2
  <2>5. /\ stack'[u][ctx[u].sp] = f
        /\ ctx[u].sp = -240 => stack'[u][-120] = Popped[u][-120]
    BY <2>2, <2>3, <2>4
  <2>6. QED
    BY <1>1, <1>10, <1>11, <2>1, <2>2, <2>5
<1>14. TypeOK'
  BY <1>2, <1>3, <1>4, <1>8, <1>13 DEF Inv, TypeOK, Place, C
<1>15. Top'.regs = ctx[u].regs /\ Top'.pc = ctx[u].pc
  BY <1>3, <1>13 DEF Top, f
<1>16. Loading'
  <2>1. Stands(u, ctx[u].pc, ctx[u].regs, ctx[u].sp + 120)
    BY <1>2 DEF Left
  <2>2. ctx[u].sp + 120 = -120 => stack'[u][-120] = stack[u][-120]
    BY <1>2, <1>13
  <2>3. Stands(cur, Top.pc, Top.regs, sp + 120)'
    BY <1>3, <1>15, <2>1, <2>2 DEF Stands, Kept, Frugal, Begun
  <2>4. ASSUME ctx[u].st.c
        PROVE  sp' = -120 /\ Begun(cur)'
    <3>1. left[u] = "new" /\ ctx[u].pc = u /\ pos[u] = "run"
      BY <1>2, <2>4 DEF Left
    <3>2. ctx[u].sp = -120
      BY <1>2, <2>1, <3>1, Apart DEF Stands
    <3>3. ctx[u].regs = [r \in Reg |-> u]
      BY <1>2, <3>1 DEF Left, Regs
    <3>4. stack'[u][-120] = FreshFrame(u)
      BY <1>13, <3>1, <3>2, <3>3 DEF f, FreshFrame
    <3>5. QED
      BY <1>3, <3>1, <3>2, <3>4 DEF Begun
  <2>5. pos[u] # "critical"
    BY <1>2 DEF Left
  <2>6. QED
    BY <1>2, <1>3, <2>3, <2>4, <2>5 DEF Loading
<1>17. ASSUME NEW t \in Task, t = cur
       PROVE  Left(t)'
  <2>1. /\ ctx'[t].pc = Top.pc /\ ctx'[t].regs = Top.regs /\ ctx'[t].sp = sp
        /\ ~ctx'[t].st.c
    BY <1>1, <1>8, <1>17 DEF SavedByIrq
  <2>2. Stands(t, Top.pc, Top.regs, sp + 120) /\ pos[t] # "critical"
    BY <1>1, <1>17 DEF Interrupted
  <2>3. sp + 120 = -120 => sp = -240
    BY <1>6
  <2>4. Top.pc # t => left'[t] = left[t]
    BY <1>3, <1>17
  <2>5. t # "jump" /\ t # "load" /\ t # "loaded"
    BY Apart
  <2>6. Begun(t) /\ sp = -240 /\ Top.pc # t => Begun(t)'
    BY <1>3, <1>13, <1>17, <2>4 DEF Begun
  <2>7. Frugal(t) /\ Top.pc # t => Frugal(t)'
    BY <1>3, <2>4 DEF Frugal
  <2>8. Stands(t, ctx[t].pc, ctx[t].regs, ctx[t].sp + 120)'
    BY <1>3, <2>1, <2>2, <2>3, <2>5, <2>6, <2>7 DEF Stands, Kept
  <2>9. left'[t] = "call" => pos[t] = "returned"
    BY <1>3, <1>17, <2>2, <2>4, <2>5 DEF Stands, Frugal, Begun
  <2>10. left'[t] = "new" => pos[t] = "run" /\ Top.pc # t
    BY <1>3, <1>17, <2>2, <2>4, <2>5 DEF Stands, Frugal, Begun
  <2>11. QED
    BY <1>3, <2>1, <2>2, <2>8, <2>9, <2>10 DEF Left
<1>18. ASSUME NEW t \in Task \ {cur, u}
       PROVE  Left(t)'
  BY <1>3, <1>8, <1>13, LeftSame DEF Inv
<1>19. ASSUME NEW t \in Task \ {u}
       PROVE  Left(t)'
  BY <1>17, <1>18
<1>20. QED
  BY <1>3, <1>14, <1>16, <1>19, Apart DEF Inv

LEMMA NextInv == Inv /\ [Next]_vars => Inv'
<1> SUFFICES ASSUME Inv, [Next]_vars
             PROVE  Inv'
  OBVIOUS
<1>1. CASE UNCHANGED vars
  <2>1. \A t \in Task \ {cur} : Left(t)'
    BY <1>1, LeftSame DEF vars, Inv
  <2>2. TypeOK'
    BY <1>1 DEF vars, Inv, TypeOK
  <2>3. /\ Running => Running'
        /\ Interrupted => Interrupted'
        /\ Loading => Loading'
        /\ Frugal(cur) => Frugal(cur)'
    BY <1>1 DEF vars, Running, Interrupted, Loading, Stands, Kept, Frugal, Begun, Top
  <2>4. QED
    BY <1>1, <2>1, <2>2, <2>3 DEF vars, Inv
<1>2. CASE Astray
  BY <1>1, <1>2 DEF Astray
<1>3. QED
  BY <1>1, <1>2, IntDisableInv, IntEnableInv, TaskSwitchInv, JumpInv, LowlevelpanicInv,
     HandlerInv, RetfromirqInv, TaskswichirqInv, LoadInv, JrInv DEF Next

LEMMA Invariance == Spec => []Inv
<1>1. QED
  BY InitInv, NextInv, PTL DEF Spec

(* The types, and that the handler proper is masked: between the exception  *)
(* and the rfe of retfromirq, or the write of Status in taskswichirq.  From *)
(* there on, and behind the write of Status in task_switch, nothing is said *)
(* of the enable bits.                                                      *)
THEOREM MipsTypeCorrect == Spec => []TypeOK
<1>1. Inv => TypeOK
  BY DEF Inv
<1>2. QED
  BY <1>1, Invariance, PTL

(* A task that is back in its own code finds its stack and the registers    *)
(* that outlive a call, whichever of task_switch and taskswichirq it left   *)
(* and comes back by, and although exceptions may come, and other tasks     *)
(* run, while either of them loads its registers; and all registers as long *)
(* as task_switch resumes nobody that was interrupted.  An exception on the *)
(* way costs none but a new task its way back (behind the load of k0), and  *)
(* those that task_switch has resumed (in front of its jump).               *)
THEOREM MipsContextKept == Spec => []ContextKept
<1>1. Inv => (pc = cur => /\ sp = 0 /\ cpu["gpr"] = cur
                          /\ (pos[cur] # "returned" /\ ~mixed)
                                 => \A r \in Scratch : cpu[r] = cur)
  BY Places DEF Kept
<1>2. Inv => (pc = "lost" => left[cur] = "new" \/ pos[cur] = "returned" \/ mixed)
  BY DEF Inv, Frugal
<1>3. QED
  BY <1>1, <1>2, Invariance, PTL DEF ContextKept

(* On MIPS a critical section is not interrupted up to the switch in it.    *)
THEOREM MipsImplementsProcessor == Spec => ImplementsProcessor
<1>1. Init => P!Init
  BY DEF Init, P!Init
<1>2. ASSUME Inv, [Next]_vars
      PROVE  [P!Next]_(P!vars)
  <2>1. CASE int_disable
    BY <2>1 DEF int_disable, P!Next, P!Enter
  <2>2. CASE int_enable
    BY <2>2 DEF int_enable, P!Next, P!Leave
  <2>3. ASSUME NEW u \in Task \ {cur}, task_switch(u)
        PROVE  P!Next
    BY <2>3 DEF task_switch, P!Next, P!Give
  <2>4. ASSUME NEW u \in Task \ {cur}, taskswichirq(u)
        PROVE  P!Next
    BY <1>2, <2>4 DEF taskswichirq, Inv, TypeOK, Interrupted, P!Next, P!Lose
  <2>5. CASE jump \/ lowlevelpanic \/ Handler \/ retfromirq \/ load \/ load_k0 \/ jr
             \/ Astray \/ UNCHANGED vars
    BY <2>5 DEF jump, lowlevelpanic, Handler, retfromirq, load, load_k0, jr, Astray,
       vars, P!vars
  <2>6. QED
    BY <1>2, <2>1, <2>2, <2>3, <2>4, <2>5 DEF Next
<1>3. QED
  BY <1>1, <1>2, Invariance, PTL DEF Spec, ImplementsProcessor, P!Spec
=============================================================================
