---------------------------- MODULE SchedProofs ----------------------------
(***************************************************************************)
(* Proofs about the scheduler, for any number of processes, any slice and  *)
(* any mix of kernel tasks and exiting programs.  IInv of SchedInv is      *)
(* preserved by every step (one lemma per action); the safety properties   *)
(* of Sched follow from it.  So does, with one more fact about schedule(), *)
(* that the scheduler implements RoundRobin.                               *)
(***************************************************************************)
EXTENDS SchedInv, SchedRefinement, SequenceTheorems, TLAPS

(***************************************************************************)
(* What popping and pushing do to a queue without repetitions.             *)
(***************************************************************************)
\* Popping the head of READY_QUEUE removes that process and no other.
LEMMA TailOccurs ==
  ASSUME NEW S, NEW s \in Seq(S), s # <<>>, NoRepeats(s)
  PROVE  /\ NoRepeats(Tail(s))
         /\ \A x : Occurs(x, Tail(s)) <=> Occurs(x, s) /\ x # Head(s)
         /\ Occurs(Head(s), s)
<1>1. /\ Len(Tail(s)) = Len(s) - 1 /\ Len(s) \in Nat /\ Len(s) > 0
      /\ \A i \in 1..(Len(s) - 1) : Tail(s)[i] = s[i + 1]
      /\ Head(s) = s[1]
  BY HeadTailProperties, EmptySeq, LenProperties
<1>2. NoRepeats(Tail(s))
  BY <1>1 DEF NoRepeats
<1>3. ASSUME NEW x PROVE Occurs(x, Tail(s)) <=> Occurs(x, s) /\ x # Head(s)
  <2>1. ASSUME Occurs(x, Tail(s)) PROVE Occurs(x, s) /\ x # Head(s)
    <3>1. PICK i \in 1..(Len(s) - 1) : s[i + 1] = x
      BY <2>1, <1>1 DEF Occurs
    <3>2. i + 1 \in 1..Len(s) /\ 1 \in 1..Len(s) /\ i + 1 # 1
      BY <1>1
    <3>3. QED BY <3>1, <3>2, <1>1 DEF Occurs, NoRepeats
  <2>2. ASSUME Occurs(x, s), x # Head(s) PROVE Occurs(x, Tail(s))
    <3>1. PICK i \in 1..Len(s) : s[i] = x
      BY <2>2 DEF Occurs
    <3>2. i - 1 \in 1..(Len(s) - 1) /\ (i - 1) + 1 = i
      BY <3>1, <2>2, <1>1
    <3>3. Tail(s)[i - 1] = x
      BY <3>1, <3>2, <1>1
    <3>4. QED BY <3>2, <3>3, <1>1 DEF Occurs
  <2>3. QED BY <2>1, <2>2
<1>4. QED BY <1>1, <1>2, <1>3 DEF Occurs

\* Pushing a process that is not queued adds it and repeats none.
LEMMA AppendOccurs ==
  ASSUME NEW S, NEW s \in Seq(S), NEW e \in S
  PROVE  /\ NoRepeats(s) /\ ~Occurs(e, s) => NoRepeats(Append(s, e))
         /\ \A x : Occurs(x, Append(s, e)) <=> Occurs(x, s) \/ x = e
<1>1. /\ Len(Append(s, e)) = Len(s) + 1 /\ Len(s) \in Nat
      /\ \A i \in 1..Len(s) : Append(s, e)[i] = s[i]
      /\ Append(s, e)[Len(s) + 1] = e
  BY AppendProperties, LenProperties
<1>2. QED BY <1>1 DEF NoRepeats, Occurs
USE MaxPidAssumption, SliceAssumption, BootUsersAssumption,
    KernelTasksAssumption, ExitingAssumption
    DEF Pids, Boot, NoPid, OptPids, IsKernel, OpenPCs, PCs, ScheduleBody,
        HandlerPCs, Irqs, At, Goto, procVars, picVars, ctlVars, vars

\* The CPU accepts an interrupt: only ordinary code is ever interrupted.
LEMMA InterruptStep ==
  ASSUME IInv, NEW p \in Pids, NEW i \in Irqs, Interrupt(p, i)
  PROVE  IInv'
<1>1. /\ cpu = p /\ iflag /\ i \in Irqs
      /\ pc'[p] = i /\ intr'[p] = pc[p] /\ iflag' = FALSE
      /\ isr' = isr \cup {i}
      /\ pc[p] \in {"user", "kernel", "spawn", "sched"} /\ intr[p] = "none"
      /\ current = p /\ state[p] = "Running"
  BY DEF IInv, TypeOK, ControlInv, Interrupt, FlagInv, CriticalCodeMasked,
     OrdinaryCodeInterruptible, StateInv, ProcessorMatchesCurrent
<1>2. \A q \in Pids : q # p => intr'[q] = intr[q] /\ pc'[q] = pc[q]
  BY DEF IInv, TypeOK, Interrupt
<1>3. UNCHANGED <<state, ready, current, ticks, nextPid, cpu, rsp0, cr3,
                 saved, next, spawning, queueLock, exitLock, sysRsp>>
  BY DEF Interrupt
<1>4. TypeOK'
  BY ZenonT(40) DEF IInv, TypeOK, Interrupt, FlagInv, CriticalCodeMasked,
     OrdinaryCodeInterruptible, StateInv, ProcessorMatchesCurrent
<1>5. ControlInv'
  BY <1>1, <1>2, <1>3 DEF IInv, ControlInv, FlagInv, CriticalCodeMasked,
     OrdinaryCodeInterruptible
<1>6. FlagInv'
  BY <1>1, <1>2, <1>3 DEF IInv, ControlInv, FlagInv, CriticalCodeMasked,
     OrdinaryCodeInterruptible
<1>7. StateInv'
  BY <1>1, <1>2, <1>3 DEF IInv, ControlInv, StateInv,
     ProcessorMatchesCurrent
<1>8. SpawnInv'
  BY <1>1, <1>2, <1>3 DEF IInv, ControlInv, SpawnInv, PidsUnique
<1>9. RunnableInOnePlace'
  BY <1>1, <1>2, <1>3 DEF IInv, RunnableInOnePlace, Queued, Popped,
     BeingPushed, ControlInv
<1>10. SyscallStackExclusive'
  BY <1>1, <1>2, <1>3 DEF IInv, ControlInv, SyscallStackExclusive,
     InSyscall, FlagInv, CriticalCodeMasked, OrdinaryCodeInterruptible
<1>11. TimerAcknowledgedBeforeSwitch'
  BY <1>1, <1>2, <1>3 DEF IInv, TimerAcknowledgedBeforeSwitch
<1>12. QED
  BY <1>4, <1>5, <1>6, <1>7, <1>8, <1>9, <1>10, <1>11 DEF IInv

\* The timer handler acknowledges its interrupt first.
LEMMA TimerIrqStep ==
  ASSUME IInv, NEW p \in Pids, TimerIrq(p)
  PROVE  IInv'
<1>1. /\ cpu = p /\ pc[p] = "timer"
      /\ pc'[p] = "tick"
      /\ isr' = {}
  BY DEF IInv, TypeOK, ControlInv, TimerIrq, EndOfInterrupt,
     TimerAcknowledgedBeforeSwitch
<1>2. \A q \in Pids : q # p => pc'[q] = pc[q]
  BY DEF IInv, TypeOK, TimerIrq
<1>3. UNCHANGED <<state, ready, current, ticks, nextPid, cpu, iflag, rsp0,
                 cr3, irr, intr, saved, next, spawning, queueLock,
                 exitLock, sysRsp>>
  BY DEF TimerIrq
<1>4. TypeOK'
  BY DEF IInv, TypeOK, TimerIrq, EndOfInterrupt,
     TimerAcknowledgedBeforeSwitch
<1>5. ControlInv'
  BY <1>1, <1>2, <1>3 DEF IInv, ControlInv
<1>6. FlagInv'
  BY <1>1, <1>2, <1>3 DEF IInv, ControlInv, FlagInv, CriticalCodeMasked,
     OrdinaryCodeInterruptible
<1>7. StateInv'
  BY <1>1, <1>2, <1>3 DEF IInv, ControlInv, StateInv,
     ProcessorMatchesCurrent
<1>8. SpawnInv'
  BY <1>1, <1>2, <1>3 DEF IInv, ControlInv, SpawnInv, PidsUnique
<1>9. RunnableInOnePlace'
  BY <1>1, <1>2, <1>3 DEF IInv, RunnableInOnePlace, Queued, Popped,
     BeingPushed
<1>10. SyscallStackExclusive'
  BY <1>1, <1>2, <1>3 DEF IInv, ControlInv, SyscallStackExclusive, InSyscall
<1>11. TimerAcknowledgedBeforeSwitch'
  BY <1>1, <1>2, <1>3 DEF IInv, TimerAcknowledgedBeforeSwitch
<1>12. QED
  BY <1>4, <1>5, <1>6, <1>7, <1>8, <1>9, <1>10, <1>11 DEF IInv

\* A device handler acknowledges its interrupt last.
LEMMA DeviceIrqStep ==
  ASSUME IInv, NEW p \in Pids, DeviceIrq(p)
  PROVE  IInv'
<1>1. /\ cpu = p /\ pc[p] = "dev"
      /\ pc'[p] = "iret"
      /\ isr' = {}
  BY DEF IInv, TypeOK, ControlInv, DeviceIrq, EndOfInterrupt,
     TimerAcknowledgedBeforeSwitch
<1>2. \A q \in Pids : q # p => pc'[q] = pc[q]
  BY DEF IInv, TypeOK, DeviceIrq
<1>3. UNCHANGED <<state, ready, current, ticks, nextPid, cpu, iflag, rsp0,
                 cr3, irr, intr, saved, next, spawning, queueLock,
                 exitLock, sysRsp>>
  BY DEF DeviceIrq
<1>4. TypeOK'
  BY DEF IInv, TypeOK, DeviceIrq, EndOfInterrupt,
     TimerAcknowledgedBeforeSwitch
<1>5. ControlInv'
  BY <1>1, <1>2, <1>3 DEF IInv, ControlInv
<1>6. FlagInv'
  BY <1>1, <1>2, <1>3 DEF IInv, ControlInv, FlagInv, CriticalCodeMasked,
     OrdinaryCodeInterruptible
<1>7. StateInv'
  BY <1>1, <1>2, <1>3 DEF IInv, ControlInv, StateInv,
     ProcessorMatchesCurrent
<1>8. SpawnInv'
  BY <1>1, <1>2, <1>3 DEF IInv, ControlInv, SpawnInv, PidsUnique
<1>9. RunnableInOnePlace'
  BY <1>1, <1>2, <1>3 DEF IInv, RunnableInOnePlace, Queued, Popped,
     BeingPushed
<1>10. SyscallStackExclusive'
  BY <1>1, <1>2, <1>3 DEF IInv, ControlInv, SyscallStackExclusive, InSyscall
<1>11. TimerAcknowledgedBeforeSwitch'
  BY <1>1, <1>2, <1>3 DEF IInv, TimerAcknowledgedBeforeSwitch
<1>12. QED
  BY <1>4, <1>5, <1>6, <1>7, <1>8, <1>9, <1>10, <1>11 DEF IInv

\* A tick that ends the slice calls schedule().
LEMMA OnTimerTickStep ==
  ASSUME IInv, NEW p \in Pids, OnTimerTick(p)
  PROVE  IInv'
<1>1. /\ cpu = p /\ pc[p] = "tick"
      /\ pc'[p] \in {"sched", "iret"}
  BY DEF IInv, TypeOK, ControlInv, OnTimerTick, LeftAfterTick, Expired,
     StateInv, ProcessorMatchesCurrent
<1>2. \A q \in Pids : q # p => pc'[q] = pc[q]
  BY DEF IInv, TypeOK, OnTimerTick
<1>3. UNCHANGED <<state, ready, current, nextPid, cpu, iflag, rsp0, cr3,
                 irr, isr, intr, saved, next, spawning, queueLock,
                 exitLock, sysRsp>>
  BY DEF OnTimerTick
<1>4. TypeOK'
  <2>1. pc \in [Pids -> PCs] /\ ticks \in [Pids -> 0..Slice] /\ current \in Pids
    BY DEF IInv, TypeOK
  <2>2. pc' \in [Pids -> PCs]
    BY <2>1 DEF OnTimerTick
  <2>3. ticks' \in [Pids -> 0..Slice]
    BY <2>1 DEF OnTimerTick, LeftAfterTick, Expired
  <2>4. QED
    BY <1>3, <2>2, <2>3 DEF IInv, TypeOK
<1>5. ControlInv'
  BY <1>1, <1>2, <1>3 DEF IInv, ControlInv
<1>6. FlagInv'
  BY <1>1, <1>2, <1>3 DEF IInv, ControlInv, FlagInv, CriticalCodeMasked,
     OrdinaryCodeInterruptible
<1>7. StateInv'
  BY <1>1, <1>2, <1>3 DEF IInv, ControlInv, StateInv,
     ProcessorMatchesCurrent
<1>8. SpawnInv'
  BY <1>1, <1>2, <1>3 DEF IInv, ControlInv, SpawnInv, PidsUnique
<1>9. RunnableInOnePlace'
  BY <1>1, <1>2, <1>3 DEF IInv, RunnableInOnePlace, Queued, Popped,
     BeingPushed
<1>10. SyscallStackExclusive'
  BY <1>1, <1>2, <1>3 DEF IInv, ControlInv, SyscallStackExclusive, InSyscall
<1>11. TimerAcknowledgedBeforeSwitch'
  BY <1>1, <1>2, <1>3 DEF IInv, TimerAcknowledgedBeforeSwitch
<1>12. QED
  BY <1>4, <1>5, <1>6, <1>7, <1>8, <1>9, <1>10, <1>11 DEF IInv

\* iretq goes back to interrupted code, with IF set.
LEMMA InterruptReturnStep ==
  ASSUME IInv, NEW p \in Pids, InterruptReturn(p)
  PROVE  IInv'
<1>1. /\ cpu = p /\ pc[p] = "iret"
      /\ intr[p] \in {"user", "kernel", "spawn", "sched"}
      /\ pc'[p] = intr[p] /\ intr'[p] = "none"
      /\ iflag' = TRUE
  BY DEF IInv, TypeOK, ControlInv, InterruptReturn
<1>2. \A q \in Pids : q # p => pc'[q] = pc[q] /\ intr'[q] = intr[q]
  BY DEF IInv, TypeOK, InterruptReturn
<1>3. UNCHANGED <<state, ready, current, ticks, nextPid, cpu, rsp0, cr3,
                 irr, isr, saved, next, spawning, queueLock, exitLock,
                 sysRsp>>
  BY DEF InterruptReturn
<1>4. TypeOK'
  BY ZenonT(40) DEF IInv, TypeOK, InterruptReturn
<1>5. ControlInv'
  BY <1>1, <1>2, <1>3 DEF IInv, ControlInv
<1>6. FlagInv'
  BY <1>1, <1>2, <1>3 DEF IInv, ControlInv, FlagInv, CriticalCodeMasked,
     OrdinaryCodeInterruptible, StateInv, ProcessorMatchesCurrent
<1>7. StateInv'
  BY <1>1, <1>2, <1>3 DEF IInv, ControlInv, StateInv,
     ProcessorMatchesCurrent
<1>8. SpawnInv'
  BY <1>1, <1>2, <1>3 DEF IInv, ControlInv, SpawnInv, PidsUnique
<1>9. RunnableInOnePlace'
  BY <1>1, <1>2, <1>3 DEF IInv, RunnableInOnePlace, Queued, Popped,
     BeingPushed
<1>10. SyscallStackExclusive'
  BY <1>1, <1>2, <1>3 DEF IInv, ControlInv, SyscallStackExclusive, InSyscall
<1>11. TimerAcknowledgedBeforeSwitch'
  BY <1>1, <1>2, <1>3 DEF IInv, TimerAcknowledgedBeforeSwitch
<1>12. QED
  BY <1>4, <1>5, <1>6, <1>7, <1>8, <1>9, <1>10, <1>11 DEF IInv

\* schedule() remembers IF and clears it.
LEMMA SchedEnterStep ==
  ASSUME IInv, NEW p \in Pids, SchedEnter(p)
  PROVE  IInv'
<1>1. /\ cpu = p /\ pc[p] = "sched"
      /\ pc'[p] = "pop" /\ (saved'[p] <=> iflag) /\ iflag' = FALSE
  BY DEF IInv, TypeOK, ControlInv, SchedEnter
<1>2. \A q \in Pids : q # p => saved'[q] = saved[q] /\ pc'[q] = pc[q]
  BY DEF IInv, TypeOK, SchedEnter
<1>3. UNCHANGED <<state, ready, current, ticks, nextPid, cpu, rsp0, cr3,
                 irr, isr, intr, next, spawning, queueLock, exitLock,
                 sysRsp>>
  BY DEF SchedEnter
<1>4. TypeOK'
  BY ZenonT(40) DEF IInv, TypeOK, SchedEnter
<1>5. ControlInv'
  BY <1>1, <1>2, <1>3 DEF IInv, ControlInv
<1>6. FlagInv'
  BY <1>1, <1>2, <1>3 DEF IInv, ControlInv, FlagInv, CriticalCodeMasked,
     OrdinaryCodeInterruptible
<1>7. StateInv'
  BY <1>1, <1>2, <1>3 DEF IInv, ControlInv, StateInv,
     ProcessorMatchesCurrent
<1>8. SpawnInv'
  BY <1>1, <1>2, <1>3 DEF IInv, ControlInv, SpawnInv, PidsUnique
<1>9. RunnableInOnePlace'
  BY <1>1, <1>2, <1>3 DEF IInv, RunnableInOnePlace, Queued, Popped,
     BeingPushed
<1>10. SyscallStackExclusive'
  BY <1>1, <1>2, <1>3 DEF IInv, ControlInv, SyscallStackExclusive, InSyscall
<1>11. TimerAcknowledgedBeforeSwitch'
  BY <1>1, <1>2, <1>3 DEF IInv, TimerAcknowledgedBeforeSwitch
<1>12. QED
  BY <1>4, <1>5, <1>6, <1>7, <1>8, <1>9, <1>10, <1>11 DEF IInv

\* schedule() pops the head of the queue.  It is never the process that is
\* being descheduled, and an exiting process never finds the queue empty
\* because the boot process, being neither current nor exited, is queued.
LEMMA SchedPopStep ==
  ASSUME IInv, NEW p \in Pids, SchedPop(p)
  PROVE  IInv'
<1>1. /\ cpu = p /\ pc[p] = "pop" /\ current = p
      /\ state[p] \in {"Running", "Exited"}
      /\ queueLock = NoPid
  BY DEF IInv, TypeOK, StateInv, ProcessorMatchesCurrent, SchedPop
<1>2. ASSUME ready = <<>> PROVE state[p] = "Running"
  <2>1. ~Queued(Boot)
    BY <1>2 DEF Queued, Occurs
  <2>2. Boot \in Pids /\ state[Boot] # "Ready"
    BY <2>1, <1>1 DEF IInv, RunnableInOnePlace, Popped, BeingPushed
  <2>3. QED
    BY <2>2, <1>1 DEF IInv, StateInv, ProcessorMatchesCurrent
<1>3. ASSUME ready # <<>>
      PROVE  /\ Head(ready) \in Pids /\ Tail(ready) \in Seq(Pids)
             /\ Head(ready) # p /\ state[Head(ready)] = "Ready"
             /\ NoRepeats(Tail(ready)) /\ Occurs(Head(ready), ready)
             /\ \A x : Occurs(x, Tail(ready)) <=> Occurs(x, ready) /\ x # Head(ready)
  <2>1. ready \in Seq(Pids) /\ NoRepeats(ready)
    BY DEF IInv, TypeOK, RunnableInOnePlace
  <2>2. Head(ready) \in Pids /\ Tail(ready) \in Seq(Pids)
    BY <1>3, <2>1, HeadTailProperties
  <2>3. /\ NoRepeats(Tail(ready)) /\ Occurs(Head(ready), ready)
        /\ \A x : Occurs(x, Tail(ready)) <=> Occurs(x, ready) /\ x # Head(ready)
    BY <1>3, <2>1, TailOccurs
  <2>4. state[Head(ready)] = "Ready"
    BY <2>2, <2>3 DEF IInv, RunnableInOnePlace, Queued
  <2>5. QED
    BY <1>1, <2>2, <2>3, <2>4
<1>4. CASE ready = <<>>
  <2>1. pc'[p] = "restore" /\ \A q \in Pids : q # p => pc'[q] = pc[q]
    BY <1>4 DEF IInv, TypeOK, SchedPop
  <2>2. UNCHANGED <<state, ready, current, ticks, nextPid, cpu,
                   iflag, rsp0, cr3, irr, isr, intr,
                   saved, next, spawning, queueLock,
                   exitLock, sysRsp>>
    BY <1>4 DEF SchedPop
  <2>3. TypeOK'
    <3>1. pc' = [pc EXCEPT ![p] = "restore"] BY <1>4 DEF SchedPop
    <3>2. pc \in [Pids -> PCs] BY DEF IInv, TypeOK
    <3>3. pc' \in [Pids -> PCs] BY <3>1, <3>2
    <3>4. QED BY <2>2, <3>3, ZenonT(30) DEF IInv, TypeOK
  <2>4. ControlInv'
    BY <1>1, <1>2, <1>4, <2>1, <2>2 DEF IInv, ControlInv
  <2>5. FlagInv'
    BY <1>1, <1>2, <1>4, <2>1, <2>2 DEF IInv, ControlInv, FlagInv,
       CriticalCodeMasked, OrdinaryCodeInterruptible
  <2>6. StateInv'
    BY <1>1, <1>2, <1>4, <2>1, <2>2 DEF IInv, ControlInv, StateInv,
       ProcessorMatchesCurrent, FlagInv
  <2>7. SpawnInv'
    BY <1>1, <1>2, <1>4, <2>1, <2>2 DEF IInv, ControlInv, SpawnInv,
       PidsUnique
  <2>8. RunnableInOnePlace'
    BY <1>1, <1>2, <1>4, <2>1, <2>2 DEF IInv, RunnableInOnePlace, Queued,
       Popped, BeingPushed
  <2>9. SyscallStackExclusive'
    BY <1>1, <1>2, <1>4, <2>1, <2>2 DEF IInv, ControlInv,
       SyscallStackExclusive, InSyscall
  <2>10. TimerAcknowledgedBeforeSwitch'
    BY <1>1, <1>2, <1>4, <2>1, <2>2 DEF IInv, TimerAcknowledgedBeforeSwitch
  <2>11. QED
    BY <2>3, <2>4, <2>5, <2>6, <2>7, <2>8, <2>9, <2>10 DEF IInv
<1>5. CASE ready # <<>>
  <2>1. /\ pc'[p] = "requeue" /\ next'[p] = Head(ready) /\ ready' = Tail(ready)
        /\ \A q \in Pids : q # p => pc'[q] = pc[q] /\ next'[q] = next[q]
    BY ZenonT(40), <1>1, <1>3, <1>5 DEF IInv, TypeOK, SchedPop
  <2>2. UNCHANGED <<state, current, ticks, nextPid, cpu, iflag,
                   rsp0, cr3, irr, isr, intr, saved,
                   spawning, queueLock, exitLock,
                   sysRsp>>
    BY <1>1, <1>3, <1>5 DEF SchedPop
  <2>3. TypeOK'
    <3>1. pc \in [Pids -> PCs] /\ next \in [Pids -> OptPids]
      BY DEF IInv, TypeOK
    <3>2. /\ pc' = [pc EXCEPT ![p] = "requeue"]
          /\ next' = [next EXCEPT ![p] = Head(ready)]
      BY <1>1, <1>3, <1>5 DEF SchedPop
    <3>3. pc' \in [Pids -> PCs]
      BY <3>1, <3>2
    <3>4. Head(ready) \in OptPids /\ ready' \in Seq(Pids)
      BY <1>3, <1>5, <2>1
    <3>5. next' \in [Pids -> OptPids]
      BY <3>1, <3>2, <3>4
    <3>6. QED
      BY <2>2, <3>3, <3>4, <3>5, Zenon DEF IInv, TypeOK
  <2>4. ControlInv'
    <3>1. /\ pc[p] = "pop" /\ cpu = p /\ Head(ready) # NoPid
          /\ spawning[p] # NoPid <=> intr[p] = "spawn"
      BY <1>1, <1>3, <1>5 DEF IInv, ControlInv, SchedPop
    <3>2. \A q \in Pids : pc'[q] \in {"spawn", "push"} <=> pc[q] \in {"spawn", "push"}
      BY <2>1, <3>1
    <3>3. QED
      BY <2>1, <2>2, <3>1, <3>2 DEF IInv, ControlInv
  <2>5. FlagInv'
    <3>1. \A q \in Pids : pc'[q] \in ScheduleBody <=> pc[q] \in ScheduleBody
      BY <1>1, <2>1
    <3>2. ~iflag /\ queueLock = NoPid
      BY <1>1 DEF IInv, FlagInv, CriticalCodeMasked
    <3>3. QED
      BY <1>1, <2>1, <2>2, <3>1, <3>2 DEF IInv, FlagInv, CriticalCodeMasked,
         OrdinaryCodeInterruptible
  <2>6. StateInv'
    BY SMTT(30), ZenonT(60), <1>1, <1>3, <1>5, <2>1, <2>2 DEF IInv, ControlInv, StateInv,
       ProcessorMatchesCurrent
  <2>7. SpawnInv'
    BY SMTT(30), ZenonT(60), <1>1, <1>3, <1>5, <2>1, <2>2 DEF IInv, ControlInv, SpawnInv,
       PidsUnique
  <2>8. RunnableInOnePlace'
    BY <1>1, <1>3, <1>5, <2>1, <2>2 DEF IInv, RunnableInOnePlace, Queued,
       Popped, BeingPushed
  <2>9. SyscallStackExclusive'
    BY <1>1, <1>3, <1>5, <2>1, <2>2 DEF IInv, ControlInv,
       SyscallStackExclusive, InSyscall
  <2>10. TimerAcknowledgedBeforeSwitch'
    BY <1>1, <1>3, <1>5, <2>1, <2>2 DEF IInv, TimerAcknowledgedBeforeSwitch
  <2>11. QED
    BY <2>3, <2>4, <2>5, <2>6, <2>7, <2>8, <2>9, <2>10 DEF IInv
<1>6. QED
  BY <1>4, <1>5

\* schedule() queues the old process behind the others if it still runs.
LEMMA SchedRequeueStep ==
  ASSUME IInv, NEW p \in Pids, SchedRequeue(p)
  PROVE  IInv'
<1>1. /\ cpu = p /\ pc[p] = "requeue" /\ current = p
      /\ state[p] \in {"Running", "Exited"}
      /\ queueLock = NoPid /\ next[p] \in Pids
      /\ ready \in Seq(Pids)
  <2>1. /\ cpu = p /\ pc[p] = "requeue" /\ queueLock = NoPid
        /\ ready \in Seq(Pids) /\ next[p] \in OptPids
    BY DEF IInv, TypeOK, SchedRequeue
  <2>2. current = p
    BY <2>1 DEF IInv, StateInv, ProcessorMatchesCurrent
  <2>3. state[p] \in {"Running", "Exited"}
    BY <2>1 DEF IInv, StateInv
  <2>4. next[p] # NoPid
    BY <2>1 DEF IInv, ControlInv
  <2>5. QED
    BY <2>1, <2>2, <2>3, <2>4
<1>2. pc'[p] = "install" /\ \A q \in Pids : q # p => pc'[q] = pc[q]
  BY DEF IInv, TypeOK, SchedRequeue
<1>3. UNCHANGED <<current, ticks, nextPid, cpu, iflag, rsp0,
                 cr3, irr, isr, intr, saved, next,
                 spawning, queueLock, exitLock, sysRsp>>
  BY DEF SchedRequeue
<1>4. CASE state[p] = "Running"
  <2>1. /\ ready' = Append(ready, p) /\ state' = [state EXCEPT ![p] = "Ready"]
        /\ state'[p] = "Ready" /\ \A q \in Pids : q # p => state'[q] = state[q]
    BY <1>1, <1>4 DEF IInv, TypeOK, SchedRequeue
  <2>2. ~Occurs(p, ready) /\ NoRepeats(ready)
    BY <1>4 DEF IInv, RunnableInOnePlace, Queued
  <2>3. /\ NoRepeats(Append(ready, p)) /\ Append(ready, p) \in Seq(Pids)
        /\ \A x : Occurs(x, Append(ready, p)) <=> Occurs(x, ready) \/ x = p
    BY <1>1, <2>2, AppendOccurs, AppendProperties
  <2>4. TypeOK'
    BY ZenonT(40), <1>1, <1>3, <2>1, <2>3 DEF IInv, TypeOK, SchedRequeue
  <2>5. ControlInv'
    BY ZenonT(40), <1>1, <1>2, <1>3, <1>4, <2>1 DEF IInv, ControlInv
  <2>6. FlagInv'
    BY ZenonT(60), <1>1, <1>2, <1>3, <1>4, <2>1 DEF IInv, ControlInv, FlagInv,
       CriticalCodeMasked, OrdinaryCodeInterruptible
  <2>7. StateInv'
    <3>1. ProcessorMatchesCurrent'
      BY <1>1, <1>2, <1>3, <2>1 DEF IInv, StateInv, ProcessorMatchesCurrent
    <3>2. state'[Boot] \in {"Ready", "Running"} /\ next[p] # p
      BY <1>1, <2>1 DEF IInv, StateInv
    <3>3. \A q \in Pids :
            /\ state'[q] = "Exited" => intr'[q] = "none" /\ ~IsKernel(q)
            /\ state'[q] = "New" => pc'[q] = "new" /\ q # cpu'
            /\ q >= nextPid' => state'[q] = "New"
      BY <1>1, <1>2, <1>3, <1>4, <2>1 DEF IInv, StateInv
    <3>4. QED
      BY <1>1, <1>2, <1>3, <2>1, <3>1, <3>2, <3>3 DEF StateInv
  <2>8. SpawnInv'
    <3>1. \A q \in Pids : /\ spawning[q] # NoPid => spawning[q] # p
                          /\ pc'[q] = "push" <=> pc[q] = "push"
      BY <1>1, <1>2, <1>4 DEF IInv, ControlInv, SpawnInv
    <3>2. QED
      BY <1>3, <2>1, <3>1 DEF IInv, SpawnInv, PidsUnique
  <2>9. RunnableInOnePlace'
    BY <1>1, <1>2, <1>3, <1>4, <2>1, <2>2, <2>3 DEF IInv,
       RunnableInOnePlace, Queued, Popped, BeingPushed
  <2>10. SyscallStackExclusive'
    BY <1>1, <1>2, <1>3, <1>4, <2>1 DEF IInv, ControlInv,
       SyscallStackExclusive, InSyscall
  <2>11. TimerAcknowledgedBeforeSwitch'
    BY <1>1, <1>2, <1>3, <1>4, <2>1 DEF IInv, TimerAcknowledgedBeforeSwitch
  <2>12. QED
    BY <2>4, <2>5, <2>6, <2>7, <2>8, <2>9, <2>10, <2>11 DEF IInv
<1>5. CASE state[p] = "Exited"
  <2>1. UNCHANGED <<ready, state>>
    BY <1>1, <1>5 DEF SchedRequeue
  <2>2. TypeOK'
    BY <1>1, <1>3, <2>1 DEF IInv, TypeOK, SchedRequeue
  <2>3. ControlInv'
    BY SMTT(30), ZenonT(60), <1>1, <1>2, <1>3, <1>5, <2>1 DEF IInv, ControlInv
  <2>4. FlagInv'
    BY SMTT(30), ZenonT(60), <1>1, <1>2, <1>3, <1>5, <2>1 DEF IInv, ControlInv, FlagInv,
       CriticalCodeMasked, OrdinaryCodeInterruptible
  <2>5. StateInv'
    BY SMTT(30), ZenonT(60), <1>1, <1>2, <1>3, <1>5, <2>1 DEF IInv, ControlInv, StateInv,
       ProcessorMatchesCurrent
  <2>6. SpawnInv'
    <3>1. \A q \in Pids : pc'[q] = "push" <=> pc[q] = "push"
      BY <1>1, <1>2
    <3>2. QED
      BY <1>3, <2>1, <3>1 DEF IInv, SpawnInv, PidsUnique
  <2>7. RunnableInOnePlace'
    BY <1>1, <1>2, <1>3, <1>5, <2>1 DEF IInv, RunnableInOnePlace, Queued,
       Popped, BeingPushed
  <2>8. SyscallStackExclusive'
    BY <1>1, <1>2, <1>3, <1>5, <2>1 DEF IInv, ControlInv,
       SyscallStackExclusive, InSyscall
  <2>9. TimerAcknowledgedBeforeSwitch'
    BY <1>1, <1>2, <1>3, <1>5, <2>1 DEF IInv, TimerAcknowledgedBeforeSwitch
  <2>10. QED
    BY <2>2, <2>3, <2>4, <2>5, <2>6, <2>7, <2>8, <2>9 DEF IInv
<1>6. QED
  BY <1>1, <1>4, <1>5

\* schedule() makes the popped process current.
LEMMA SchedInstallStep ==
  ASSUME IInv, NEW p \in Pids, SchedInstall(p)
  PROVE  IInv'
<1> DEFINE n == next[p]
<1>1. /\ cpu = p /\ pc[p] = "install" /\ current = p
      /\ state[p] \in {"Ready", "Exited"}
      /\ n \in Pids /\ Popped(n) /\ state[n] = "Ready" /\ ~Queued(n)
  <2>1. cpu = p /\ pc[p] = "install" /\ next[p] \in OptPids
    BY DEF IInv, TypeOK, SchedInstall
  <2>2. current = p
    BY <2>1 DEF IInv, StateInv, ProcessorMatchesCurrent
  <2>3. state[p] \in {"Ready", "Exited"}
    BY <2>1 DEF IInv, StateInv
  <2>4. n # NoPid
    BY <2>1 DEF IInv, ControlInv
  <2>5. n \in Pids /\ Popped(n)
    BY <2>1, <2>4 DEF Popped
  <2>6. state[n] = "Ready" /\ ~Queued(n)
    BY <2>5 DEF IInv, RunnableInOnePlace
  <2>7. QED
    BY <2>1, <2>2, <2>3, <2>5, <2>6
<1>2. n # p
  BY <1>1 DEF IInv, StateInv
<1>3. /\ pc'[p] = "switch" /\ state'[n] = "Running"
      /\ current' = n /\ rsp0' = n /\ cr3' = n
      /\ \A q \in Pids : /\ q # p => pc'[q] = pc[q]
                         /\ q # n => state'[q] = state[q]
  BY <1>1 DEF IInv, TypeOK, SchedInstall
<1>4. UNCHANGED <<ready, nextPid, cpu, iflag, irr, isr, intr,
                 saved, next, spawning, queueLock,
                 exitLock, sysRsp>>
  BY DEF SchedInstall
<1> HIDE DEF n
<1>5. TypeOK'
  <2>1. /\ pc \in [Pids -> PCs] /\ ticks \in [Pids -> 0..Slice]
        /\ state \in [Pids -> {"New", "Ready", "Running", "Exited"}]
        /\ next[p] \in Pids /\ Slice \in 0..Slice
    BY <1>1 DEF IInv, TypeOK, n
  <2>2. /\ pc' \in [Pids -> PCs] /\ ticks' \in [Pids -> 0..Slice]
        /\ state' \in [Pids -> {"New", "Ready", "Running", "Exited"}]
    BY <2>1 DEF SchedInstall
  <2>3. current' \in Pids /\ rsp0' \in Pids /\ cr3' \in Pids
    BY <1>1, <1>3
  <2>4. QED
    BY <1>4, <2>2, <2>3, ZenonT(30) DEF IInv, TypeOK
<1>6. ControlInv'
  BY SMTT(30), ZenonT(60), <1>1, <1>2, <1>3, <1>4 DEF IInv, ControlInv
<1>7. FlagInv'
  BY ZenonT(60), <1>1, <1>2, <1>3, <1>4 DEF IInv, ControlInv, FlagInv,
     CriticalCodeMasked, OrdinaryCodeInterruptible
<1>8. StateInv'
  <2>1. \A q \in Pids : state[q] = "Running" => q = current
    BY DEF IInv, StateInv, ProcessorMatchesCurrent
  <2>2. ProcessorMatchesCurrent'
    BY Zenon, <1>1, <1>2, <1>3, <1>4, <2>1 DEF ProcessorMatchesCurrent
  <2>3. next'[p] = n /\ pc'[cpu'] = "switch" /\ state'[current'] = "Running"
    BY Zenon, <1>1, <1>3, <1>4 DEF n
  <2>4. state'[Boot] \in {"Ready", "Running"}
    <3>1. state[Boot] \in {"Ready", "Running"} /\ Boot \in Pids
      BY DEF IInv, StateInv
    <3>2. QED
      BY Zenon, <1>3, <3>1
  <2>5. \A q \in Pids :
          /\ state'[q] = "Exited" => intr'[q] = "none" /\ ~IsKernel(q)
          /\ state'[q] = "New" => pc'[q] = "new" /\ q # cpu'
          /\ q >= nextPid' => state'[q] = "New"
    <3>1. \A q \in Pids :
            /\ state[q] = "Exited" => intr[q] = "none" /\ ~IsKernel(q)
            /\ state[q] = "New" => pc[q] = "new" /\ q # cpu
            /\ q >= nextPid => state[q] = "New"
      BY DEF IInv, StateInv
    <3>2. QED
      BY Zenon, <1>1, <1>3, <1>4, <3>1
  <2>6. QED
    BY Zenon, <1>1, <1>3, <1>4, <2>2, <2>3, <2>4, <2>5 DEF StateInv
<1>9. SpawnInv'
  BY <1>1, <1>2, <1>3, <1>4 DEF IInv, ControlInv, SpawnInv, PidsUnique,
     RunnableInOnePlace, BeingPushed, Popped
<1>10. RunnableInOnePlace'
  BY <1>1, <1>2, <1>3, <1>4 DEF IInv, RunnableInOnePlace, Queued, Popped,
     BeingPushed
<1>11. SyscallStackExclusive'
  BY <1>1, <1>2, <1>3, <1>4 DEF IInv, ControlInv, SyscallStackExclusive,
     InSyscall
<1>12. TimerAcknowledgedBeforeSwitch'
  BY <1>1, <1>2, <1>3, <1>4 DEF IInv, TimerAcknowledgedBeforeSwitch
<1>13. QED
  BY <1>5, <1>6, <1>7, <1>8, <1>9, <1>10, <1>11, <1>12 DEF IInv

\* __switch_context: the CPU passes to the current process, which is the
\* one that was popped and is Running.
LEMMA SwitchContextStep ==
  ASSUME IInv, NEW p \in Pids, SwitchContext(p)
  PROVE  IInv'
<1> DEFINE n == next[p]
<1>1. /\ cpu = p /\ pc[p] = "switch" /\ n \in Pids /\ n # p
      /\ current = n /\ state[n] = "Running"
      /\ pc[n] \in {"new", "restore"}
      /\ ~iflag
  BY ZenonT(30) DEF IInv, TypeOK, ControlInv, StateInv, ProcessorMatchesCurrent,
         FlagInv, CriticalCodeMasked, SwitchContext
<1>2. /\ pc'[p] = "restore" /\ next'[p] = NoPid /\ cpu' = n
      /\ \A q \in Pids : q # p => pc'[q] = pc[q] /\ next'[q] = next[q]
  BY DEF IInv, TypeOK, SwitchContext
<1>3. UNCHANGED <<state, ready, current, ticks, nextPid, iflag,
                 rsp0, cr3, irr, isr, intr, saved,
                 spawning, queueLock, exitLock, sysRsp>>
  BY DEF SwitchContext
<1> HIDE DEF n
<1>4. TypeOK'
  BY ZenonT(60), <1>1, <1>2, <1>3 DEF IInv, TypeOK, SwitchContext
<1>5. ControlInv'
  BY SMTT(30), ZenonT(60), <1>1, <1>2, <1>3 DEF IInv, ControlInv
<1>6. FlagInv'
  BY ZenonT(60), <1>1, <1>2, <1>3 DEF IInv, ControlInv, FlagInv, CriticalCodeMasked,
     OrdinaryCodeInterruptible
<1>7. StateInv'
  BY ZenonT(60), <1>1, <1>2, <1>3 DEF IInv, ControlInv, StateInv,
     ProcessorMatchesCurrent
<1>8. SpawnInv'
  BY SMTT(30), ZenonT(60), <1>1, <1>2, <1>3 DEF IInv, ControlInv, SpawnInv, PidsUnique
<1>9. RunnableInOnePlace'
  BY <1>1, <1>2, <1>3 DEF IInv, RunnableInOnePlace, Queued, Popped,
     BeingPushed
<1>10. SyscallStackExclusive'
  BY <1>1, <1>2, <1>3 DEF IInv, ControlInv, SyscallStackExclusive,
     InSyscall, FlagInv
<1>11. TimerAcknowledgedBeforeSwitch'
  BY ZenonT(60), <1>1, <1>2, <1>3 DEF IInv, TimerAcknowledgedBeforeSwitch
<1>12. QED
  BY <1>4, <1>5, <1>6, <1>7, <1>8, <1>9, <1>10, <1>11 DEF IInv

\* schedule() restores IF and returns; never into exit_current.
LEMMA SchedReturnStep ==
  ASSUME IInv, NEW p \in Pids, SchedReturn(p)
  PROVE  IInv'
<1>1. /\ cpu = p /\ pc[p] = "restore"
      /\ state[p] = "Running"
      /\ IF intr[p] # "none" THEN pc'[p] = "iret" /\ ~iflag'
                            ELSE pc'[p] = "kernel" /\ iflag' /\ IsKernel(p)
  BY ZenonT(60) DEF IInv, TypeOK, ControlInv, SchedReturn, StateInv, FlagInv,
     CriticalCodeMasked
<1>2. \A q \in Pids : q # p => pc'[q] = pc[q]
  BY DEF IInv, TypeOK, SchedReturn
<1>3. UNCHANGED <<state, ready, current, ticks, nextPid, cpu, rsp0, cr3,
                 irr, isr, intr, saved, next, spawning, queueLock,
                 exitLock, sysRsp>>
  BY ZenonT(60) DEF SchedReturn
<1>4. TypeOK'
  BY Zenon DEF IInv, TypeOK, SchedReturn, StateInv, FlagInv, CriticalCodeMasked
<1>5. ControlInv'
  BY <1>1, <1>2, <1>3 DEF IInv, ControlInv
<1>6. FlagInv'
  BY ZenonT(60), <1>1, <1>2, <1>3 DEF IInv, ControlInv, FlagInv, CriticalCodeMasked,
     OrdinaryCodeInterruptible
<1>7. StateInv'
  BY ZenonT(60), <1>1, <1>2, <1>3 DEF IInv, ControlInv, StateInv,
     ProcessorMatchesCurrent
<1>8. SpawnInv'
  BY SMTT(30), ZenonT(60), <1>1, <1>2, <1>3 DEF IInv, ControlInv, SpawnInv, PidsUnique
<1>9. RunnableInOnePlace'
  BY <1>1, <1>2, <1>3 DEF IInv, RunnableInOnePlace, Queued, Popped,
     BeingPushed
<1>10. SyscallStackExclusive'
  BY <1>1, <1>2, <1>3 DEF IInv, ControlInv, SyscallStackExclusive, InSyscall
<1>11. TimerAcknowledgedBeforeSwitch'
  BY <1>1, <1>2, <1>3 DEF IInv, TimerAcknowledgedBeforeSwitch
<1>12. QED
  BY <1>4, <1>5, <1>6, <1>7, <1>8, <1>9, <1>10, <1>11 DEF IInv

\* A spawn takes a pid nobody else has.
LEMMA SpawnBeginStep ==
  ASSUME IInv, NEW p \in Pids, SpawnBegin(p)
  PROVE  IInv'
<1>1. /\ cpu = p /\ pc[p] = SpawnCaller(p) /\ intr[p] = "none"
      /\ pc'[p] = "spawn" /\ spawning'[p] = nextPid /\ nextPid' = nextPid + 1
      /\ nextPid \in Pids
  <2>1. /\ nextPid \in Pids /\ nextPid' = nextPid + 1
        /\ pc[p] = SpawnCaller(p) /\ cpu = p
        /\ pc'[p] = "spawn" /\ spawning'[p] = nextPid
    BY DEF IInv, TypeOK, SpawnBegin
  <2>2. QED
    BY <2>1 DEF IInv, ControlInv, SpawnCaller
<1>2. \A q \in Pids : q # p => spawning'[q] = spawning[q] /\ pc'[q] = pc[q]
  BY DEF IInv, TypeOK, SpawnBegin
<1>3. UNCHANGED <<state, ready, current, ticks, cpu, iflag, rsp0, cr3,
                 irr, isr, intr, saved, next, queueLock, exitLock,
                 sysRsp>>
  BY DEF SpawnBegin
<1>4. TypeOK'
  <2>1. pc' \in [Pids -> PCs] /\ spawning' \in [Pids -> OptPids]
    BY <1>1 DEF IInv, TypeOK, SpawnBegin
  <2>2. nextPid' \in 1..(MaxPid + 1)
    BY <1>1
  <2>3. QED
    BY <1>3, <2>1, <2>2 DEF IInv, TypeOK
<1>5. ControlInv'
  <2>1. nextPid # NoPid
    BY <1>1
  <2>2. next[p] = NoPid
    BY <1>1 DEF IInv, ControlInv, SpawnCaller
  <2>3. QED
    BY SMTT(30), ZenonT(60), <1>1, <1>2, <1>3, <2>1, <2>2 DEF IInv, ControlInv, SpawnCaller
<1>6. FlagInv'
  BY ZenonT(60), <1>1, <1>2, <1>3 DEF IInv, ControlInv, FlagInv, CriticalCodeMasked,
     OrdinaryCodeInterruptible, SpawnCaller
<1>7. StateInv'
  <2>1. pc[cpu] \in {"kernel", "syscall"} /\ pc'[cpu'] = "spawn"
    BY <1>1, <1>3 DEF SpawnCaller
  <2>2. ProcessorMatchesCurrent'
    BY Zenon, <1>3, <2>1 DEF IInv, StateInv, ProcessorMatchesCurrent
  <2>3. \A q \in Pids :
          /\ state[q] = "Exited" => intr[q] = "none" /\ ~IsKernel(q)
          /\ state[q] = "New" => pc[q] = "new" /\ q # cpu
          /\ q >= nextPid => state[q] = "New"
    BY DEF IInv, StateInv
  <2>4. \A q \in Pids : q >= nextPid' => q >= nextPid
    BY <1>1
  <2>5. \A q \in Pids :
          /\ state'[q] = "Exited" => intr'[q] = "none" /\ ~IsKernel(q)
          /\ state'[q] = "New" => pc'[q] = "new" /\ q # cpu'
          /\ q >= nextPid' => state'[q] = "New"
    BY Zenon, <1>1, <1>2, <1>3, <2>3, <2>4
  <2>6. state'[Boot] \in {"Ready", "Running"}
    BY <1>3 DEF IInv, StateInv
  <2>7. QED
    BY Zenon, <2>1, <2>2, <2>5, <2>6 DEF StateInv
<1>8. SpawnInv'
  <2>1. spawning[p] = NoPid /\ state[nextPid] = "New"
    BY <1>1 DEF IInv, ControlInv, StateInv, SpawnCaller
  <2>2. \A q \in Pids : spawning[q] # NoPid => spawning[q] < nextPid
    BY DEF IInv, SpawnInv, PidsUnique
  <2>3. nextPid \in Nat
    BY DEF IInv, TypeOK
  <2>4. QED
    BY <1>1, <1>2, <1>3, <2>1, <2>2, <2>3 DEF IInv, SpawnInv, PidsUnique
<1>9. RunnableInOnePlace'
  BY <1>1, <1>2, <1>3 DEF IInv, RunnableInOnePlace, Queued, Popped,
     BeingPushed, SpawnCaller
<1>10. SyscallStackExclusive'
  BY <1>1, <1>2, <1>3 DEF IInv, ControlInv, SyscallStackExclusive,
     InSyscall, SpawnCaller
<1>11. TimerAcknowledgedBeforeSwitch'
  BY <1>1, <1>2, <1>3 DEF IInv, TimerAcknowledgedBeforeSwitch, SpawnCaller
<1>12. QED
  BY <1>4, <1>5, <1>6, <1>7, <1>8, <1>9, <1>10, <1>11 DEF IInv

\* A spawn that fails only loses its pid.
LEMMA SpawnNoMemoryStep ==
  ASSUME IInv, NEW p \in Pids, SpawnNoMemory(p)
  PROVE  IInv'
<1>1. /\ cpu = p /\ pc[p] = "spawn"
      /\ pc'[p] = SpawnCaller(p) /\ spawning'[p] = NoPid
  BY DEF IInv, TypeOK, ControlInv, SpawnNoMemory, SpawnCaller
<1>2. \A q \in Pids : q # p => spawning'[q] = spawning[q] /\ pc'[q] = pc[q]
  BY DEF IInv, TypeOK, SpawnNoMemory
<1>3. UNCHANGED <<state, ready, current, ticks, nextPid, cpu, iflag, rsp0,
                 cr3, irr, isr, intr, saved, next, queueLock, exitLock,
                 sysRsp>>
  BY DEF SpawnNoMemory
<1>4. TypeOK'
  BY DEF IInv, TypeOK, SpawnNoMemory, SpawnCaller, SpawnCaller
<1>5. ControlInv'
  BY <1>1, <1>2, <1>3 DEF IInv, ControlInv, SpawnCaller
<1>6. FlagInv'
  BY ZenonT(60), <1>1, <1>2, <1>3 DEF IInv, ControlInv, FlagInv, CriticalCodeMasked,
     OrdinaryCodeInterruptible, SpawnCaller
<1>7. StateInv'
  BY SMTT(30), ZenonT(60), <1>1, <1>2, <1>3 DEF IInv, ControlInv, StateInv,
     ProcessorMatchesCurrent, SpawnCaller
<1>8. SpawnInv'
  BY SMTT(30), ZenonT(60), <1>1, <1>2, <1>3 DEF IInv, ControlInv, SpawnInv, PidsUnique,
     SpawnCaller
<1>9. RunnableInOnePlace'
  BY <1>1, <1>2, <1>3 DEF IInv, RunnableInOnePlace, Queued, Popped,
     BeingPushed, SpawnCaller
<1>10. SyscallStackExclusive'
  BY <1>1, <1>2, <1>3 DEF IInv, ControlInv, SyscallStackExclusive,
     InSyscall, SpawnCaller
<1>11. TimerAcknowledgedBeforeSwitch'
  BY <1>1, <1>2, <1>3 DEF IInv, TimerAcknowledgedBeforeSwitch, SpawnCaller
<1>12. QED
  BY <1>4, <1>5, <1>6, <1>7, <1>8, <1>9, <1>10, <1>11 DEF IInv

\* push_ready marks the new process Ready and takes the queue lock.
LEMMA PushLockStep ==
  ASSUME IInv, NEW p \in Pids, PushLock(p)
  PROVE  IInv'
<1> DEFINE n == spawning[p]
<1>1. /\ cpu = p /\ pc[p] = "spawn" /\ intr[p] = "none"
      /\ n \in Pids /\ state[n] = "New" /\ pc[n] = "new" /\ n # p
      /\ ~Queued(n) /\ n < nextPid
  BY ZenonT(40) DEF IInv, TypeOK, ControlInv, SpawnInv, PidsUnique, StateInv,
         RunnableInOnePlace, PushLock
<1>2. /\ pc'[p] = "push" /\ (saved'[p] <=> iflag) /\ iflag' = FALSE
      /\ queueLock' = p /\ state'[n] = "Ready"
      /\ \A q \in Pids : /\ q # p => pc'[q] = pc[q] /\ saved'[q] = saved[q]
                         /\ q # n => state'[q] = state[q]
  BY <1>1 DEF IInv, TypeOK, PushLock
<1>3. UNCHANGED <<ready, current, ticks, nextPid, cpu, rsp0,
                 cr3, irr, isr, intr, next, spawning,
                 exitLock, sysRsp>>
  BY DEF PushLock
<1>4. \A q \in Pids : q # p => spawning[q] # n
  BY <1>1 DEF IInv, SpawnInv, PidsUnique
<1> HIDE DEF n
<1>5. TypeOK'
  BY ZenonT(40), <1>1, <1>3 DEF IInv, TypeOK, n, PushLock
<1>6. ControlInv'
  BY ZenonT(40), <1>1, <1>2, <1>3, <1>4 DEF IInv, ControlInv
<1>7. FlagInv'
  BY ZenonT(90), <1>1, <1>2, <1>3, <1>4 DEF IInv, ControlInv, FlagInv,
     CriticalCodeMasked, OrdinaryCodeInterruptible
<1>8. StateInv'
  <2>1. ProcessorMatchesCurrent'
    BY ZenonT(60), <1>1, <1>2, <1>3 DEF IInv, StateInv, ProcessorMatchesCurrent
  <2>2. state'[Boot] \in {"Ready", "Running"}
    <3>1. state[Boot] \in {"Ready", "Running"} /\ Boot \in Pids
      BY DEF IInv, StateInv
    <3>2. QED
      BY Zenon, <1>2, <3>1
  <2>3. \A q \in Pids :
          /\ state'[q] = "Exited" => intr'[q] = "none" /\ ~IsKernel(q)
          /\ state'[q] = "New" => pc'[q] = "new" /\ q # cpu'
          /\ q >= nextPid' => state'[q] = "New"
    <3>1. nextPid \in Nat /\ ~(n >= nextPid)
      BY <1>1 DEF IInv, TypeOK
    <3>2. QED
      BY ZenonT(90), <1>1, <1>2, <1>3, <3>1 DEF IInv, StateInv
  <2>4. QED
    BY ZenonT(40), <1>1, <1>2, <1>3, <2>1, <2>2, <2>3 DEF StateInv
<1>9. SpawnInv'
  <2>1. PidsUnique'
    BY <1>3 DEF IInv, SpawnInv, PidsUnique
  <2>2. spawning[p] \in Pids /\ state'[spawning[p]] = "Ready"
    BY <1>1, <1>2 DEF n
  <2>3. \A q \in Pids : q # p /\ spawning[q] # NoPid =>
          /\ spawning[q] \in Pids
          /\ state'[spawning[q]] = (IF pc'[q] = "push" THEN "Ready" ELSE "New")
    <3>1. SUFFICES ASSUME NEW q \in Pids, q # p, spawning[q] # NoPid
                   PROVE  /\ spawning[q] \in Pids
                          /\ state'[spawning[q]] = (IF pc'[q] = "push" THEN "Ready" ELSE "New")
      OBVIOUS
    <3>2. /\ spawning[q] \in Pids
          /\ state[spawning[q]] = (IF pc[q] = "push" THEN "Ready" ELSE "New")
      BY <3>1 DEF IInv, SpawnInv
    <3>3. state'[spawning[q]] = state[spawning[q]] /\ pc'[q] = pc[q]
      BY <1>2, <1>4, <3>1, <3>2
    <3>4. QED
      BY <3>2, <3>3
  <2>4. \A q \in Pids : spawning'[q] # NoPid =>
          /\ spawning'[q] \in Pids
          /\ state'[spawning'[q]] = (IF pc'[q] = "push" THEN "Ready" ELSE "New")
    BY ZenonT(60), <1>2, <1>3, <2>2, <2>3
  <2>5. QED
    BY ZenonT(60), <2>1, <2>4 DEF SpawnInv
<1>10. RunnableInOnePlace'
  BY ZenonT(60), <1>1, <1>2, <1>3, <1>4 DEF IInv, RunnableInOnePlace, Queued, Popped,
     BeingPushed, n
<1>11. SyscallStackExclusive'
  BY <1>1, <1>2, <1>3, <1>4, Zenon DEF IInv, ControlInv, SyscallStackExclusive,
     InSyscall
<1>12. TimerAcknowledgedBeforeSwitch'
  BY ZenonT(40), <1>1, <1>2, <1>3, <1>4 DEF IInv, TimerAcknowledgedBeforeSwitch
<1>13. QED
  BY <1>5, <1>6, <1>7, <1>8, <1>9, <1>10, <1>11, <1>12 DEF IInv

\* push_ready queues the new process, which was not queued before.
LEMMA PushReadyStep ==
  ASSUME IInv, NEW p \in Pids, PushReady(p)
  PROVE  IInv'
<1> DEFINE n == spawning[p]
<1>1. /\ cpu = p /\ pc[p] = "push" /\ intr[p] = "none"
      /\ n \in Pids /\ state[n] = "Ready" /\ BeingPushed(n) /\ ~Occurs(n, ready)
      /\ ready \in Seq(Pids) /\ NoRepeats(ready)
  BY ZenonT(40) DEF IInv, TypeOK, ControlInv, SpawnInv, RunnableInOnePlace, Queued,
         BeingPushed, PushReady
<1>2. /\ pc'[p] = "unlock" /\ spawning'[p] = NoPid /\ ready' = Append(ready, n)
      /\ \A q \in Pids : q # p => pc'[q] = pc[q] /\ spawning'[q] = spawning[q]
  BY <1>1 DEF IInv, TypeOK, PushReady
<1>3. UNCHANGED <<state, current, ticks, nextPid, cpu, iflag,
                 rsp0, cr3, irr, isr, intr, saved, next,
                 queueLock, exitLock, sysRsp>>
  BY DEF PushReady
<1>4. /\ NoRepeats(Append(ready, n)) /\ Append(ready, n) \in Seq(Pids)
      /\ \A x : Occurs(x, Append(ready, n)) <=> Occurs(x, ready) \/ x = n
  BY SMTT(30), ZenonT(60), <1>1, AppendOccurs, AppendProperties
<1> HIDE DEF n
<1>5. TypeOK'
  BY <1>1, <1>3, <1>4, ZenonT(30) DEF IInv, TypeOK, n, PushReady
<1>6. ControlInv'
  BY ZenonT(40), <1>1, <1>2, <1>3 DEF IInv, ControlInv
<1>7. FlagInv'
  BY ZenonT(40), <1>1, <1>2, <1>3 DEF IInv, ControlInv, FlagInv, CriticalCodeMasked,
     OrdinaryCodeInterruptible
<1>8. StateInv'
  BY ZenonT(60), <1>1, <1>2, <1>3 DEF IInv, ControlInv, StateInv,
     ProcessorMatchesCurrent
<1>9. SpawnInv'
  <2>1. \A q \in Pids : q # p => pc[q] # "push"
    BY <1>1 DEF IInv, ControlInv
  <2>2. PidsUnique'
    BY <1>2, <1>3 DEF IInv, SpawnInv, PidsUnique
  <2>3. QED
    BY <1>2, <1>3, <2>1, <2>2 DEF IInv, SpawnInv
<1>10. RunnableInOnePlace'
  BY <1>1, <1>2, <1>3, <1>4 DEF IInv, RunnableInOnePlace, Queued, Popped,
     BeingPushed, n
<1>11. SyscallStackExclusive'
  BY <1>1, <1>2, <1>3 DEF IInv, ControlInv, SyscallStackExclusive, InSyscall
<1>12. TimerAcknowledgedBeforeSwitch'
  BY ZenonT(60), <1>1, <1>2, <1>3 DEF IInv, TimerAcknowledgedBeforeSwitch
<1>13. QED
  BY <1>5, <1>6, <1>7, <1>8, <1>9, <1>10, <1>11, <1>12 DEF IInv

\* push_ready drops the queue lock and restores IF.
LEMMA PushUnlockStep ==
  ASSUME IInv, NEW p \in Pids, PushUnlock(p)
  PROVE  IInv'
<1>1. /\ cpu = p /\ pc[p] = "unlock"
      /\ pc'[p] = SpawnCaller(p) /\ queueLock' = NoPid
      /\ iflag' <=> IsKernel(p)
  <2>1. cpu = p /\ pc[p] = "unlock" /\ pc \in [Pids -> PCs]
    BY DEF IInv, TypeOK, PushUnlock, At
  <2>2. pc'[p] = SpawnCaller(p) /\ queueLock' = NoPid
    BY <2>1 DEF PushUnlock, Goto
  <2>3. ~iflag /\ (saved[p] <=> IsKernel(p))
    BY Zenon, <2>1 DEF IInv, FlagInv, CriticalCodeMasked
  <2>4. iflag' <=> iflag \/ saved[p]
    BY Zenon DEF PushUnlock
  <2>5. QED
    BY Zenon, <2>1, <2>2, <2>3, <2>4
<1>2. \A q \in Pids : q # p => pc'[q] = pc[q]
  BY DEF IInv, TypeOK, PushUnlock
<1>3. UNCHANGED <<state, ready, current, ticks, nextPid, cpu, rsp0, cr3,
                 irr, isr, intr, saved, next, spawning, exitLock, sysRsp>>
  BY DEF PushUnlock
<1>4. TypeOK'
  BY ZenonT(30) DEF IInv, TypeOK, PushUnlock, SpawnCaller, FlagInv, CriticalCodeMasked,
     SpawnCaller
<1>5. ControlInv'
  BY SMTT(30), ZenonT(60), <1>1, <1>2, <1>3 DEF IInv, ControlInv, SpawnCaller
<1>6. FlagInv'
  BY ZenonT(60), <1>1, <1>2, <1>3 DEF IInv, ControlInv, FlagInv, CriticalCodeMasked,
     OrdinaryCodeInterruptible, SpawnCaller
<1>7. StateInv'
  BY ZenonT(60), <1>1, <1>2, <1>3 DEF IInv, ControlInv, StateInv,
     ProcessorMatchesCurrent, SpawnCaller
<1>8. SpawnInv'
  BY ZenonT(60), <1>1, <1>2, <1>3 DEF IInv, ControlInv, SpawnInv, PidsUnique,
     SpawnCaller
<1>9. RunnableInOnePlace'
  BY <1>1, <1>2, <1>3 DEF IInv, RunnableInOnePlace, Queued, Popped,
     BeingPushed, SpawnCaller
<1>10. SyscallStackExclusive'
  BY <1>1, <1>2, <1>3 DEF IInv, ControlInv, SyscallStackExclusive,
     InSyscall, SpawnCaller
<1>11. TimerAcknowledgedBeforeSwitch'
  BY <1>1, <1>2, <1>3 DEF IInv, TimerAcknowledgedBeforeSwitch, SpawnCaller
<1>12. QED
  BY <1>4, <1>5, <1>6, <1>7, <1>8, <1>9, <1>10, <1>11 DEF IInv

\* The exit syscall is dispatched.
LEMMA SyscallExitStep ==
  ASSUME IInv, NEW p \in Pids, SyscallExit(p)
  PROVE  IInv'
<1>1. /\ cpu = p /\ pc[p] = "syscall"
      /\ pc'[p] = "exit"
  BY ZenonT(60) DEF IInv, TypeOK, ControlInv, SyscallExit
<1>2. \A q \in Pids : q # p => pc'[q] = pc[q]
  BY DEF IInv, TypeOK, SyscallExit
<1>3. UNCHANGED <<state, ready, current, ticks, nextPid, cpu, iflag, rsp0,
                 cr3, irr, isr, intr, saved, next, spawning, queueLock,
                 exitLock, sysRsp>>
  BY DEF SyscallExit
<1>4. TypeOK'
  BY Zenon DEF IInv, TypeOK, SyscallExit
<1>5. ControlInv'
  BY ZenonT(60), <1>1, <1>2, <1>3 DEF IInv, ControlInv
<1>6. FlagInv'
  BY ZenonT(60), <1>1, <1>2, <1>3 DEF IInv, ControlInv, FlagInv, CriticalCodeMasked,
     OrdinaryCodeInterruptible
<1>7. StateInv'
  BY ZenonT(60), <1>1, <1>2, <1>3 DEF IInv, ControlInv, StateInv,
     ProcessorMatchesCurrent
<1>8. SpawnInv'
  BY ZenonT(60), <1>1, <1>2, <1>3 DEF IInv, ControlInv, SpawnInv, PidsUnique
<1>9. RunnableInOnePlace'
  BY <1>1, <1>2, <1>3 DEF IInv, RunnableInOnePlace, Queued, Popped,
     BeingPushed
<1>10. SyscallStackExclusive'
  BY <1>1, <1>2, <1>3 DEF IInv, ControlInv, SyscallStackExclusive, InSyscall
<1>11. TimerAcknowledgedBeforeSwitch'
  BY <1>1, <1>2, <1>3 DEF IInv, TimerAcknowledgedBeforeSwitch
<1>12. QED
  BY <1>4, <1>5, <1>6, <1>7, <1>8, <1>9, <1>10, <1>11 DEF IInv

\* The exit syscall takes EXIT_CURRENT.
LEMMA ExitLockStep ==
  ASSUME IInv, NEW p \in Pids, ExitLock(p)
  PROVE  IInv'
<1>1. /\ cpu = p /\ pc[p] = "exit"
      /\ pc'[p] = "exiting"
  BY ZenonT(60) DEF IInv, TypeOK, ControlInv, ExitLock
<1>2. \A q \in Pids : q # p => pc'[q] = pc[q]
  BY DEF IInv, TypeOK, ExitLock
<1>3. UNCHANGED <<state, ready, current, ticks, nextPid, cpu, iflag, rsp0,
                 cr3, irr, isr, intr, saved, next, spawning, queueLock,
                 sysRsp>>
  BY DEF ExitLock
<1>4. TypeOK'
  BY Zenon DEF IInv, TypeOK, ExitLock
<1>5. ControlInv'
  BY ZenonT(60), <1>1, <1>2, <1>3 DEF IInv, ControlInv
<1>6. FlagInv'
  BY ZenonT(60), <1>1, <1>2, <1>3 DEF IInv, ControlInv, FlagInv, CriticalCodeMasked,
     OrdinaryCodeInterruptible
<1>7. StateInv'
  BY ZenonT(60), <1>1, <1>2, <1>3 DEF IInv, ControlInv, StateInv,
     ProcessorMatchesCurrent
<1>8. SpawnInv'
  BY ZenonT(60), <1>1, <1>2, <1>3 DEF IInv, ControlInv, SpawnInv, PidsUnique
<1>9. RunnableInOnePlace'
  BY <1>1, <1>2, <1>3 DEF IInv, RunnableInOnePlace, Queued, Popped,
     BeingPushed
<1>10. SyscallStackExclusive'
  BY <1>1, <1>2, <1>3, ZenonT(30) DEF IInv, ControlInv, SyscallStackExclusive, InSyscall
<1>11. TimerAcknowledgedBeforeSwitch'
  BY <1>1, <1>2, <1>3 DEF IInv, TimerAcknowledgedBeforeSwitch
<1>12. QED
  BY <1>4, <1>5, <1>6, <1>7, <1>8, <1>9, <1>10, <1>11 DEF IInv

\* exit_current marks the process, which is current, as Exited.
LEMMA ExitCurrentStep ==
  ASSUME IInv, NEW p \in Pids, ExitCurrent(p)
  PROVE  IInv'
<1>1. /\ cpu = p /\ pc[p] = "exiting" /\ intr[p] = "none" /\ current = p
      /\ state[p] = "Running" /\ ~IsKernel(p) /\ ~iflag
  BY ZenonT(40) DEF IInv, TypeOK, ControlInv, StateInv, ProcessorMatchesCurrent,
         FlagInv, CriticalCodeMasked, ExitCurrent
<1>2. /\ pc'[p] = "sched" /\ state'[p] = "Exited" /\ iflag' = FALSE
      /\ \A q \in Pids : q # p => pc'[q] = pc[q] /\ state'[q] = state[q]
  BY <1>1, Zenon DEF IInv, TypeOK, ExitCurrent
<1>3. UNCHANGED <<ready, current, ticks, nextPid, cpu, rsp0,
                 cr3, irr, isr, intr, saved, next,
                 spawning, queueLock, exitLock, sysRsp>>
  BY DEF ExitCurrent
<1>4. TypeOK'
  BY ZenonT(40), <1>1, <1>3 DEF IInv, TypeOK, ExitCurrent
<1>5. ControlInv'
  BY ZenonT(60), <1>1, <1>2, <1>3 DEF IInv, ControlInv
<1>6. FlagInv'
  BY ZenonT(60), <1>1, <1>2, <1>3 DEF IInv, ControlInv, FlagInv, CriticalCodeMasked,
     OrdinaryCodeInterruptible
<1>7. StateInv'
  <2>1. ProcessorMatchesCurrent'
    BY <1>1, <1>2, <1>3, ZenonT(30) DEF IInv, StateInv, ProcessorMatchesCurrent
  <2>2. state'[Boot] \in {"Ready", "Running"}
    BY <1>1, <1>2 DEF IInv, StateInv
  <2>3. \A q \in Pids :
          /\ state'[q] = "Exited" => intr'[q] = "none" /\ ~IsKernel(q)
          /\ state'[q] = "New" => pc'[q] = "new" /\ q # cpu'
          /\ q >= nextPid' => state'[q] = "New"
    BY <1>1, <1>2, <1>3 DEF IInv, StateInv
  <2>4. QED
    BY <1>1, <1>2, <1>3, <2>1, <2>2, <2>3 DEF StateInv
<1>8. SpawnInv'
  <2>1. PidsUnique'
    BY <1>3 DEF IInv, SpawnInv, PidsUnique
  <2>2. \A q \in Pids : spawning[q] # NoPid =>
          /\ spawning[q] \in Pids
          /\ state[spawning[q]] = IF pc[q] = "push" THEN "Ready" ELSE "New"
    BY DEF IInv, SpawnInv
  <2>3. \A q \in Pids : spawning[q] # NoPid => spawning[q] # p
    BY <1>1, <2>2
  <2>4. \A q \in Pids : (pc'[q] = "push") <=> (pc[q] = "push")
    BY <1>1, <1>2
  <2>5. QED
    BY <1>2, <1>3, <2>1, <2>2, <2>3, <2>4 DEF SpawnInv
<1>9. RunnableInOnePlace'
  BY <1>1, <1>2, <1>3 DEF IInv, RunnableInOnePlace, Queued, Popped,
     BeingPushed
<1>10. SyscallStackExclusive'
  BY <1>1, <1>2, <1>3 DEF IInv, ControlInv, SyscallStackExclusive, InSyscall
<1>11. TimerAcknowledgedBeforeSwitch'
  BY <1>1, <1>2, <1>3 DEF IInv, TimerAcknowledgedBeforeSwitch
<1>12. QED
  BY <1>4, <1>5, <1>6, <1>7, <1>8, <1>9, <1>10, <1>11 DEF IInv

\* A process starts in its own kind of code, with IF set.
LEMMA BootstrapStep ==
  ASSUME IInv, NEW p \in Pids, Bootstrap(p)
  PROVE  IInv'
<1>1. /\ cpu = p /\ pc[p] = "new"
      /\ pc'[p] = IF IsKernel(p) THEN "kernel" ELSE "user"
      /\ intr[p] = "none" /\ iflag' = TRUE
  BY ZenonT(60) DEF IInv, TypeOK, ControlInv, Bootstrap
<1>2. \A q \in Pids : q # p => pc'[q] = pc[q]
  BY DEF IInv, TypeOK, Bootstrap
<1>3. UNCHANGED <<state, ready, current, ticks, nextPid, cpu, rsp0, cr3,
                 irr, isr, intr, saved, next, spawning, queueLock,
                 exitLock, sysRsp>>
  BY DEF Bootstrap
<1>4. TypeOK'
  BY Zenon DEF IInv, TypeOK, Bootstrap
<1>5. ControlInv'
  BY ZenonT(60), <1>1, <1>2, <1>3 DEF IInv, ControlInv
<1>6. FlagInv'
  BY ZenonT(60), <1>1, <1>2, <1>3 DEF IInv, ControlInv, FlagInv, CriticalCodeMasked,
     OrdinaryCodeInterruptible
<1>7. StateInv'
  BY ZenonT(60), <1>1, <1>2, <1>3 DEF IInv, ControlInv, StateInv,
     ProcessorMatchesCurrent
<1>8. SpawnInv'
  BY ZenonT(60), <1>1, <1>2, <1>3 DEF IInv, ControlInv, SpawnInv, PidsUnique
<1>9. RunnableInOnePlace'
  BY <1>1, <1>2, <1>3 DEF IInv, RunnableInOnePlace, Queued, Popped,
     BeingPushed
<1>10. SyscallStackExclusive'
  BY <1>1, <1>2, <1>3 DEF IInv, ControlInv, SyscallStackExclusive, InSyscall
<1>11. TimerAcknowledgedBeforeSwitch'
  BY <1>1, <1>2, <1>3 DEF IInv, TimerAcknowledgedBeforeSwitch
<1>12. QED
  BY <1>4, <1>5, <1>6, <1>7, <1>8, <1>9, <1>10, <1>11 DEF IInv

\* A kernel task calls schedule() with IF set.
LEMMA YieldNowStep ==
  ASSUME IInv, NEW p \in Pids, YieldNow(p)
  PROVE  IInv'
<1>1. /\ cpu = p /\ pc[p] = "kernel"
      /\ pc'[p] = "sched" /\ intr[p] = "none" /\ IsKernel(p)
  BY ZenonT(40) DEF IInv, TypeOK, ControlInv, YieldNow
<1>2. \A q \in Pids : q # p => pc'[q] = pc[q]
  BY DEF IInv, TypeOK, YieldNow
<1>3. UNCHANGED <<state, ready, current, ticks, nextPid, cpu, iflag, rsp0,
                 cr3, irr, isr, intr, saved, next, spawning, queueLock,
                 exitLock, sysRsp>>
  BY DEF YieldNow
<1>4. TypeOK'
  BY Zenon DEF IInv, TypeOK, YieldNow
<1>5. ControlInv'
  BY ZenonT(60), <1>1, <1>2, <1>3 DEF IInv, ControlInv
<1>6. FlagInv'
  BY ZenonT(40), <1>1, <1>2, <1>3 DEF IInv, ControlInv, FlagInv, CriticalCodeMasked,
     OrdinaryCodeInterruptible, StateInv, ProcessorMatchesCurrent
<1>7. StateInv'
  BY ZenonT(60), <1>1, <1>2, <1>3 DEF IInv, ControlInv, StateInv,
     ProcessorMatchesCurrent
<1>8. SpawnInv'
  BY ZenonT(60), <1>1, <1>2, <1>3 DEF IInv, ControlInv, SpawnInv, PidsUnique
<1>9. RunnableInOnePlace'
  BY <1>1, <1>2, <1>3 DEF IInv, RunnableInOnePlace, Queued, Popped,
     BeingPushed
<1>10. SyscallStackExclusive'
  BY <1>1, <1>2, <1>3 DEF IInv, ControlInv, SyscallStackExclusive, InSyscall
<1>11. TimerAcknowledgedBeforeSwitch'
  BY <1>1, <1>2, <1>3 DEF IInv, TimerAcknowledgedBeforeSwitch
<1>12. QED
  BY <1>4, <1>5, <1>6, <1>7, <1>8, <1>9, <1>10, <1>11 DEF IInv

\* A syscall starts with IF cleared, on the shared stack.
LEMMA SyscallEntryStep ==
  ASSUME IInv, NEW p \in Pids, SyscallEntry(p)
  PROVE  IInv'
<1>1. /\ cpu = p /\ pc[p] = "user"
      /\ pc'[p] = "syscall" /\ intr[p] = "none" /\ iflag' = FALSE
      /\ sysRsp' = p /\ ~IsKernel(p)
  BY ZenonT(40) DEF IInv, TypeOK, ControlInv, SyscallEntry
<1>2. \A q \in Pids : q # p => pc'[q] = pc[q]
  BY DEF IInv, TypeOK, SyscallEntry
<1>3. UNCHANGED <<state, ready, current, ticks, nextPid, cpu, rsp0, cr3,
                 irr, isr, intr, saved, next, spawning, queueLock,
                 exitLock>>
  BY DEF SyscallEntry
<1>4. TypeOK'
  BY ZenonT(40) DEF IInv, TypeOK, SyscallEntry
<1>5. ControlInv'
  BY ZenonT(60), <1>1, <1>2, <1>3 DEF IInv, ControlInv
<1>6. FlagInv'
  BY ZenonT(40), <1>1, <1>2, <1>3 DEF IInv, ControlInv, FlagInv, CriticalCodeMasked,
     OrdinaryCodeInterruptible
<1>7. StateInv'
  BY ZenonT(60), <1>1, <1>2, <1>3 DEF IInv, ControlInv, StateInv,
     ProcessorMatchesCurrent
<1>8. SpawnInv'
  BY ZenonT(60), <1>1, <1>2, <1>3 DEF IInv, ControlInv, SpawnInv, PidsUnique
<1>9. RunnableInOnePlace'
  BY <1>1, <1>2, <1>3 DEF IInv, RunnableInOnePlace, Queued, Popped,
     BeingPushed
<1>10. SyscallStackExclusive'
  BY <1>1, <1>2, <1>3, ZenonT(30) DEF IInv, ControlInv, SyscallStackExclusive, InSyscall
<1>11. TimerAcknowledgedBeforeSwitch'
  BY <1>1, <1>2, <1>3 DEF IInv, TimerAcknowledgedBeforeSwitch
<1>12. QED
  BY <1>4, <1>5, <1>6, <1>7, <1>8, <1>9, <1>10, <1>11 DEF IInv

\* A syscall returns to ring 3 with IF set.
LEMMA SyscallReturnStep ==
  ASSUME IInv, NEW p \in Pids, SyscallReturn(p)
  PROVE  IInv'
<1>1. /\ cpu = p /\ pc[p] = "syscall"
      /\ pc'[p] = "user" /\ intr[p] = "none" /\ iflag' = TRUE
  BY ZenonT(40) DEF IInv, TypeOK, ControlInv, SyscallReturn
<1>2. \A q \in Pids : q # p => pc'[q] = pc[q]
  BY Zenon DEF IInv, TypeOK, SyscallReturn
<1>3. UNCHANGED <<state, ready, current, ticks, nextPid, cpu, rsp0, cr3,
                 irr, isr, intr, saved, next, spawning, queueLock,
                 exitLock, sysRsp>>
  BY DEF SyscallReturn
<1>4. TypeOK'
  BY ZenonT(30) DEF IInv, TypeOK, SyscallReturn
<1>5. ControlInv'
  BY ZenonT(60), <1>1, <1>2, <1>3 DEF IInv, ControlInv
<1>6. FlagInv'
  BY ZenonT(40), <1>1, <1>2, <1>3 DEF IInv, ControlInv, FlagInv, CriticalCodeMasked,
     OrdinaryCodeInterruptible
<1>7. StateInv'
  BY ZenonT(40), <1>1, <1>2, <1>3 DEF IInv, ControlInv, StateInv,
     ProcessorMatchesCurrent
<1>8. SpawnInv'
  BY ZenonT(60), <1>1, <1>2, <1>3 DEF IInv, ControlInv, SpawnInv, PidsUnique
<1>9. RunnableInOnePlace'
  BY <1>1, <1>2, <1>3 DEF IInv, RunnableInOnePlace, Queued, Popped,
     BeingPushed
<1>10. SyscallStackExclusive'
  BY <1>1, <1>2, <1>3, ZenonT(30) DEF IInv, ControlInv, SyscallStackExclusive, InSyscall
<1>11. TimerAcknowledgedBeforeSwitch'
  BY <1>1, <1>2, <1>3 DEF IInv, TimerAcknowledgedBeforeSwitch
<1>12. QED
  BY <1>4, <1>5, <1>6, <1>7, <1>8, <1>9, <1>10, <1>11 DEF IInv

\* The kernel as kernel_main leaves it satisfies the invariant.
LEMMA InitInv == Init => IInv
<1> SUFFICES ASSUME Init PROVE IInv
  OBVIOUS
<1>1. /\ ready \in Seq(Pids) /\ Len(ready) = BootUsers
      /\ \A i \in 1..BootUsers : ready[i] = i
  <2>1. \A i \in 1..BootUsers : i \in Pids
    OBVIOUS
  <2>2. ready \in [1..BootUsers -> Pids]
    BY <2>1 DEF Init
  <2>3. QED
    BY <2>2, SeqDef DEF Init
<1>2. TypeOK
  BY SMTT(30), ZenonT(60), <1>1 DEF Init, TypeOK
<1>3. ControlInv
  BY DEF Init, ControlInv
<1>4. FlagInv
  BY SMTT(30), ZenonT(60) DEF Init, FlagInv, CriticalCodeMasked, OrdinaryCodeInterruptible
<1>5. StateInv
  BY SMTT(30), ZenonT(60) DEF Init, StateInv, ProcessorMatchesCurrent
<1>6. SpawnInv
  BY DEF Init, SpawnInv, PidsUnique
<1>7. RunnableInOnePlace
  <2>1. NoRepeats(ready) /\ \A q : Occurs(q, ready) <=> q \in 1..BootUsers
    BY <1>1 DEF NoRepeats, Occurs
  <2>2. \A q \in Pids : state[q] = "Ready" <=> q \in 1..BootUsers
    BY DEF Init
  <2>3. pc[cpu] = "kernel"
    BY DEF Init
  <2>4. QED
    BY <2>1, <2>2, <2>3 DEF RunnableInOnePlace, Queued, Popped, BeingPushed
<1>8. SyscallStackExclusive /\ TimerAcknowledgedBeforeSwitch
  BY DEF Init, SyscallStackExclusive, InSyscall, TimerAcknowledgedBeforeSwitch
<1>9. QED
  BY <1>2, <1>3, <1>4, <1>5, <1>6, <1>7, <1>8 DEF IInv

\* A request that reaches the PIC, or nothing at all, changes no process.
LEMMA RequestStep ==
  ASSUME IInv, irr' \subseteq Irqs,
         UNCHANGED <<state, ready, current, ticks, nextPid, cpu, iflag, rsp0, cr3,
                     isr, pc, intr, saved, next, spawning, queueLock, exitLock, sysRsp>>
  PROVE  IInv'
<1>1. TypeOK'
  BY ZenonT(30) DEF IInv, TypeOK
<1>2. ControlInv'
  BY Zenon DEF IInv, ControlInv
<1>3. FlagInv'
  BY ZenonT(40) DEF IInv, ControlInv, FlagInv, CriticalCodeMasked,
     OrdinaryCodeInterruptible
<1>4. StateInv'
  BY ZenonT(40) DEF IInv, ControlInv, StateInv, ProcessorMatchesCurrent
<1>5. SpawnInv'
  BY ZenonT(30) DEF IInv, ControlInv, SpawnInv, PidsUnique
<1>6. RunnableInOnePlace'
  BY ZenonT(40) DEF IInv, RunnableInOnePlace, Queued, Popped, BeingPushed
<1>7. SyscallStackExclusive'
  BY DEF IInv, ControlInv, SyscallStackExclusive, InSyscall
<1>8. TimerAcknowledgedBeforeSwitch'
  BY DEF IInv, TimerAcknowledgedBeforeSwitch
<1>9. QED
  BY ZenonT(60), <1>1, <1>2, <1>3, <1>4, <1>5, <1>6, <1>7, <1>8 DEF IInv
\* Every step of the kernel, its devices and its programs preserves IInv.
LEMMA NextInv == IInv /\ [Next]_vars => IInv'
<1> SUFFICES ASSUME IInv, [Next]_vars PROVE IInv'
  OBVIOUS
<1>1. ASSUME NEW i \in Irqs, Raise(i) PROVE IInv'
  BY ZenonT(40), <1>1, RequestStep DEF Raise, IInv, TypeOK
<1>2. CASE UNCHANGED vars
  BY ZenonT(40), <1>2, RequestStep DEF IInv, TypeOK
<1>3. ASSUME NEW p \in Pids, NEW i \in Irqs, Interrupt(p, i) PROVE IInv'
  BY <1>3, InterruptStep
<1>4. ASSUME NEW p \in Pids, IrqHandler(p) PROVE IInv'
  BY <1>4, TimerIrqStep, DeviceIrqStep, OnTimerTickStep, InterruptReturnStep
     DEF IrqHandler
<1>5. ASSUME NEW p \in Pids, Schedule(p) PROVE IInv'
  BY <1>5, SchedEnterStep, SchedPopStep, SchedRequeueStep, SchedInstallStep,
     SwitchContextStep, SchedReturnStep DEF Schedule
<1>6. ASSUME NEW p \in Pids, Spawn(p) PROVE IInv'
  BY <1>6, SpawnBeginStep, SpawnNoMemoryStep, PushLockStep, PushReadyStep,
     PushUnlockStep DEF Spawn
<1>7. ASSUME NEW p \in Pids, Exit(p) PROVE IInv'
  BY <1>2, <1>7, SyscallExitStep, ExitLockStep, ExitCurrentStep DEF Exit, ExitSpin
<1>8. ASSUME NEW p \in Pids,
             Bootstrap(p) \/ YieldNow(p) \/ SyscallEntry(p) \/ SyscallReturn(p)
      PROVE  IInv'
  BY <1>8, BootstrapStep, YieldNowStep, SyscallEntryStep, SyscallReturnStep
<1>9. QED
  BY <1>1, <1>2, <1>3, <1>4, <1>5, <1>6, <1>7, <1>8 DEF Next

\* The scheduler's inductive invariant holds in every reachable state.
THEOREM Invariance == Spec => []IInv
<1>1. QED
  BY InitInv, NextInv, PTL DEF Spec

\* All variables keep their types.
THEOREM TypeCorrect == Spec => []TypeOK
<1>1. IInv => TypeOK
  BY DEF IInv
<1>2. QED
  BY <1>1, Invariance, PTL

\* A runnable process is in READY_QUEUE exactly once, or in the hands of the
\* one schedule() or push_ready that moves it; nothing else is queued.
THEOREM QueueCorrect == Spec => []RunnableInOnePlace
<1>1. IInv => RunnableInOnePlace
  BY DEF IInv
<1>2. QED
  BY <1>1, Invariance, PTL

\* Interrupts find neither the scheduler nor a lock holder nor a syscall
\* half way, and ordinary code always runs with IF set.
THEOREM InterruptFlagCorrect ==
  Spec => [](CriticalCodeMasked /\ OrdinaryCodeInterruptible)
<1>1. IInv => CriticalCodeMasked /\ OrdinaryCodeInterruptible
  BY DEF IInv, FlagInv
<1>2. QED
  BY <1>1, Invariance, PTL

\* CURRENT, TSS.rsp0 and CR3 agree with the process on the CPU.
THEOREM ProcessorCorrect == Spec => []ProcessorMatchesCurrent
<1>1. IInv => ProcessorMatchesCurrent
  BY DEF IInv, StateInv
<1>2. QED
  BY <1>1, Invariance, PTL

\* One syscall stack suffices: no process is switched out inside a syscall
\* it will return from.
THEOREM SyscallStackCorrect == Spec => []SyscallStackExclusive
<1>1. IInv => SyscallStackExclusive
  BY DEF IInv
<1>2. QED
  BY <1>1, Invariance, PTL

\* exit_current never falls through to its hlt loop.
THEOREM ExitCorrect == Spec => []ExitAlwaysSwitches
<1>1. IInv => ExitAlwaysSwitches
  BY DEF IInv, ControlInv, ExitAlwaysSwitches
<1>2. QED
  BY <1>1, Invariance, PTL

\* No two spawns get the same pid.
THEOREM PidsCorrect == Spec => []PidsUnique
<1>1. IInv => PidsUnique
  BY DEF IInv, SpawnInv
<1>2. QED
  BY <1>1, Invariance, PTL

(***************************************************************************)
(* The scheduler implements RoundRobin, and the CPU goes to live processes *)
(* only.  Both rest on IInv and on one more fact about schedule(): what    *)
(* SchedRequeue has queued is still last when SchedInstall commits.        *)
(***************************************************************************)
\* Between SchedRequeue and SchedInstall the old process is last in line.
RequeuedLast ==
  pc[cpu] = "install" /\ state[current] = "Ready" =>
    ready # <<>> /\ ready[Len(ready)] = current

\* Where the promised queue and processes differ from the kernel's data.
MidMove == {"requeue", "install", "push"}

\* The steps that the promise does not see.
Idle ==
  /\ UNCHANGED <<state, ready, current, cpu>>
  /\ \/ UNCHANGED <<pc, next, spawning>>
     \/ pc[cpu] \notin MidMove /\ pc'[cpu] \notin MidMove

HIDE DEF ScheduleBody, HandlerPCs

\* All but seven steps leave queue, states and CPU alone.
LEMMA StepKinds ==
  ASSUME IInv, [Next]_vars
  PROVE  \/ Idle
         \/ \E p \in Pids : \/ SchedPop(p) \/ SchedRequeue(p) \/ SchedInstall(p)
                            \/ SwitchContext(p) \/ ExitCurrent(p)
                            \/ PushLock(p) \/ PushReady(p)
<1>1. CASE UNCHANGED vars BY <1>1 DEF Idle
<1>2. ASSUME NEW i \in Irqs, Raise(i) PROVE Idle BY <1>2 DEF Raise, Idle
<1>3. ASSUME NEW p \in Pids, NEW i \in Irqs, Interrupt(p, i) PROVE Idle
  BY <1>3, Zenon DEF Interrupt, Idle, MidMove, IInv, TypeOK, FlagInv, CriticalCodeMasked
<1>4. ASSUME NEW p \in Pids, IrqHandler(p) PROVE Idle
  <2>1. CASE TimerIrq(p) BY <2>1, ZenonT(30) DEF TimerIrq, Idle, MidMove, IInv, TypeOK
  <2>2. CASE DeviceIrq(p) BY <2>2, ZenonT(30) DEF DeviceIrq, Idle, MidMove, IInv, TypeOK
  <2>3. CASE OnTimerTick(p) BY <2>3, ZenonT(30) DEF OnTimerTick, Idle, MidMove, IInv, TypeOK
  <2>4. CASE InterruptReturn(p)
    <3>1. intr[p] \notin MidMove /\ pc \in [Pids -> PCs]
      BY ZenonT(30) DEF MidMove, IInv, TypeOK, ControlInv
    <3>2. QED BY <2>4, <3>1 DEF InterruptReturn, Idle, MidMove
  <2>5. QED BY <1>4, <2>1, <2>2, <2>3, <2>4 DEF IrqHandler
<1>5. ASSUME NEW p \in Pids, SchedEnter(p) \/ SchedReturn(p) PROVE Idle
  <2>1. CASE SchedEnter(p) BY <2>1, Zenon DEF SchedEnter, Idle, MidMove, IInv, TypeOK
  <2>2. CASE SchedReturn(p) BY <2>2, Zenon DEF SchedReturn, Idle, MidMove, IInv, TypeOK
  <2>3. QED BY <1>5, <2>1, <2>2
<1>6. ASSUME NEW p \in Pids, SpawnBegin(p) \/ SpawnNoMemory(p) \/ PushUnlock(p) PROVE Idle
  <2>1. CASE SpawnBegin(p) BY <2>1, ZenonT(30) DEF SpawnBegin, SpawnCaller, Idle, MidMove, IInv, TypeOK
  <2>2. CASE SpawnNoMemory(p) BY <2>2, ZenonT(30) DEF SpawnNoMemory, SpawnCaller, Idle, MidMove, IInv, TypeOK
  <2>3. CASE PushUnlock(p) BY <2>3, Zenon DEF PushUnlock, SpawnCaller, Idle, MidMove, IInv, TypeOK
  <2>4. QED BY <1>6, <2>1, <2>2, <2>3
<1>7. ASSUME NEW p \in Pids, SyscallExit(p) \/ ExitLock(p) \/ ExitSpin(p) PROVE Idle
  <2>1. CASE SyscallExit(p) BY <2>1, ZenonT(30) DEF SyscallExit, Idle, MidMove, IInv, TypeOK
  <2>2. CASE ExitLock(p) BY <2>2 DEF ExitLock, Idle, MidMove, IInv, TypeOK
  <2>3. CASE ExitSpin(p) BY <2>3 DEF ExitSpin, Idle
  <2>4. QED BY <1>7, <2>1, <2>2, <2>3
<1>8. ASSUME NEW p \in Pids,
             Bootstrap(p) \/ YieldNow(p) \/ SyscallEntry(p) \/ SyscallReturn(p)
      PROVE  Idle
  <2>1. CASE Bootstrap(p) BY <2>1, ZenonT(30) DEF Bootstrap, Idle, MidMove, IInv, TypeOK
  <2>2. CASE YieldNow(p) BY <2>2, ZenonT(30) DEF YieldNow, Idle, MidMove, IInv, TypeOK
  <2>3. CASE SyscallEntry(p) BY <2>3, ZenonT(30) DEF SyscallEntry, Idle, MidMove, IInv, TypeOK
  <2>4. CASE SyscallReturn(p) BY <2>4, ZenonT(30) DEF SyscallReturn, Idle, MidMove, IInv, TypeOK
  <2>5. QED BY <1>8, <2>1, <2>2, <2>3, <2>4
<1>9. QED
  BY <1>1, <1>2, <1>3, <1>4, <1>5, <1>6, <1>7, <1>8, ZenonT(30) DEF Next, Schedule, Spawn, Exit

\* Interrupts are off in schedule(), so nobody queues behind its back.
LEMMA RequeuedLastStep ==
  ASSUME IInv, RequeuedLast, [Next]_vars
  PROVE  RequeuedLast'
<1>1. SUFFICES ASSUME pc'[cpu'] = "install", state'[current'] = "Ready"
               PROVE  ready' # <<>> /\ ready'[Len(ready')] = current'
  BY DEF RequeuedLast
<1>2. CASE Idle BY <1>1, <1>2 DEF Idle, MidMove, RequeuedLast
<1>3. ASSUME NEW p \in Pids, SchedRequeue(p)
      PROVE  ready' # <<>> /\ ready'[Len(ready')] = current'
  <2>1. cpu = p /\ pc[p] = "requeue" /\ current = p /\ current' = current
    BY <1>3, ZenonT(30) DEF SchedRequeue, IInv, StateInv, ProcessorMatchesCurrent
  <2>2. state[current] = "Running"
    BY <1>1, <1>3, <2>1, ZenonT(30) DEF SchedRequeue, IInv, StateInv
  <2>3. ready' = Append(ready, current) /\ ready \in Seq(Pids) /\ current \in Pids
    BY <1>3, <2>2, ZenonT(30) DEF SchedRequeue, IInv, TypeOK
  <2>4. QED BY <2>1, <2>3, AppendProperties, EmptySeq
<1>4. ASSUME NEW p \in Pids,
             \/ SchedPop(p) \/ SchedInstall(p) \/ ExitCurrent(p)
             \/ PushLock(p) \/ PushReady(p)
      PROVE  pc'[cpu'] # "install"
  <2>1. pc \in [Pids -> PCs] BY DEF IInv, TypeOK
  <2>2. CASE SchedPop(p) BY <2>1, <2>2 DEF SchedPop
  <2>3. CASE SchedInstall(p) BY <2>1, <2>3 DEF SchedInstall
  <2>4. CASE ExitCurrent(p) BY <2>1, <2>4 DEF ExitCurrent
  <2>5. CASE PushLock(p) BY <2>1, <2>5 DEF PushLock
  <2>6. CASE PushReady(p) BY <2>1, <2>6 DEF PushReady
  <2>7. QED BY <1>4, <2>2, <2>3, <2>4, <2>5, <2>6
<1>5. ASSUME NEW p \in Pids, SwitchContext(p) PROVE pc'[cpu'] # "install"
  <2>1. next[p] = current /\ current \in Pids /\ current # p /\ cpu = p
    <3>1. cpu = p /\ pc[p] = "switch" BY <1>5 DEF SwitchContext
    <3>2. current = next[cpu] /\ cpu # current
      BY <3>1, Zenon DEF IInv, StateInv, ProcessorMatchesCurrent
    <3>3. current \in Pids BY ZenonT(30) DEF IInv, TypeOK
    <3>4. QED BY <3>1, <3>2, <3>3
  <2>2. pc[current] \in {"new", "restore"} BY <2>1 DEF IInv, ControlInv
  <2>3. QED BY <1>5, <2>1, <2>2, ZenonT(30) DEF SwitchContext, IInv, TypeOK
<1>6. QED BY <1>1, <1>2, <1>3, <1>4, <1>5, StepKinds

\* What schedule() has popped is Ready, and neither on the CPU nor queued.
LEMMA PoppedReady ==
  ASSUME IInv, pc[cpu] \in {"requeue", "install"}
  PROVE  /\ next[cpu] \in Pids /\ next[cpu] # cpu /\ cpu = current
         /\ state[next[cpu]] = "Ready" /\ ready \in Seq(Pids)
<1>1. next[cpu] \in Pids /\ next[cpu] # cpu /\ cpu = current /\ ready \in Seq(Pids)
  <2>1. /\ cpu \in Pids /\ ready \in Seq(Pids)
        /\ next[cpu] \in Pids \cup {NoPid}
    BY DEF IInv, TypeOK, OptPids
  <2>2. next[cpu] # NoPid BY <2>1, Zenon DEF IInv, ControlInv
  <2>3. next[cpu] # cpu /\ cpu = current BY Zenon DEF IInv, StateInv, ProcessorMatchesCurrent
  <2>4. QED BY <2>1, <2>2, <2>3
<1>2. Popped(next[cpu]) BY Zenon DEF Popped
<1>3. QED BY <1>1, <1>2 DEF IInv, RunnableInOnePlace

-----------------------------------------------------------------------------
\* The two readings of PromisedAdmitted.
LEMMA AdmittedElsewhere ==
  ASSUME pc[cpu] # "push"
  PROVE  PromisedAdmitted = {p \in Pids : state[p] # "New"}
BY DEF PromisedAdmitted

\* The three readings of PromisedQueue.
LEMMA QueueElsewhere ==
  ASSUME pc[cpu] \notin {"requeue", "install"}
  PROVE  PromisedQueue = ready
BY DEF PromisedQueue

LEMMA QueueAtRequeue ==
  ASSUME pc[cpu] = "requeue"
  PROVE  PromisedQueue = <<next[cpu]>> \o ready
BY DEF PromisedQueue

LEMMA QueueAtInstall ==
  ASSUME pc[cpu] = "install"
  PROVE  PromisedQueue =
           <<next[cpu]>> \o (IF state[current] = "Ready" THEN AllButLast(ready) ELSE ready)
BY DEF PromisedQueue

\* Steps outside a move of the queue change neither promise.
LEMMA IdleStutters ==
  ASSUME Idle
  PROVE  UNCHANGED <<current, PromisedQueue, PromisedAdmitted>>
<1>1. UNCHANGED <<state, ready, current, cpu>> BY DEF Idle
<1>2. CASE UNCHANGED <<pc, next, spawning>>
  BY <1>1, <1>2 DEF PromisedQueue, PromisedAdmitted
<1>3. CASE pc[cpu] \notin MidMove /\ pc'[cpu] \notin MidMove
  <2>1. PromisedQueue = ready /\ PromisedAdmitted = {p \in Pids : state[p] # "New"}
    BY <1>3, QueueElsewhere, AdmittedElsewhere DEF MidMove
  <2>2. PromisedQueue' = ready' /\ PromisedAdmitted' = {p \in Pids : state'[p] # "New"}
    BY <1>1, <1>3 DEF MidMove, PromisedQueue, PromisedAdmitted
  <2>3. QED BY <1>1, <2>1, <2>2
<1>4. QED BY <1>2, <1>3 DEF Idle

\* A popped process still counts as the head of the queue.
LEMMA PopStutters ==
  ASSUME IInv, NEW p \in Pids, SchedPop(p)
  PROVE  UNCHANGED <<current, PromisedQueue, PromisedAdmitted>>
<1>1. /\ cpu = p /\ pc[p] = "pop" /\ UNCHANGED <<state, current, cpu, spawning>>
      /\ pc' = [pc EXCEPT ![p] = pc'[p]]
      /\ pc'[p] \in {"restore", "requeue"}
      /\ pc'[p] = "restore" /\ ready = <<>> => ready' = ready
      /\ ready \in Seq(Pids)
  BY ZenonT(30) DEF SchedPop, IInv, TypeOK
<1>2. PromisedQueue = ready /\ PromisedAdmitted = {q \in Pids : state[q] # "New"}
  BY <1>1, QueueElsewhere, AdmittedElsewhere
<1>3. PromisedAdmitted' = {q \in Pids : state[q] # "New"}
  BY <1>1 DEF PromisedAdmitted
<1>4. PromisedQueue' = ready
  <2>1. CASE ready = <<>>
    <3>1. pc' = [pc EXCEPT ![p] = "restore"] /\ ready' = ready BY <2>1 DEF SchedPop
    <3>2. pc \in [Pids -> PCs] BY DEF IInv, TypeOK
    <3>3. pc'[p] = "restore" BY <3>1, <3>2
    <3>4. QED BY <1>1, <3>1, <3>3 DEF PromisedQueue
  <2>2. CASE ready # <<>>
    <3>1. Head(ready) # current
      <4>1. Head(ready) = ready[1] /\ 1 \in 1..Len(ready) /\ Head(ready) \in Pids
        BY <1>1, <2>2, HeadTailProperties, EmptySeq, LenProperties
      <4>2. state[Head(ready)] = "Ready"
        BY <4>1 DEF IInv, RunnableInOnePlace, Queued, Occurs
      <4>3. state[current] \in {"Running", "Exited"}
        BY <1>1 DEF IInv, StateInv, ProcessorMatchesCurrent
      <4>4. QED BY <4>2, <4>3
    <3>2. /\ ready' = Tail(ready) /\ pc'[p] = "requeue" /\ next'[p] = Head(ready)
      <4>1. /\ ready' = Tail(ready) /\ pc' = [pc EXCEPT ![p] = "requeue"]
            /\ next' = [next EXCEPT ![p] = Head(ready)]
        BY <2>2, <3>1 DEF SchedPop
      <4>2. pc \in [Pids -> PCs] /\ next \in [Pids -> OptPids] BY DEF IInv, TypeOK
      <4>3. QED BY <4>1, <4>2
    <3>3. PromisedQueue' = <<Head(ready)>> \o Tail(ready)
      BY <1>1, <3>2 DEF PromisedQueue
    <3>4. <<Head(ready)>> \o Tail(ready) = ready
      BY <1>1, <2>2, HeadTailProperties
    <3>5. QED BY <3>3, <3>4
  <2>3. QED BY <2>1, <2>2
<1>5. QED BY <1>1, <1>2, <1>3, <1>4

\* A requeued process still counts as the running one.
LEMMA RequeueStutters ==
  ASSUME IInv, NEW p \in Pids, SchedRequeue(p)
  PROVE  UNCHANGED <<current, PromisedQueue, PromisedAdmitted>>
<1>1. /\ cpu = p /\ current = p /\ pc[p] = "requeue" /\ pc'[p] = "install"
      /\ UNCHANGED <<current, cpu, next, spawning>>
      /\ ready \in Seq(Pids) /\ state[p] \in {"Running", "Exited"}
  BY ZenonT(30) DEF SchedRequeue, IInv, TypeOK, StateInv, ProcessorMatchesCurrent
<1>2. PromisedQueue = <<next[p]>> \o ready /\ PromisedAdmitted = {q \in Pids : state[q] # "New"}
  BY <1>1, QueueAtRequeue, AdmittedElsewhere
<1>3. PromisedAdmitted' = {q \in Pids : state[q] # "New"}
  <2>1. PromisedAdmitted' = {q \in Pids : state'[q] # "New"}
    BY <1>1 DEF PromisedAdmitted
  <2>2. \A q \in Pids : state'[q] # "New" <=> state[q] # "New"
    BY <1>1, Zenon DEF SchedRequeue, IInv, TypeOK
  <2>3. QED BY <2>1, <2>2
<1>4. PromisedQueue' = <<next[p]>> \o (IF state'[p] = "Ready" THEN AllButLast(ready') ELSE ready')
  BY <1>1 DEF PromisedQueue, AllButLast
<1>5. CASE state[p] = "Running"
  <2>1. state'[p] = "Ready" /\ ready' = Append(ready, p)
    BY <1>1, <1>5, Zenon DEF SchedRequeue, IInv, TypeOK
  <2>2. AllButLast(ready') = ready
    <3>1. /\ ready' \in Seq(Pids) /\ Len(ready) \in Nat /\ Len(ready') = Len(ready) + 1
          /\ \A i \in 1..Len(ready) : ready'[i] = ready[i] /\ ready'[i] \in Pids
      <4>1. ready \in Seq(Pids) BY <1>1
      <4>2. /\ Append(ready, p) \in Seq(Pids) /\ Len(Append(ready, p)) = Len(ready) + 1
            /\ Len(ready) \in Nat
            /\ \A i \in 1..Len(ready) : Append(ready, p)[i] = ready[i]
        BY <4>1, AppendProperties, LenProperties
      <4>3. \A i \in 1..Len(ready) : ready[i] \in Pids BY <4>1
      <4>4. QED BY <2>1, <4>2, <4>3, Zenon
    <3>2. Len(ready') - 1 = Len(ready) BY <3>1
    <3>3. /\ SubSeq(ready', 1, Len(ready)) \in Seq(Pids)
          /\ Len(SubSeq(ready', 1, Len(ready))) = Len(ready)
          /\ \A i \in 1..Len(ready) : SubSeq(ready', 1, Len(ready))[i] = ready'[i]
      BY <3>1, SubSeqProperties
    <3>4. SubSeq(ready', 1, Len(ready)) = ready
      BY <3>1, <3>3, <1>1, SeqEqual
    <3>5. QED BY <3>2, <3>4 DEF AllButLast
  <2>3. QED BY <1>1, <1>2, <1>3, <1>4, <2>1, <2>2
<1>6. CASE state[p] # "Running"
  <2>1. state'[p] = "Exited" /\ ready' = ready
    BY <1>1, <1>6 DEF SchedRequeue
  <2>2. QED BY <1>1, <1>2, <1>3, <1>4, <2>1
<1>7. QED BY <1>5, <1>6

\* SchedInstall commits: the head of the queue runs, the old process is last
\* in line or, having exited, gone.
LEMMA InstallRotates ==
  ASSUME IInv, RequeuedLast, NEW p \in Pids, SchedInstall(p)
  PROVE  RR!Rotate \/ RR!Retire
<1> DEFINE n == next[p]
           rest == IF state[current] = "Ready" THEN AllButLast(ready) ELSE ready
<1>1. /\ cpu = p /\ current = p /\ pc[p] = "install" /\ pc'[p] = "switch"
      /\ current' = n /\ UNCHANGED <<ready, cpu, spawning>>
      /\ state' = [state EXCEPT ![n] = "Running"]
      /\ ready \in Seq(Pids) /\ state[p] \in {"Ready", "Exited"}
  BY Zenon DEF SchedInstall, IInv, TypeOK, StateInv, ProcessorMatchesCurrent
<1>2. n \in Pids /\ state[n] = "Ready" BY <1>1, PoppedReady
<1>3. rest \in Seq(Pids) /\ (state[p] = "Ready" => ready = Append(rest, p))
  <2>1. CASE state[p] = "Ready"
    <3>1. ready # <<>> /\ ready[Len(ready)] = p BY <1>1, <2>1 DEF RequeuedLast
    <3>2. Len(ready) \in Nat /\ Len(ready) > 0 BY <1>1, <3>1, EmptySeq, LenProperties
    <3>3. rest = SubSeq(ready, 1, Len(ready) - 1) BY <1>1, <2>1 DEF AllButLast
    <3>4. \A i \in 1..(Len(ready) - 1) : ready[i] \in Pids BY <1>1, <3>2, ElementOfSeq
    <3>5. /\ rest \in Seq(Pids) /\ Len(rest) = Len(ready) - 1
          /\ \A i \in 1..(Len(ready) - 1) : rest[i] = ready[i]
      <4>1. /\ SubSeq(ready, 1, Len(ready) - 1) \in Seq(Pids)
            /\ Len(SubSeq(ready, 1, Len(ready) - 1)) = Len(ready) - 1
            /\ \A i \in 1..(Len(ready) - 1) : SubSeq(ready, 1, Len(ready) - 1)[i] = ready[i]
        <5>1. Len(ready) - 1 - 1 + 1 = Len(ready) - 1 /\ \A i \in Nat : 1 + i - 1 = i
          BY <3>2
        <5>2. QED BY <1>1, <3>2, <3>4, <5>1, SubSeqProperties
      <4>2. QED BY <3>3, <4>1, Zenon
    <3>6. HIDE DEF rest
    <3>7. /\ Append(rest, p) \in Seq(Pids) /\ Len(Append(rest, p)) = Len(ready)
          /\ \A i \in 1..(Len(ready) - 1) : Append(rest, p)[i] = rest[i]
          /\ Append(rest, p)[Len(ready)] = p
      BY <3>2, <3>5, AppendProperties
    <3>8. \A i \in 1..Len(ready) : i \in 1..(Len(ready) - 1) \/ i = Len(ready) BY <3>2
    <3>9. \A i \in 1..Len(ready) : ready[i] = Append(rest, p)[i]
      BY <3>1, <3>5, <3>7, <3>8
    <3>10. ready = Append(rest, p) BY <1>1, <3>7, <3>9, SeqEqual
    <3>11. QED BY <3>5, <3>10
  <2>2. CASE state[p] # "Ready" BY <1>1, <2>2
  <2>3. QED BY <2>1, <2>2
<1>4. PromisedQueue = <<n>> \o rest BY <1>1, QueueAtInstall
<1>5. PromisedQueue' = ready BY <1>1 DEF PromisedQueue
<1>6. PromisedAdmitted' = PromisedAdmitted
  <2>1. PromisedAdmitted' = {q \in Pids : state'[q] # "New"}
    BY <1>1 DEF PromisedAdmitted
  <2>2. \A q \in Pids : state'[q] # "New" <=> state[q] # "New"
    BY <1>1, <1>2, Zenon DEF IInv, TypeOK
  <2>3. QED BY <2>1, <2>2, <1>1, AdmittedElsewhere
<1>7. HIDE DEF rest
<1>8. <<n>> \o rest # <<>> /\ Head(<<n>> \o rest) = n /\ Tail(<<n>> \o rest) = rest
  BY <1>2, <1>3
<1>9. CASE state[p] = "Ready"
  BY <1>1, <1>3, <1>4, <1>5, <1>6, <1>8, <1>9, Zenon DEF RR!Rotate
<1>10. CASE state[p] # "Ready"
  <2>1. p # Boot BY <1>1, <1>10 DEF IInv, StateInv
  <2>2. rest = ready BY <1>1, <1>10 DEF rest
  <2>3. QED BY <1>1, <1>4, <1>5, <1>6, <1>8, <2>1, <2>2 DEF RR!Retire
<1>11. QED BY <1>9, <1>10

\* Behind __switch_context the CPU is at no move of the queue.
LEMMA SwitchStutters ==
  ASSUME IInv, NEW p \in Pids, SwitchContext(p)
  PROVE  UNCHANGED <<current, PromisedQueue, PromisedAdmitted>>
<1>1. /\ cpu = p /\ pc[p] = "switch" /\ UNCHANGED <<state, ready, current, spawning>>
      /\ next[p] = current /\ current \in Pids /\ current # p
      /\ cpu' = current /\ pc' = [pc EXCEPT ![p] = "restore"]
  BY ZenonT(30) DEF SwitchContext, IInv, TypeOK, StateInv, ProcessorMatchesCurrent
<1>2. pc'[cpu'] \in {"new", "restore"}
  <2>1. pc'[current] = pc[current] BY <1>1 DEF IInv, TypeOK
  <2>2. pc[current] \in {"new", "restore"} BY <1>1, Zenon DEF IInv, ControlInv
  <2>3. QED BY <1>1, <2>1, <2>2
<1>3. PromisedQueue = ready /\ PromisedAdmitted = {q \in Pids : state[q] # "New"}
  BY <1>1, QueueElsewhere, AdmittedElsewhere
<1>4. PromisedQueue' = ready' /\ PromisedAdmitted' = {q \in Pids : state'[q] # "New"}
  BY <1>2 DEF PromisedQueue, PromisedAdmitted
<1>5. QED BY <1>1, <1>3, <1>4

\* An exited process goes on running, for the promise, until the switch.
LEMMA ExitStutters ==
  ASSUME IInv, NEW p \in Pids, ExitCurrent(p)
  PROVE  UNCHANGED <<current, PromisedQueue, PromisedAdmitted>>
<1>1. /\ cpu = p /\ pc[p] = "exiting" /\ pc'[p] = "sched"
      /\ UNCHANGED <<ready, current, cpu, spawning>>
      /\ current = p /\ state[p] = "Running" /\ state' = [state EXCEPT ![p] = "Exited"]
  BY ZenonT(30) DEF ExitCurrent, IInv, TypeOK, StateInv, ProcessorMatchesCurrent
<1>2. PromisedQueue = ready /\ PromisedAdmitted = {q \in Pids : state[q] # "New"}
  BY <1>1, QueueElsewhere, AdmittedElsewhere
<1>3. PromisedQueue' = ready' /\ PromisedAdmitted' = {q \in Pids : state'[q] # "New"}
  BY <1>1 DEF PromisedQueue, PromisedAdmitted
<1>4. \A q \in Pids : state'[q] # "New" <=> state[q] # "New"
  BY <1>1 DEF IInv, TypeOK
<1>5. QED BY <1>1, <1>2, <1>3, <1>4

\* A process that push_ready has marked Ready is not admitted yet ...
LEMMA PushLockStutters ==
  ASSUME IInv, NEW p \in Pids, PushLock(p)
  PROVE  UNCHANGED <<current, PromisedQueue, PromisedAdmitted>>
<1> DEFINE n == spawning[p]
<1>1. /\ cpu = p /\ pc[p] = "spawn" /\ pc'[p] = "push"
      /\ UNCHANGED <<ready, current, cpu, spawning>>
      /\ n \in Pids /\ state[n] = "New" /\ state' = [state EXCEPT ![n] = "Ready"]
  <2>1. /\ cpu = p /\ pc[p] = "spawn" /\ pc' = [pc EXCEPT ![p] = "push"]
        /\ UNCHANGED <<ready, current, cpu, spawning>> /\ state' = [state EXCEPT ![n] = "Ready"]
    BY DEF PushLock
  <2>2. pc'[p] = "push" BY <2>1, Zenon DEF IInv, TypeOK
  <2>3. n # NoPid BY <2>1, Zenon DEF IInv, ControlInv
  <2>4. n \in Pids /\ state[n] = "New" BY <2>1, <2>3 DEF IInv, SpawnInv
  <2>5. QED BY <2>1, <2>2, <2>4
<1>2. PromisedQueue = ready /\ PromisedAdmitted = {q \in Pids : state[q] # "New"}
  BY <1>1, QueueElsewhere, AdmittedElsewhere
<1>3. PromisedQueue' = ready' BY <1>1 DEF PromisedQueue
<1>4. PromisedAdmitted' = {q \in Pids : state'[q] # "New" /\ q # n}
  BY <1>1 DEF PromisedAdmitted
<1>5. \A q \in Pids : state'[q] # "New" /\ q # n <=> state[q] # "New"
  BY <1>1, Zenon DEF IInv, TypeOK
<1>6. QED BY <1>1, <1>2, <1>3, <1>4, <1>5

\* ... it is once it is queued.
LEMMA PushAdmits ==
  ASSUME IInv, NEW p \in Pids, PushReady(p)
  PROVE  \E n \in Pids : RR!Admit(n)
<1> DEFINE n == spawning[p]
<1>1. /\ cpu = p /\ pc[p] = "push" /\ pc'[p] = "unlock"
      /\ UNCHANGED <<state, current, cpu>> /\ ready' = Append(ready, n)
      /\ n \in Pids /\ state[n] = "Ready"
  <2>1. /\ cpu = p /\ pc[p] = "push" /\ pc' = [pc EXCEPT ![p] = "unlock"]
        /\ UNCHANGED <<state, current, cpu>> /\ ready' = Append(ready, n)
    BY DEF PushReady
  <2>2. pc'[p] = "unlock" BY <2>1, Zenon DEF IInv, TypeOK
  <2>3. n # NoPid BY <2>1, Zenon DEF IInv, ControlInv
  <2>4. n \in Pids /\ state[n] = "Ready" BY <2>1, <2>3 DEF IInv, SpawnInv
  <2>5. QED BY <2>1, <2>2, <2>4
<1>2. PromisedQueue = ready BY <1>1, QueueElsewhere
<1>3. PromisedQueue' = ready' BY <1>1 DEF PromisedQueue
<1>4. PromisedAdmitted = {q \in Pids : state[q] # "New" /\ q # n}
  BY <1>1 DEF PromisedAdmitted
<1>5. PromisedAdmitted' = {q \in Pids : state[q] # "New"}
  BY <1>1 DEF PromisedAdmitted
<1>6. n \notin PromisedAdmitted /\ PromisedAdmitted' = PromisedAdmitted \cup {n}
  BY <1>1, <1>4, <1>5
<1>7. RR!Admit(n) BY <1>1, <1>2, <1>3, <1>6 DEF RR!Admit
<1>8. QED BY <1>1, <1>7

\* schedule(), push_ready and exit_current, cut into steps and interrupted
\* wherever IF allows it, implement a FIFO round-robin.
THEOREM SchedulerIsRoundRobin == Spec => ImplementsRoundRobin
<1>1. Init => RR!RRInit /\ RequeuedLast
  <2>1. SUFFICES ASSUME Init PROVE RR!RRInit /\ RequeuedLast OBVIOUS
  <2>2. pc[cpu] = "kernel" BY <2>1 DEF Init
  <2>3. PromisedQueue = [i \in 1..BootUsers |-> i]
    BY <2>1, <2>2, QueueElsewhere DEF Init
  <2>4. PromisedAdmitted = {p \in Pids : state[p] # "New"}
    BY <2>2, AdmittedElsewhere
  <2>5. Len([i \in 1..BootUsers |-> i]) = BootUsers OBVIOUS
  <2>6. {p \in Pids : state[p] # "New"} = {Boot} \cup {[j \in 1..BootUsers |-> j][i] : i \in 1..BootUsers}
    <3>1. {[j \in 1..BootUsers |-> j][i] : i \in 1..BootUsers} = 1..BootUsers OBVIOUS
    <3>2. \A p \in Pids : state[p] # "New" <=> p \in 0..BootUsers BY <2>1 DEF Init
    <3>3. QED BY <3>1, <3>2
  <2>7. QED BY <2>1, <2>2, <2>3, <2>4, <2>5, <2>6, Zenon DEF RR!RRInit, RequeuedLast, Init
<1>2. IInv /\ RequeuedLast /\ [Next]_vars => [RR!RRNext]_<<current, PromisedQueue, PromisedAdmitted>>
  <2>1. SUFFICES ASSUME IInv, RequeuedLast, [Next]_vars
                 PROVE  RR!RRNext \/ UNCHANGED <<current, PromisedQueue, PromisedAdmitted>>
    OBVIOUS
  <2>2. CASE Idle BY <2>2, IdleStutters
  <2>3. ASSUME NEW p \in Pids, SchedPop(p) \/ SchedRequeue(p) \/ SwitchContext(p)
                               \/ ExitCurrent(p) \/ PushLock(p)
        PROVE  UNCHANGED <<current, PromisedQueue, PromisedAdmitted>>
    BY <2>1, <2>3, PopStutters, RequeueStutters, SwitchStutters, ExitStutters, PushLockStutters
  <2>4. ASSUME NEW p \in Pids, SchedInstall(p) PROVE RR!RRNext
    BY <2>1, <2>4, InstallRotates DEF RR!RRNext
  <2>5. ASSUME NEW p \in Pids, PushReady(p) PROVE RR!RRNext
    BY <2>1, <2>5, PushAdmits DEF RR!RRNext
  <2>6. QED BY <2>1, <2>2, <2>3, <2>4, <2>5, StepKinds, ZenonT(30)
<1>3. IInv /\ RequeuedLast /\ [Next]_vars => RequeuedLast'
  BY RequeuedLastStep
<1>4. QED
  BY <1>1, <1>2, <1>3, InitInv, NextInv, PTL
     DEF Spec, ImplementsRoundRobin, RR!RRSpec, RR!rrVars

\* __switch_context only ever goes to the process that schedule() has made
\* Running, and nothing brings an exited process back.
THEOREM OnlyLiveRun == Spec => OnlyLiveProcessesRun
<1>1. IInv /\ [Next]_vars => [/\ cpu' # cpu => state[cpu'] = "Running"
                             /\ \A p \in Pids : state[p] = "Exited" => state'[p] = "Exited"]_vars
  <2> DEFINE Step == /\ cpu' # cpu => state[cpu'] = "Running"
                     /\ \A q \in Pids : state[q] = "Exited" => state'[q] = "Exited"
  <2>1. SUFFICES ASSUME IInv, [Next]_vars PROVE Step OBVIOUS
  <2>2. CASE Idle BY <2>2 DEF Idle
  <2>3. ASSUME NEW p \in Pids, SchedPop(p) \/ PushReady(p) PROVE Step
    BY <2>3, Zenon DEF SchedPop, PushReady
  <2>4. ASSUME NEW p \in Pids, SchedRequeue(p) PROVE Step
    BY <2>1, <2>4, ZenonT(30) DEF SchedRequeue, IInv, TypeOK
  <2>5. ASSUME NEW p \in Pids, SchedInstall(p) PROVE Step
    <3>1. next[p] \in Pids /\ state[next[p]] = "Ready"
      BY <2>1, <2>5, PoppedReady, ZenonT(30) DEF SchedInstall
    <3>2. QED BY <2>1, <2>5, <3>1, ZenonT(30) DEF SchedInstall, IInv, TypeOK
  <2>6. ASSUME NEW p \in Pids, SwitchContext(p) PROVE Step
    BY <2>1, <2>6, ZenonT(30) DEF SwitchContext, IInv, StateInv
  <2>7. ASSUME NEW p \in Pids, ExitCurrent(p) PROVE Step
    BY <2>1, <2>7, ZenonT(30) DEF ExitCurrent, IInv, TypeOK
  <2>8. ASSUME NEW p \in Pids, PushLock(p) PROVE Step
    <3>1. spawning[p] \in Pids /\ state[spawning[p]] = "New"
      BY <2>1, <2>8, ZenonT(30) DEF PushLock, IInv, TypeOK, ControlInv, SpawnInv
    <3>2. QED BY <2>1, <2>8, <3>1, ZenonT(30) DEF PushLock, IInv, TypeOK
  <2>9. QED BY <2>1, <2>2, <2>3, <2>4, <2>5, <2>6, <2>7, <2>8, StepKinds, ZenonT(30)
<1>2. QED BY <1>1, Invariance, PTL DEF Spec, OnlyLiveProcessesRun
=============================================================================
