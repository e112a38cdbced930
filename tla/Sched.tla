------------------------------- MODULE Sched -------------------------------
(***************************************************************************)
(* The preemptive round-robin scheduler of src/task/proc.rs on its one     *)
(* CPU, with what drives it: the timer and device interrupts of            *)
(* src/trap/idt.rs behind the PIC, and the syscall gate of src/syscall.rs  *)
(* (entry on one shared stack, exec, exit).                                *)
(*                                                                         *)
(* Only the process on the CPU takes steps.  Interleaving comes from       *)
(* interrupts, which the CPU accepts between any two steps taken with the  *)
(* interrupt flag set; schedule() is therefore cut into the steps between  *)
(* which an interrupt would matter if the flag were not cleared.           *)
(***************************************************************************)
EXTENDS Naturals, Sequences

CONSTANTS
  MaxPid,       \* bound on the pids handed out by NEXT_PID
  Slice,        \* DEFAULT_TIME_SLICE_TICKS
  BootUsers,    \* user processes spawned by kernel_main before sti
  KernelTasks,  \* pids created by spawn_kernel (the others run in ring 3)
  Exiting       \* pids whose program ends with the exit syscall

ASSUME MaxPidAssumption == MaxPid \in Nat
ASSUME SliceAssumption == Slice \in Nat \ {0}
ASSUME BootUsersAssumption == BootUsers \in 0..MaxPid
ASSUME KernelTasksAssumption == KernelTasks \subseteq (BootUsers + 1)..MaxPid
ASSUME ExitingAssumption == Exiting \subseteq (1..MaxPid) \ KernelTasks

Pids == 0..MaxPid
Boot == 0
NoPid == MaxPid + 1
OptPids == Pids \cup {NoPid}
IsKernel(p) == p = Boot \/ p \in KernelTasks

VARIABLES
  state, ready, current, ticks, nextPid,   \* Proc fields and statics
  cpu, iflag, rsp0, cr3,                      \* the processor
  irr, isr,                                \* the PIC: requested, in service
  pc, intr, saved, next, spawning,         \* where each process is
  queueLock, exitLock, sysRsp              \* locks, __SYSCALL_USER_RSP

procVars == <<state, ready, current, ticks, nextPid>>
picVars == <<irr, isr>>
ctlVars == <<intr, saved, next, spawning>>
vars == <<procVars, cpu, iflag, rsp0, cr3, picVars, pc, ctlVars,
          queueLock, exitLock, sysRsp>>

Irqs == {"timer", "dev"}

\* Where an interrupt may find a process that runs with IF set.
OpenPCs == {"user", "kernel", "spawn", "sched", "halted"}
PCs == OpenPCs \cup
       {"none", "new", "syscall", "exit", "exiting", "push", "unlock",
        "timer", "dev", "tick", "iret",
        "pop", "requeue", "install", "switch", "restore"}

(***************************************************************************)
(* kernel_main has run proc::init and its spawn_user calls and now         *)
(* executes sti: the boot process runs, the user processes are queued.     *)
(***************************************************************************)
Init ==
  /\ state = [p \in Pids |-> IF p = Boot THEN "Running"
                             ELSE IF p <= BootUsers THEN "Ready" ELSE "New"]
  /\ ready = [i \in 1..BootUsers |-> i]
  /\ current = Boot
  /\ ticks = [p \in Pids |-> Slice]
  /\ nextPid = BootUsers + 1
  /\ cpu = Boot /\ iflag = TRUE /\ rsp0 = Boot /\ cr3 = Boot
  /\ irr = {} /\ isr = {}
  /\ pc = [p \in Pids |-> IF p = Boot THEN "kernel" ELSE "new"]
  /\ intr = [p \in Pids |-> "none"]
  /\ saved = [p \in Pids |-> FALSE]
  /\ next = [p \in Pids |-> NoPid]
  /\ spawning = [p \in Pids |-> NoPid]
  /\ queueLock = NoPid /\ exitLock = NoPid /\ sysRsp = NoPid

\* The process on the CPU moves from one point of its code to another.
At(p, from) == cpu = p /\ pc[p] = from
Goto(p, to) == pc' = [pc EXCEPT ![p] = to]

(***************************************************************************)
(* Interrupts.                                                             *)
(***************************************************************************)
\* The PIT and the other devices raise their lines; a request that is
\* already latched is merged with the new one.
Raise(i) ==
  /\ i \notin irr
  /\ irr' = irr \cup {i}
  /\ UNCHANGED <<procVars, cpu, iflag, rsp0, cr3, isr, pc, ctlVars,
                 queueLock, exitLock, sysRsp>>

\* The PIC offers a request unless one of equal or higher priority is in
\* service; IRQ0 (the timer) has the highest priority.
Offered(i) ==
  /\ i \in irr
  /\ \/ i = "timer" /\ "timer" \notin isr
     \/ i = "dev" /\ "timer" \notin irr /\ isr = {}

\* The CPU accepts an interrupt through an interrupt gate: it pushes the
\* interrupted frame and clears IF; the stub then calls __irq_handler.
Interrupt(p, i) ==
  /\ cpu = p /\ iflag /\ Offered(i)
  /\ irr' = irr \ {i}
  /\ isr' = isr \cup {i}
  /\ iflag' = FALSE
  /\ intr' = [intr EXCEPT ![p] = pc[p]]
  /\ Goto(p, i)
  /\ UNCHANGED <<procVars, cpu, rsp0, cr3, saved, next, spawning,
                 queueLock, exitLock, sysRsp>>

\* A non-specific EOI retires the in-service request of highest priority.
EndOfInterrupt == isr' = isr \ (IF "timer" \in isr THEN {"timer"} ELSE isr)

\* __irq_handler, IRQ0: count, EOI first, then on_timer_tick.
TimerIrq(p) ==
  /\ At(p, "timer")
  /\ EndOfInterrupt
  /\ Goto(p, "tick")
  /\ UNCHANGED <<procVars, cpu, iflag, rsp0, cr3, irr, ctlVars,
                 queueLock, exitLock, sysRsp>>

\* __irq_handler, keyboard and serial: the device's work, then EOI.
DeviceIrq(p) ==
  /\ At(p, "dev")
  /\ EndOfInterrupt
  /\ Goto(p, "iret")
  /\ UNCHANGED <<procVars, cpu, iflag, rsp0, cr3, irr, ctlVars,
                 queueLock, exitLock, sysRsp>>

\* consume_tick: what is left of a slice after one more tick, and whether
\* the slice has expired (it is then refilled).
LeftAfterTick(left) == IF left > 0 THEN left - 1 ELSE 0
Expired(left) == LeftAfterTick(left) = 0

OnTimerTick(p) ==
  /\ At(p, "tick")
  /\ ticks' = [ticks EXCEPT ![current] =
                 IF Expired(@) THEN Slice ELSE LeftAfterTick(@)]
  /\ Goto(p, IF Expired(ticks[current]) THEN "sched" ELSE "iret")
  /\ UNCHANGED <<state, ready, current, nextPid, cpu, iflag, rsp0, cr3,
                 picVars, ctlVars, queueLock, exitLock, sysRsp>>

\* The stub pops the frame the CPU pushed; iretq restores IF with it.
InterruptReturn(p) ==
  /\ At(p, "iret")
  /\ iflag' = TRUE
  /\ Goto(p, intr[p])
  /\ intr' = [intr EXCEPT ![p] = "none"]
  /\ UNCHANGED <<procVars, cpu, rsp0, cr3, picVars, saved, next, spawning,
                 queueLock, exitLock, sysRsp>>

(***************************************************************************)
(* schedule().                                                             *)
(***************************************************************************)
\* Mutant of SchedEnter: no cli.
SchedEnterNoCli(p) ==
  /\ At(p, "sched")
  /\ saved' = [saved EXCEPT ![p] = iflag]
  /\ Goto(p, "pop")
  /\ UNCHANGED <<procVars, cpu, iflag, rsp0, cr3, picVars, intr, next, spawning,
                 queueLock, exitLock, sysRsp>>

\* Remember IF, then cli.
SchedEnter(p) ==
  /\ At(p, "sched")
  /\ saved' = [saved EXCEPT ![p] = iflag]
  /\ iflag' = FALSE
  /\ Goto(p, "pop")
  /\ UNCHANGED <<procVars, cpu, rsp0, cr3, picVars, intr, next, spawning,
                 queueLock, exitLock, sysRsp>>

\* Pop the head of READY_QUEUE under its lock.  With nothing to run, or the
\* current process itself at the head, schedule() restores IF and returns.
SchedPop(p) ==
  /\ At(p, "pop")
  /\ queueLock = NoPid
  /\ IF ready = <<>>
     THEN /\ Goto(p, "restore")
          /\ UNCHANGED <<ready, next>>
     ELSE /\ ready' = Tail(ready)
          /\ IF Head(ready) = current
             THEN Goto(p, "restore") /\ UNCHANGED next
             ELSE Goto(p, "requeue") /\ next' = [next EXCEPT ![p] = Head(ready)]
  /\ UNCHANGED <<state, current, ticks, nextPid, cpu, iflag, rsp0, cr3, picVars,
                 intr, saved, spawning, queueLock, exitLock, sysRsp>>

\* Mutant of SchedRequeue: the old process is marked Ready but not queued.
SchedRequeueDrops(p) ==
  /\ At(p, "requeue")
  /\ queueLock = NoPid
  /\ state' = [state EXCEPT ![current] = IF @ = "Running" THEN "Ready" ELSE @]
  /\ Goto(p, "install")
  /\ UNCHANGED <<ready, current, ticks, nextPid, cpu, iflag, rsp0, cr3, picVars,
                 ctlVars, queueLock, exitLock, sysRsp>>

\* Mutant of SchedRequeue: whatever its state, the old process is queued.
SchedRequeueExited(p) ==
  /\ At(p, "requeue")
  /\ queueLock = NoPid
  /\ state' = [state EXCEPT ![current] = "Ready"]
  /\ ready' = Append(ready, current)
  /\ Goto(p, "install")
  /\ UNCHANGED <<current, ticks, nextPid, cpu, iflag, rsp0, cr3, picVars,
                 ctlVars, queueLock, exitLock, sysRsp>>

\* The old process goes to the back of the queue if it is still Running.
SchedRequeue(p) ==
  /\ At(p, "requeue")
  /\ queueLock = NoPid
  /\ IF state[current] = "Running"
     THEN /\ state' = [state EXCEPT ![current] = "Ready"]
          /\ ready' = Append(ready, current)
     ELSE UNCHANGED <<state, ready>>
  /\ Goto(p, "install")
  /\ UNCHANGED <<current, ticks, nextPid, cpu, iflag, rsp0, cr3, picVars,
                 ctlVars, queueLock, exitLock, sysRsp>>

\* next becomes CURRENT with a fresh slice, its kernel stack goes to
\* TSS.rsp0 and its page table to CR3.
SchedInstall(p) ==
  /\ At(p, "install")
  /\ state' = [state EXCEPT ![next[p]] = "Running"]
  /\ ticks' = [ticks EXCEPT ![next[p]] = Slice]
  /\ current' = next[p]
  /\ rsp0' = next[p]
  /\ cr3' = next[p]
  /\ Goto(p, "switch")
  /\ UNCHANGED <<ready, nextPid, cpu, iflag, picVars, ctlVars,
                 queueLock, exitLock, sysRsp>>

\* __switch_context: the old process is left behind the call, the CPU goes
\* on in the context of the new one.
SwitchContext(p) ==
  /\ At(p, "switch")
  /\ cpu' = next[p]
  /\ Goto(p, "restore")
  /\ next' = [next EXCEPT ![p] = NoPid]
  /\ UNCHANGED <<procVars, iflag, rsp0, cr3, picVars, intr, saved, spawning,
                 queueLock, exitLock, sysRsp>>

\* schedule() restores IF and returns to its caller: the interrupt stub,
\* exit_current (which enables interrupts and halts) or yield_now.
SchedReturn(p) ==
  LET exited == intr[p] = "none" /\ state[p] = "Exited" IN
  /\ At(p, "restore")
  /\ iflag' = (iflag \/ saved[p] \/ exited)
  /\ Goto(p, IF intr[p] # "none" THEN "iret"
             ELSE IF exited THEN "halted" ELSE "kernel")
  /\ UNCHANGED <<procVars, cpu, rsp0, cr3, picVars, ctlVars,
                 queueLock, exitLock, sysRsp>>

(***************************************************************************)
(* What processes do.                                                      *)
(***************************************************************************)
\* The first time on the CPU: kernel_task_bootstrap executes sti,
\* user_task_bootstrap an iretq with IF set in the trap frame.
Bootstrap(p) ==
  /\ At(p, "new")
  /\ iflag' = TRUE
  /\ Goto(p, IF IsKernel(p) THEN "kernel" ELSE "user")
  /\ UNCHANGED <<procVars, cpu, rsp0, cr3, picVars, ctlVars,
                 queueLock, exitLock, sysRsp>>

\* A kernel task gives up the CPU.
YieldNow(p) ==
  /\ At(p, "kernel")
  /\ Goto(p, "sched")
  /\ UNCHANGED <<procVars, cpu, iflag, rsp0, cr3, picVars, ctlVars,
                 queueLock, exitLock, sysRsp>>

\* Mutant of SyscallEntry: IF is missing from FMASK.
SyscallEntryOpen(p) ==
  /\ At(p, "user")
  /\ sysRsp' = p
  /\ Goto(p, "syscall")
  /\ UNCHANGED <<procVars, cpu, iflag, rsp0, cr3, picVars, ctlVars,
                 queueLock, exitLock>>

\* __syscall_entry: FMASK clears IF, the user stack pointer goes to
\* __SYSCALL_USER_RSP, and RSP to the top of the one syscall stack.
SyscallEntry(p) ==
  /\ At(p, "user")
  /\ iflag' = FALSE
  /\ sysRsp' = p
  /\ Goto(p, "syscall")
  /\ UNCHANGED <<procVars, cpu, rsp0, cr3, picVars, ctlVars,
                 queueLock, exitLock>>

\* sysretq, on the stack in __SYSCALL_USER_RSP, with the flags from R11.
SyscallReturn(p) ==
  /\ At(p, "syscall")
  /\ iflag' = TRUE
  /\ Goto(p, "user")
  /\ UNCHANGED <<procVars, cpu, rsp0, cr3, picVars, ctlVars,
                 queueLock, exitLock, sysRsp>>

\* spawn_* is called by the shell or a kernel task, or in a syscall.
SpawnCaller(p) == IF IsKernel(p) THEN "kernel" ELSE "syscall"

\* spawn_kernel and spawn_elf (from the shell, or from the exec syscall)
\* take the next pid and build the process.
SpawnBegin(p) ==
  /\ At(p, SpawnCaller(p))
  /\ nextPid <= MaxPid
  /\ nextPid' = nextPid + 1
  /\ spawning' = [spawning EXCEPT ![p] = nextPid]
  /\ Goto(p, "spawn")
  /\ UNCHANGED <<state, ready, current, ticks, cpu, iflag, rsp0, cr3, picVars,
                 intr, saved, next, queueLock, exitLock, sysRsp>>

\* spawn_elf without memory: the pid stays used.
SpawnNoMemory(p) ==
  /\ At(p, "spawn")
  /\ spawning[p] \notin KernelTasks
  /\ spawning' = [spawning EXCEPT ![p] = NoPid]
  /\ Goto(p, SpawnCaller(p))
  /\ UNCHANGED <<procVars, cpu, iflag, rsp0, cr3, picVars, intr, saved, next,
                 queueLock, exitLock, sysRsp>>

\* push_ready: mark the process Ready and lock READY_QUEUE (IF saved, cli).
PushLock(p) ==
  /\ At(p, "spawn")
  /\ queueLock = NoPid
  /\ state' = [state EXCEPT ![spawning[p]] = "Ready"]
  /\ saved' = [saved EXCEPT ![p] = iflag]
  /\ iflag' = FALSE
  /\ queueLock' = p
  /\ Goto(p, "push")
  /\ UNCHANGED <<ready, current, ticks, nextPid, cpu, rsp0, cr3, picVars,
                 intr, next, spawning, exitLock, sysRsp>>

\* push_ready: queue the process.
PushReady(p) ==
  /\ At(p, "push")
  /\ ready' = Append(ready, spawning[p])
  /\ spawning' = [spawning EXCEPT ![p] = NoPid]
  /\ Goto(p, "unlock")
  /\ UNCHANGED <<state, current, ticks, nextPid, cpu, iflag, rsp0, cr3, picVars,
                 intr, saved, next, queueLock, exitLock, sysRsp>>

\* push_ready: the guard is dropped, which restores IF.
PushUnlock(p) ==
  /\ At(p, "unlock")
  /\ queueLock' = NoPid
  /\ iflag' = (iflag \/ saved[p])
  /\ Goto(p, SpawnCaller(p))
  /\ UNCHANGED <<procVars, cpu, rsp0, cr3, picVars, ctlVars,
                 exitLock, sysRsp>>

\* The exit syscall is dispatched ...
SyscallExit(p) ==
  /\ At(p, "syscall")
  /\ p \in Exiting
  /\ Goto(p, "exit")
  /\ UNCHANGED <<procVars, cpu, iflag, rsp0, cr3, picVars, ctlVars,
                 queueLock, exitLock, sysRsp>>

\* ... and takes EXIT_CURRENT.  The guard is a temporary of the if-let that
\* calls exit_current, which never returns, so nothing drops it.
ExitLock(p) ==
  /\ At(p, "exit")
  /\ exitLock = NoPid
  /\ exitLock' = p
  /\ Goto(p, "exiting")
  /\ UNCHANGED <<procVars, cpu, iflag, rsp0, cr3, picVars, ctlVars,
                 queueLock, sysRsp>>

\* The compare-exchange of a held EXIT_CURRENT fails and is tried again.
ExitSpin(p) ==
  /\ At(p, "exit")
  /\ exitLock # NoPid
  /\ UNCHANGED vars

\* Mutant of ExitCurrent: CURRENT is not marked.
ExitCurrentUnmarked(p) ==
  /\ At(p, "exiting")
  /\ iflag' = FALSE
  /\ Goto(p, "sched")
  /\ UNCHANGED <<procVars, cpu, rsp0, cr3, picVars, ctlVars,
                 queueLock, exitLock, sysRsp>>

\* exit_current: cli, mark CURRENT Exited, schedule().
ExitCurrent(p) ==
  /\ At(p, "exiting")
  /\ iflag' = FALSE
  /\ state' = [state EXCEPT ![current] = "Exited"]
  /\ Goto(p, "sched")
  /\ UNCHANGED <<ready, current, ticks, nextPid, cpu, rsp0, cr3, picVars,
                 ctlVars, queueLock, exitLock, sysRsp>>

Schedule(p) ==
  \/ SchedEnter(p) \/ SchedPop(p) \/ SchedRequeue(p)
  \/ SchedInstall(p) \/ SwitchContext(p) \/ SchedReturn(p)

IrqHandler(p) ==
  \/ TimerIrq(p) \/ DeviceIrq(p) \/ OnTimerTick(p) \/ InterruptReturn(p)

Spawn(p) ==
  \/ SpawnBegin(p) \/ SpawnNoMemory(p)
  \/ PushLock(p) \/ PushReady(p) \/ PushUnlock(p)

Exit(p) == SyscallExit(p) \/ ExitLock(p) \/ ExitSpin(p) \/ ExitCurrent(p)

Next ==
  \/ \E i \in Irqs : Raise(i)
  \/ \E p \in Pids :
       \/ \E i \in Irqs : Interrupt(p, i)
       \/ IrqHandler(p) \/ Schedule(p) \/ Spawn(p) \/ Exit(p)
       \/ Bootstrap(p) \/ YieldNow(p) \/ SyscallEntry(p) \/ SyscallReturn(p)

Spec == Init /\ [][Next]_vars

(***************************************************************************)
(* Fairness.  The PIT ticks for ever.  A CPU with IF set takes a pending   *)
(* interrupt at the next instruction boundary, so an interrupt that is     *)
(* possible again and again is taken.  Kernel code runs on; what a program *)
(* chooses to do (a syscall, a spawn, an exit, a yield) it need not do.    *)
(***************************************************************************)
KernelCode(p) ==
  \/ IrqHandler(p) \/ Schedule(p) \/ Bootstrap(p) \/ SyscallReturn(p)
  \/ SpawnNoMemory(p) \/ PushLock(p) \/ PushReady(p) \/ PushUnlock(p)
  \/ ExitLock(p) \/ ExitCurrent(p)

Fairness ==
  /\ WF_vars(Raise("timer"))
  /\ SF_vars(\E p \in Pids : Interrupt(p, "timer"))
  /\ WF_vars(\E p \in Pids : KernelCode(p))

FairSpec == Spec /\ Fairness

-----------------------------------------------------------------------------
(***************************************************************************)
(* Properties.                                                             *)
(***************************************************************************)
\* The types of the scheduler's statics, of the CPU and of every process.
TypeOK ==
  /\ state \in [Pids -> {"New", "Ready", "Running", "Exited"}]
  /\ ready \in Seq(Pids)
  /\ current \in Pids
  /\ ticks \in [Pids -> 0..Slice]
  /\ nextPid \in 1..(MaxPid + 1)
  /\ cpu \in Pids /\ iflag \in BOOLEAN /\ rsp0 \in Pids /\ cr3 \in Pids
  /\ irr \subseteq Irqs /\ isr \subseteq Irqs
  /\ pc \in [Pids -> PCs]
  /\ intr \in [Pids -> PCs]
  /\ saved \in [Pids -> BOOLEAN]
  /\ next \in [Pids -> OptPids]
  /\ spawning \in [Pids -> OptPids]
  /\ queueLock \in OptPids /\ exitLock \in OptPids /\ sysRsp \in OptPids

\* An interrupt never finds the scheduler, a holder of READY_QUEUE, a
\* syscall or another handler half way: with IF set the running process is
\* in ordinary code and owns no lock (cli in schedule() and in
\* SpinLock::lock, FMASK on syscall entry, interrupt gates in the IDT).
CriticalCodeMasked ==
  iflag => /\ pc[cpu] \in OpenPCs
           /\ intr[cpu] = "none"
           /\ queueLock = NoPid
           /\ (pc[cpu] = "spawn" => IsKernel(cpu))

\* IF always comes back: whoever runs ordinary user or kernel code can be
\* interrupted, whichever path (iretq, sysretq, a dropped guard, a return
\* from schedule() on another process's behalf) brought it there.
OrdinaryCodeInterruptible == pc[cpu] \in {"user", "kernel"} => iflag

Occurs(x, s) == \E i \in 1..Len(s) : s[i] = x
NoRepeats(s) == \A i, j \in 1..Len(s) : s[i] = s[j] => i = j

Queued(p) == Occurs(p, ready)
Popped(p) == pc[cpu] \in {"requeue", "install"} /\ next[cpu] = p
BeingPushed(p) == pc[cpu] = "push" /\ spawning[cpu] = p

\* A runnable process is in one place only: once in READY_QUEUE, or in the
\* hands of the one schedule() that has popped it or the one push_ready
\* that is about to queue it; and nothing else is there (no lost wakeup, no
\* process queued twice, no exited process that could be popped).
RunnableInOnePlace ==
  /\ NoRepeats(ready)
  /\ \A p \in Pids : /\ (state[p] = "Ready") <=> (Queued(p) \/ Popped(p) \/ BeingPushed(p))
                     /\ ~(Queued(p) /\ (Popped(p) \/ BeingPushed(p)))

\* CURRENT, TSS.rsp0 and CR3 belong to the process that executes, except
\* between their update and __switch_context; only CURRENT is Running.  So
\* an interrupt or syscall from ring 3 lands on that process's own stack.
ProcessorMatchesCurrent ==
  /\ (cpu = current) <=> (pc[cpu] # "switch")
  /\ rsp0 = current /\ cr3 = current
  /\ \A p \in Pids : state[p] = "Running" => p = current
  /\ pc[cpu] \notin {"install", "sched", "pop", "requeue", "restore"} => state[current] = "Running"

InSyscall(p) ==
  /\ ~IsKernel(p)
  /\ pc[p] \in {"syscall", "spawn", "push", "unlock", "exit", "exiting"}

\* One syscall stack and one __SYSCALL_USER_RSP are enough: a process that
\* will return from its syscall is never switched out in it, so no other
\* process can overwrite its frames (syscall.rs, init: "single-core global
\* syscall stack").
SyscallStackExclusive ==
  \A p \in Pids : InSyscall(p) => cpu = p /\ sysRsp = p

\* The boot process is always current or runnable, so an exiting process
\* always finds a successor and exit_current never reaches its hlt loop.
ExitAlwaysSwitches == \A p \in Pids : pc[p] # "halted" /\ intr[p] # "halted"

\* The timer is never left in service when the CPU changes hands: its EOI
\* is sent before on_timer_tick can switch away.
TimerAcknowledgedBeforeSwitch ==
  /\ "timer" \in isr => pc[cpu] = "timer"
  /\ "dev" \in isr => pc[cpu] = "dev"

\* Two spawns never share a pid, even when the shell is preempted between
\* taking its pid and queueing the process.
PidsUnique ==
  /\ \A p, q \in Pids :
       p # q /\ spawning[p] # NoPid => spawning[p] # spawning[q]
  /\ \A p \in Pids : spawning[p] # NoPid => spawning[p] < nextPid

\* The CPU is only ever given to a process that is Running and that has not
\* exited, and an exited process stays so.
OnlyLiveProcessesRun ==
  [][ /\ cpu' # cpu => state[cpu'] = "Running"
      /\ \A p \in Pids : state[p] = "Exited" => state'[p] = "Exited" ]_vars

\* Every runnable process gets the CPU, whatever the others do: user code
\* that loops, programs that make syscalls, tasks that yield.
RunnableEventuallyRuns ==
  \A p \in Pids : state[p] = "Ready" ~> state[p] = "Running"

\* The exit syscall terminates its process.
ExitTerminates == \A p \in Pids : pc[p] = "exit" ~> state[p] = "Exited"
=============================================================================
