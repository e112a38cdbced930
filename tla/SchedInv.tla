------------------------------ MODULE SchedInv ------------------------------
(***************************************************************************)
(* The inductive invariant behind the scheduler's safety properties.       *)
(***************************************************************************)
EXTENDS Sched

ScheduleBody == {"pop", "requeue", "install", "switch", "restore"}
HandlerPCs == {"timer", "dev", "tick", "iret"}

\* Where a process can be.  One that is not on the CPU either has never run
\* or is inside schedule(), just behind __switch_context.
ControlInv ==
  \A p \in Pids :
    /\ p # cpu => pc[p] \in {"new", "restore"}
    /\ pc[p] \notin {"none", "halted"}
    /\ pc[p] = "new" => intr[p] = "none"
    /\ pc[p] \in HandlerPCs => intr[p] # "none"
    /\ intr[p] # "none" => pc[p] \in HandlerPCs \cup ScheduleBody \cup {"sched"}
    /\ intr[p] \in {"none", "user", "kernel", "spawn", "sched"}
    /\ next[p] # NoPid <=> pc[p] \in {"requeue", "install", "switch"}
    /\ spawning[p] # NoPid <=> pc[p] \in {"spawn", "push"} \/ intr[p] = "spawn"
    /\ IsKernel(p) => /\ pc[p] \notin {"user", "syscall", "exit", "exiting"}
                      /\ intr[p] # "user"
    /\ ~IsKernel(p) => /\ pc[p] # "kernel"
                       /\ intr[p] \notin {"kernel", "spawn", "sched"}

\* What IF is, and what schedule() and push_ready remember of it.
FlagInv ==
  /\ CriticalCodeMasked
  /\ OrdinaryCodeInterruptible
  /\ pc[cpu] = "spawn" /\ IsKernel(cpu) => iflag
  /\ pc[cpu] = "sched" /\ intr[cpu] = "none" =>
       (iflag <=> state[cpu] # "Exited") /\ (iflag <=> IsKernel(cpu))
  /\ \A p \in Pids : pc[p] \in ScheduleBody =>
       /\ intr[p] # "none" => ~saved[p]
       /\ intr[p] = "none" => /\ saved[p] <=> state[p] # "Exited"
                              /\ saved[p] <=> IsKernel(p)
  /\ pc[cpu] \in {"push", "unlock"} => queueLock = cpu /\ (saved[cpu] <=> IsKernel(cpu))
  /\ pc[cpu] \notin {"push", "unlock"} => queueLock = NoPid

\* Process states against control and against the pids handed out.
StateInv ==
  /\ ProcessorMatchesCurrent
  /\ state[Boot] \in {"Ready", "Running"}
  /\ pc[cpu] \in {"sched", "pop", "requeue"} => state[cpu] \in {"Running", "Exited"}
  /\ pc[cpu] = "install" => state[cpu] \in {"Ready", "Exited"}
  /\ pc[cpu] \in {"requeue", "install"} => next[cpu] # cpu
  /\ pc[cpu] = "restore" => state[cpu] = "Running"
  /\ pc[cpu] = "switch" => current = next[cpu] /\ state[current] = "Running"
  /\ \A p \in Pids :
       /\ state[p] = "Exited" => intr[p] = "none" /\ ~IsKernel(p)
       /\ state[p] = "New" => pc[p] = "new" /\ p # cpu
       /\ p >= nextPid => state[p] = "New"

SpawnInv ==
  /\ PidsUnique
  /\ \A p \in Pids : spawning[p] # NoPid =>
       /\ spawning[p] \in Pids
       /\ state[spawning[p]] = IF pc[p] = "push" THEN "Ready" ELSE "New"

IInv ==
  /\ TypeOK
  /\ ControlInv
  /\ FlagInv
  /\ StateInv
  /\ SpawnInv
  /\ RunnableInOnePlace
  /\ SyscallStackExclusive
  /\ TimerAcknowledgedBeforeSwitch
=============================================================================
