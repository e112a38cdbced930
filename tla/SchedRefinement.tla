-------------------------- MODULE SchedRefinement --------------------------
(***************************************************************************)
(* schedule() implements the round-robin promise.  Its commit point is     *)
(* SchedInstall: before it, a popped process still counts as the head of   *)
(* the queue and a requeued one as still running.                          *)
(***************************************************************************)
EXTENDS Sched

AllButLast(s) == SubSeq(s, 1, Len(s) - 1)

PromisedQueue ==
  CASE pc[cpu] = "requeue" -> <<next[cpu]>> \o ready
    [] pc[cpu] = "install" ->
         <<next[cpu]>> \o (IF state[current] = "Ready" THEN AllButLast(ready) ELSE ready)
    [] OTHER -> ready

PromisedAdmitted ==
  {p \in Pids : state[p] # "New" /\ ~(pc[cpu] = "push" /\ spawning[cpu] = p)}

RR == INSTANCE RoundRobin WITH
        Procs <- Pids, First <- Boot, InitQueue <- [i \in 1..BootUsers |-> i],
        running <- current, queue <- PromisedQueue, admitted <- PromisedAdmitted

\* The scheduler, cut into steps and interrupted wherever IF allows it, is a
\* FIFO round-robin: schedule() always hands the CPU to the process that has
\* waited longest, the preempted process queues last, an exited one is gone.
ImplementsRoundRobin == RR!RRSpec
=============================================================================
