----------------------------- MODULE RoundRobin -----------------------------
(***************************************************************************)
(* What the scheduler promises: one running process, a FIFO of runnable    *)
(* ones, and a switch always to the head of the FIFO.  A process is        *)
(* admitted once; the running process goes to the back of the queue, or    *)
(* leaves for good.  The boot process never leaves.                        *)
(***************************************************************************)
EXTENDS Naturals, Sequences

CONSTANTS Procs, First, InitQueue

VARIABLES running, queue, admitted

rrVars == <<running, queue, admitted>>

RRInit ==
  /\ running = First
  /\ queue = InitQueue
  /\ admitted = {First} \cup {InitQueue[i] : i \in 1..Len(InitQueue)}

Admit(p) ==
  /\ p \notin admitted
  /\ admitted' = admitted \cup {p}
  /\ queue' = Append(queue, p)
  /\ UNCHANGED running

Rotate ==
  /\ queue # <<>>
  /\ running' = Head(queue)
  /\ queue' = Append(Tail(queue), running)
  /\ UNCHANGED admitted

Retire ==
  /\ queue # <<>> /\ running # First
  /\ running' = Head(queue)
  /\ queue' = Tail(queue)
  /\ UNCHANGED admitted

RRNext == (\E p \in Procs : Admit(p)) \/ Rotate \/ Retire

RRSpec == RRInit /\ [][RRNext]_rrVars
=============================================================================
