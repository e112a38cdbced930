------------------------------ MODULE SpinLock ------------------------------
(***************************************************************************)
(* The interrupt-saving spin lock of src/lock/spin_lock.rs under           *)
(* preemption.  lock() reads IF, executes cli and then spins on a          *)
(* compare-exchange; the guard remembers IF and its drop restores it.      *)
(*                                                                         *)
(* Each task has two contexts, its own code and the interrupt handler that *)
(* may run on top of it.  The timer handler may switch tasks.  Guards are  *)
(* dropped in the reverse of the order they were taken, as Rust drops      *)
(* locals and temporaries.  A context that switches away holds no guard;   *)
(* the one place in the kernel where this is not so, the exit syscall, is  *)
(* part of Sched.                                                          *)
(***************************************************************************)
EXTENDS Naturals, Sequences, FiniteSets

CONSTANTS
  Tasks,
  Locks,
  Nesting,   \* <<a, b>>: some code path takes b while it holds a
  First,     \* the task that runs first
  NoCtx      \* "not locked"

Modes == {"task", "irq"}
Ctx == Tasks \X Modes

ASSUME FirstAssumption == First \in Tasks
ASSUME NoCtxAssumption == NoCtx \notin Ctx
ASSUME NestingAssumption ==
  /\ Nesting \subseteq Locks \X Locks
  /\ \A l \in Locks : <<l, l>> \notin Nesting

VARIABLES
  cpu, mode,     \* the running task, and the top context of each task
  iflag,         \* RFLAGS.IF
  syscall,       \* tasks inside a syscall (entered with IF cleared)
  held,          \* SpinLock.locked, with the context that set it
  pc, want, was, \* of a context inside lock(), try_lock() or drop()
  guards         \* the SpinLockGuards a context owns, the newest last

lockVars == <<cpu, mode, iflag, syscall, held, pc, want, was, guards>>

LockInit ==
  /\ cpu = First
  /\ mode = [t \in Tasks |-> "task"]
  /\ iflag = TRUE
  /\ syscall = {}
  /\ held = [l \in Locks |-> NoCtx]
  /\ pc = [c \in Ctx |-> "run"]
  /\ \E l \in Locks : want = [c \in Ctx |-> l]
  /\ was = [c \in Ctx |-> FALSE]
  /\ guards = [c \in Ctx |-> <<>>]

Running(c) == c = <<cpu, mode[cpu]>>
At(c, from) == Running(c) /\ pc[c] = from
Goto(c, to) == pc' = [pc EXCEPT ![c] = to]
Quiet(c) == At(c, "run") /\ guards[c] = <<>>

(***************************************************************************)
(* lock() and try_lock().                                                  *)
(***************************************************************************)
\* interrupts_enabled(): the flag is read, and cli comes only after.  lock()
\* follows the nesting order; try_lock() may be called on any lock.
LockRead(c, l) ==
  /\ At(c, "run")
  /\ \/ Goto(c, "cli") /\ \A i \in 1..Len(guards[c]) : <<guards[c][i].lock, l>> \in Nesting
     \/ Goto(c, "trycli")
  /\ want' = [want EXCEPT ![c] = l]
  /\ was' = [was EXCEPT ![c] = iflag]
  /\ UNCHANGED <<cpu, mode, iflag, syscall, held, guards>>

\* Mutant of LockCli: no cli.
LockCliOpen(c) ==
  /\ Running(c) /\ pc[c] \in {"cli", "trycli"}
  /\ Goto(c, IF pc[c] = "cli" THEN "cas" ELSE "trycas")
  /\ UNCHANGED <<cpu, mode, iflag, syscall, held, want, was, guards>>

LockCli(c) ==
  /\ Running(c) /\ pc[c] \in {"cli", "trycli"}
  /\ iflag' = FALSE
  /\ Goto(c, IF pc[c] = "cli" THEN "cas" ELSE "trycas")
  /\ UNCHANGED <<cpu, mode, syscall, held, want, was, guards>>

\* Mutant of LockCas: a store in place of the compare-exchange.
LockCasBlind(c) ==
  /\ Running(c) /\ pc[c] \in {"cas", "trycas"}
  /\ held' = [held EXCEPT ![want[c]] = c]
  /\ guards' = [guards EXCEPT ![c] = Append(@, [lock |-> want[c], was |-> was[c]])]
  /\ Goto(c, "run")
  /\ UNCHANGED <<cpu, mode, iflag, syscall, want, was>>

\* The compare-exchange: on success the guard keeps the flag that was read,
\* otherwise lock() spins, and try_lock() restores IF and gives up.
LockCas(c) ==
  /\ Running(c) /\ pc[c] \in {"cas", "trycas"}
  /\ held[want[c]] = NoCtx
  /\ held' = [held EXCEPT ![want[c]] = c]
  /\ guards' = [guards EXCEPT ![c] = Append(@, [lock |-> want[c], was |-> was[c]])]
  /\ Goto(c, "run")
  /\ UNCHANGED <<cpu, mode, iflag, syscall, want, was>>

TryLockFails(c) ==
  /\ At(c, "trycas")
  /\ held[want[c]] # NoCtx
  /\ iflag' = (iflag \/ was[c])
  /\ Goto(c, "run")
  /\ UNCHANGED <<cpu, mode, syscall, held, want, was, guards>>

(***************************************************************************)
(* Dropping the newest guard: the release store, then sti.                 *)
(***************************************************************************)
Newest(c) == guards[c][Len(guards[c])]

DropUnlock(c) ==
  /\ At(c, "run")
  /\ guards[c] # <<>>
  /\ held' = [held EXCEPT ![Newest(c).lock] = NoCtx]
  /\ was' = [was EXCEPT ![c] = Newest(c).was]
  /\ guards' = [guards EXCEPT ![c] = SubSeq(@, 1, Len(@) - 1)]
  /\ Goto(c, "sti")
  /\ UNCHANGED <<cpu, mode, iflag, syscall, want>>

\* Mutant of DropSti: an inner guard turns interrupts on.
DropStiAlways(c) ==
  /\ At(c, "sti")
  /\ iflag' = TRUE
  /\ Goto(c, "run")
  /\ UNCHANGED <<cpu, mode, syscall, held, want, was, guards>>

DropSti(c) ==
  /\ At(c, "sti")
  /\ iflag' = (iflag \/ was[c])
  /\ Goto(c, "run")
  /\ UNCHANGED <<cpu, mode, syscall, held, want, was, guards>>

(***************************************************************************)
(* What runs around the locks.                                             *)
(***************************************************************************)
\* An interrupt, at any point of a task's code where IF is set.
Interrupt(t) ==
  /\ cpu = t /\ mode[t] = "task" /\ iflag
  /\ mode' = [mode EXCEPT ![t] = "irq"]
  /\ iflag' = FALSE
  /\ UNCHANGED <<cpu, syscall, held, pc, want, was, guards>>

InterruptReturn(t) ==
  /\ Quiet(<<t, "irq">>)
  /\ mode' = [mode EXCEPT ![t] = "task"]
  /\ iflag' = TRUE
  /\ UNCHANGED <<cpu, syscall, held, pc, want, was, guards>>

\* schedule() from the timer handler.  The next task goes on in the handler
\* it was preempted in, or starts with IF set.
Switch(t, u) ==
  /\ Quiet(<<t, "irq">>)
  /\ t # u
  /\ cpu' = u
  /\ iflag' = (mode[u] = "task")
  /\ UNCHANGED <<mode, syscall, held, pc, want, was, guards>>

\* FMASK clears IF on syscall entry, sysretq sets it again.
SyscallEntry(t) ==
  /\ Quiet(<<t, "task">>) /\ t \notin syscall
  /\ iflag' = FALSE
  /\ syscall' = syscall \cup {t}
  /\ UNCHANGED <<cpu, mode, held, pc, want, was, guards>>

SyscallReturn(t) ==
  /\ Quiet(<<t, "task">>) /\ t \in syscall
  /\ iflag' = TRUE
  /\ syscall' = syscall \ {t}
  /\ UNCHANGED <<cpu, mode, held, pc, want, was, guards>>

LockCode(c) ==
  \/ LockCli(c) \/ LockCas(c) \/ TryLockFails(c)
  \/ DropUnlock(c) \/ DropSti(c)

LockNext ==
  \/ \E c \in Ctx : LockCode(c) \/ \E l \in Locks : LockRead(c, l)
  \/ \E t \in Tasks : \/ Interrupt(t) \/ InterruptReturn(t)
                      \/ SyscallEntry(t) \/ SyscallReturn(t)
                      \/ \E u \in Tasks : Switch(t, u)

LockSpec == LockInit /\ [][LockNext]_lockVars

-----------------------------------------------------------------------------
Owns(c, l) == \E i \in 1..Len(guards[c]) : guards[c][i].lock = l

\* Two contexts never own guards of the same lock, so the &mut T that a
\* guard hands out is exclusive; and a lock is free once its guard is gone.
MutualExclusion ==
  /\ \A l \in Locks, c \in Ctx : held[l] = c <=> Owns(c, l)
  /\ \A c, d \in Ctx, l \in Locks : Owns(c, l) /\ Owns(d, l) => c = d

\* lock() on this one CPU takes its lock at the first compare-exchange: no
\* interrupt handler or other task meets a lock whose holder cannot run.
NeverSpins == \A c \in Ctx : At(c, "cas") => held[want[c]] = NoCtx

\* IF is off while a guard lives, and back on as soon as the outermost one
\* is gone, unless the context runs with interrupts off anyway (a handler,
\* a syscall).  Inner guards never turn it on early.
FlagFollowsGuards ==
  \A c \in Ctx : At(c, "run") =>
    (iflag <=> guards[c] = <<>> /\ c[2] = "task" /\ c[1] \notin syscall)
=============================================================================
