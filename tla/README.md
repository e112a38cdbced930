# TLA+ verification of Zeronix

Zeronix is a single-processor x86-64 kernel in Rust (`src/src`). This directory
holds TLA+ models of its parts, the TLC instances that check them, and TLAPS
proofs about the scheduler, the spin lock, the heap, the shell's jobs, the serial
ring, the file system, the system calls and the commands. `PROJECT.json` lists,
for every definition, the source lines it translates, and for every hazard of the
code, the properties that watch it.

## The system

| Part | Source | Module |
|---|---|---|
| Processes, ready queue, switch, timer slice, spawn, exit | `task/proc.rs`, `task/proc_layout.rs`, IRQ path of `trap/idt.rs`, syscall entry and exit of `syscall.rs` | `Sched` |
| Spin lock that saves the interrupt flag | `lock/spin_lock.rs` | `SpinLock` |
| Physical pages | `mem/page/pagealloc.rs` | `Buddy` (abstract: `PageFrames`) |
| Page tables, address spaces of processes | `mem/page.rs`, `mem/page/pagemapper.rs`, `spawn_user`/`spawn_elf` | `AddressSpace` |
| Intrusive list | `list.rs` | `IntrusiveList` |
| Kernel heap | `mem/alloc.rs`, `alloc_layout.rs` | `Heap` (on top of `IntrusiveList`) |
| RAM file system | `fs/ramfs.rs` | `RamFs` |
| File system calls and descriptor table | `syscall.rs`, `syscall/fd.rs` | `Syscalls` (on top of `RamFs`) |
| User commands, redirections, choice of the program | `user/commands.rs` | `Commands` (on top of `RamFs` and `Elf`) |
| Building and parsing of executables | `user/elf.rs` | `Elf` |
| Shell, line editing, jobs | `main.rs` | `Shell` |
| Serial receive ring and the halting main loop | `stdio.rs`, `main.rs` | `SerialInput` (abstract: `LossyQueue`) |

The timer interrupt drives everything: it counts ticks (`Shell`), ends slices
(`Sched`) and wakes the main loop (`SerialInput`). Locks mask it (`SpinLock`).
Spawning takes frames from the page allocator and builds page tables
(`AddressSpace`), and ends by pushing on the ready queue (`Sched`). System calls
run with interrupts off on one global stack (`Sched`) and reach the file system
through the descriptor table (`Syscalls`, which extends `RamFs`). Lines typed at
the prompt reach the same file system through `Commands`, which reads the
program of a command from its file in `/bin` (`Elf`).

## How state and actions correspond to the code

* `Sched`: `state`, `pc` and `saved` are per process (`Proc` and its stack);
  `current`, the queue and `nextPid` are the statics. `cpu` is the process
  whose stack the processor is on, which differs from `current` inside
  `schedule`. `schedule` is cut at each point where something else could
  matter: enter (`cli`), pop, requeue, install, switch, return. The PIC is a
  set of requested and in-service lines.
* `SpinLock`: a context is a task or the handler that interrupted it; `guards`
  is the stack of guards it holds, with the flag each one saved. `Nesting` is
  the order in which the kernel's code takes locks.
* `Buddy`: the `PageInfo` array with `next`, `prev`, `order` and flags, and the
  list heads. `owned` is a history of what callers hold.
* `AddressSpace`: tables as functions of indices and the mapper's real walk,
  with `Radix` entries in place of 512. Allocation may take a block from the
  low or the high end of memory. A file's code page goes where the file says
  (`LoadPages`): no code compares `p_vaddr` with anything. The properties therefore
  say what a process is promised by where its own file is loaded, and that files
  loaded elsewhere do not matter to it. Once a code page lies over the direct map
  the mapper would write to other frames than it means; the model ends there.
* `IntrusiveList`: every function of `list.rs` as an operator on the `next` and
  `prev` fields of the nodes; the loop macros follow the pointers.
* `Heap`: `node` holds the headers (`HeapNode`: size and links) by address, in
  words; the free list is what following the pointers from the head gives.
  `live` are the blocks callers hold, `chunks` what was taken from the page
  allocator.
* `RamFs`: a function from paths (sequences of names) to nodes. Path strings
  are sequences of components, so `.` and empty components are treated as
  `split_path` treats them. Every method is an operator from a tree and its
  arguments to a tree and a result; the state belongs to `Commands` and
  `Syscalls`, which call them. `SeqParts` has the operations on sequences these
  modules and `Shell` share, in a form the prover can unfold.
* `Elf`: a file is a sequence of units (header, program header, code, text), and
  offsets count units. `Word` is the first number that does not fit a `usize`.
  `parse` has an outcome "Panic": `user/elf.rs:131` adds and multiplies
  unchecked, and the documented build, a debug build, panics on overflow.
* `Commands`: a line is a sequence of words and runs in one step, under the lock
  of `KERNEL_FS`; between lines, programs make directories and write files. A
  line that makes the kernel panic has no next state.
* `Syscalls`: the descriptor table as a sequence. The calls are atomic because
  they run with interrupts off. `exec` ends where it hands the file to
  `spawn_elf`, whose steps are in `AddressSpace` and `Sched`; `SysRefused` stands for
  null pointers, bad strings, `fork` and unknown numbers. Whether the spawn then
  succeeds is left open: the call returns success or an error.
* `Shell`: the line as a sequence of words, the jobs, and the clock in seconds.
  `poll_jobs` reads the clock once (`PollJobs`) and then counts one second per step
  (`PollSecond`), while the timer goes on: `due` is what it has still to count, and
  `lag` how many seconds it is behind the timer. A job also carries two history
  fields: `age`, the seconds the timer counted since it started, and `late`, the
  lag when it started.
* `SerialInput`: the ring's buffer, head and tail, the UART's queue, the
  handler and the main loop, including the instant between finding the ring
  empty and `hlt`. The UART raises its line at `Threshold` bytes (14 of 16 in
  `init_serial_interrupts`) or, with fewer, after its character timeout; the PIC,
  in edge mode, latches a rise of the line and nothing else. A read of the data
  register ends the timeout, and a request that is latched and not yet taken may
  be withdrawn when the line falls.

## Runs

| Run | Question |
|---|---|
| `SchedSafety` | Is any process lost, duplicated or run after its exit, does the interrupt flag cover exactly the critical code, and is the whole a round-robin queue (`RoundRobin`)? The invariant of the proofs (`IInv`) is checked here too. |
| `SchedLive` | Does a ready process run, and an exit end? |
| `SpinLockSafety` | Mutual exclusion, no spinning on the one processor, flag restored by nested guards |
| `BuddyAlloc` | Frames tiled, lists sound, buddies merged, limits respected, refinement of `PageFrames`, also from unaligned memory maps |
| `ShellCommands` | The tree stays a tree; a line changes only what it names; a successful rename moves the subtree; a command has read its operands before its redirection truncates the target; a command runs the program its file holds, or none; what is loaded lies inside the file |
| `SyscallsFiles` | Descriptors are stable; only TRUNC shortens; writes stay in range |
| `ShellJobs` | No job lost, every second counted once (a job is short by what the poll owed when it started, never by more), jobs finish |
| `HeapBlocks` | The pointers of the free list form one ring both ways; blocks disjoint, aligned, large enough, coalesced; no call loses memory but the sliver a cut leaves; one chunk suffices. On start, the list functions against sequences (`ListReference`) |
| `SerialRing` | The ring is a FIFO that gives up its oldest byte when full (`LossyQueue`); no rise of the UART's line is lost; input is handled in spite of the threshold and the halt |
| `AddressSpaces` | Every frame that is not free is a table of one page table or a block of one spawn, or was left behind by a spawn that failed; user mode sees its own pages only; the kernel half is shared, for every process whose own file is loaded in the user half |

Two runs end in a violation, where the code does not do what its documents say:

| Run | What happens |
|---|---|
| `SchedTwoExits` | The guard of `EXIT_CURRENT` (`syscall.rs:237`) is never dropped; the second exit spins for ever. |
| `BootdataMapping` | A program linked inside the boot data replaces the mapping that the comment at `task/proc.rs:395` says must be kept. |

Four more disagreements have no run of their own:

* A rename whose target is invalid or exists has already removed its source
  (`fs/ramfs.rs:150`). `RenameMoves` speaks of renames that succeed.
* A remainder too small for a header is lost when its block is freed
  (`mem/alloc.rs:121-127`). `MemoryConserved` allows this loss and no other.
* `syscall/fd.rs:83` describes a descriptor table per process; the kernel has one
  for all (`syscall.rs:94`), and `Syscalls` models that one.
* `mem/page.rs:175-176` says that only the lower half of a new page table is added
  to; a file whose `p_vaddr` lies in the upper half gets its code page mapped there
  (`task/proc.rs:291`). `AddressSpaces` has such files, and `RingThreeSeesItsOwn` and
  `KernelHalfShared` say what still holds for the others.

## Bounds

Every bound is a constant with its name in the cfg. Three processes, of which
one is spawned while the others run, give every order of preempt, spawn and
exit; a slice of two has a tick that ends it and one that does not (the
liveness instance uses a slice of one). Two tasks and three locks
give a nesting of depth three with handlers in between. Seven frames cut the
last block at the end of memory; four frames suffice for all pairs of
unaligned reserved ranges. Sixty-two frames and tables of four entries exhaust
the memory below the early limit: two processes fit and part of a third, so
that a spawn runs out of memory on its way. Files are loaded inside the boot data,
behind it, in a stack, in the direct map, behind it in the kernel's own tables, and
where the kernel has no tables. A ring of four slots wraps and fills; a UART
queue of three bytes with a threshold of two has bytes below, at and above it. Chunks of 16 words at 16, 32 and 64 are
both adjacent and apart, with four live blocks, one of which needs an alignment
wider than its size; lists of up to four nodes reach every case of the list
functions (empty, only node, first, last, middle). Two jobs and a lag of two
seconds let a poll catch up several seconds, with another one passing meanwhile;
jobs of zero, one and two seconds end in one poll, in the middle of one or in a
later one. Two paths, the
descriptors 1 and 3 (stdout's number, which dup2 and open reuse, and the first one
beyond the standard three) and files of two units let offsets lie before, at and
beyond the end. The lines of `MCCommands` name two files of
`/home`, the file of a command and the directory itself, in each place a command
has, with and without redirection; programs damage the file of `cat` in the three
ways `parse` tells apart.

`ShellCommands` and `SyscallsFiles` have a view without `last`, the result of the
last step. No action reads it, and the properties read it only in the state
after the step they judge, so states that differ in it alone behave alike.

Deadlock is checked except in the runs of `AddressSpace`, where the bound on pids,
or a panic, ends every behaviour.

## Fairness

The timer keeps ticking and a processor with interrupts on takes a pending
interrupt (strong fairness, as interrupts come and go); kernel code that can
run does. What a program may or may not do (a call, a spawn, an exit, a yield)
has no fairness. In `Shell` and `SerialInput` the main loop and the timer are
fair, typed input is not; the UART's character timeout expires in the end.
`SerialInput` also assumes that the line is slower than
the handler (`LineIsSlow`): without it the handler could read for ever while
bytes arrive, and the main loop would never run.

## Proofs

Each theorem holds for every value of the constants that satisfies the named
assumptions of its modules; the runs evaluate the same assumptions on their
instances. A proof has one lemma per action or method and one step per conjunct
that it can disturb.

**The scheduler.** `SchedProofs` proves `TypeOK`, `RunnableInOnePlace`,
`CriticalCodeMasked` and `OrdinaryCodeInterruptible`, `ProcessorMatchesCurrent`,
`SyscallStackExclusive`, `ExitAlwaysSwitches` and `PidsUnique`, for every number of
processes, slice, set of kernel tasks and set of exiting processes. None of these
is inductive by itself. That the queue is right needs interrupts to be off in
`schedule`; that needs the flag each suspended process will restore; that needs
where each process was suspended. `SchedInv` states this as `IInv`: `ControlInv`
(where a process can be: off the processor it is new or just behind the switch),
`FlagInv` (what the flag and its saved copies are), `StateInv` (process states
against control), `SpawnInv` (pids in the hands of spawns), and the properties.
TLC checks `IInv` in `SchedSafety`.

The module goes on from there: every step of the scheduler is a step of
`RoundRobin` or leaves its variables alone (`ImplementsRoundRobin`), where the
queue promised is the ready queue together with the process that `schedule` is
about to put back; and the processor only goes to live processes
(`OnlyLiveProcessesRun`). The invariant is strengthened by `RequeuedLast`: a process
that was just requeued is at the end.

**The spin lock.** `InterruptProofs` proves `MutualExclusion`, `NeverSpins` and
`FlagFollowsGuards` for any tasks, handlers and locks. The invariant relates the
lock words to the stacks of guards, and the flag that the bottom guard of the
running context saved to the flag now.

**The heap.** `HeapProofs`, on top of `HeapListProofs`, proves everything that `HeapBlocks` checks: `RingSound`,
`FreeListSound`, `BlocksDisjoint`, `UserMemoryInBlock`, `OneChunkSuffices` and
`MemoryConserved`, for any number of blocks and chunks and any layouts. None of
them is inductive: that a walk along the pointers ends needs the ring, that the
ring stays in order when blocks merge needs the sizes, and that a new header hits
no user's memory needs both. The invariant `IInv` says it in one predicate, `Sound`:
the pointers of the free blocks make a ring in address order (`Linked`, a statement
about neighbours and not about walks), free blocks have room for a header and do
not touch (`Gaps`), and all blocks lie apart in the heap's chunks (`Laid`). `Walks`
connects it with the loops of the code: on such a ring both directions visit the
free blocks in order. Then each operation is shown to take a sound heap to a sound
heap and to cover the words it should (`DeallocSound`, `GrowSound`, `TakeSound`), over
what linking, removing and absorbing one node do. `OneChunkSuffices` rests on facts
about `align_up`: it is the least multiple (`AlignLeast`), and moving the start of a
block down does not push the user's memory further up than the chunk allows
(`AlignShift`). The assumptions are that chunks lie at multiples of their size, that
of two alignments one divides the other (`LayoutsAssumption`; they are powers of
two), and that the list head, in the allocator itself, is no address of a chunk
(`HeadAssumption`). TLC checks `IInv` on the instance of `HeapBlocks` as well.

**The jobs.** `InterruptProofs` proves `JobsConsistent`, `EverySecondCounts` and
`NoJobLost` for any words, numbers and bounds. The invariant says of each list of
jobs that ids differ and stay below `next_job_id`, that marks fit the list, and
that every job is short of its time by what the poll has still to count (`Sound`);
and that `due` never exceeds `lag`, without which the poll could run ahead of the
clock. `TickSound` is the main lemma: a tick takes a second from every job, drops
those that are done, and drops no other.

**The serial ring.** `InterruptProofs` proves `LineAnswered` and
`ImplementsLossyQueue` of `SerialInput`, for every capacity of the ring and every
size and threshold of the UART's queue. `LineAnswered` says that while the line is
up the PIC holds its request or the handler is at work: a line left up by a handler
that returns could never rise again. Bytes below the threshold are announced by
nobody until the timeout. The invariant adds that the timeout is set only
over bytes (`timeout => fifo # <<>>`), so that the handler, which returns on an
empty queue, leaves the line down (`RiseKept` is the lemma about what arrives
meanwhile). The refinement reads the ring from tail
to head; the lemmas say what a push, a push on a full ring and a pop do to it when
the indices wrap.

**The file system.** `RamFsProofs` shows that every method takes a tree to a tree
whose files hold what the caller wrote, with no bound on depth, names or
lengths. `rename` takes the most work: the nodes below the old path correspond one
to one to those below the new path (`MovedProperties`, `MovedBack`), and the
new path cannot lie inside what was removed, since its parent is looked up after
the removal. `SeqProofs` has the facts about sequences: what `Without` keeps, what
`Flatten` joins, and induction over the naturals with sets in place of
predicates.

**System calls.** `SyscallProofs` proves `TreeWellFormed`, `FdStable`,
`OnlyTruncShortens` and `WritesStayInRange`. The invariant adds to the tree that the
entries of the descriptor table have distinct numbers, paths and offsets in
range of their types.

**Commands.** `CommandProofs` proves everything that `ShellCommands` checks:
`TreeWellFormed`, `LoadInImage`, `CallsAreLocal`, `RenameMoves`,
`RedirectionReadsFirst` and `ProgramsRunAsNamed`, for any lines, programs and
width of `usize`. The invariant is that the files form a finite tree of units.
`Behaves` states what one command promises, and `LineOutcome` how a line is made
of a command and a redirection; the six theorems follow from these two. That the
files are units of `usize` fields is what bounds the sums in `parse`, and that
the tree is finite is what `RenameMoves` needs to count nodes. `LiteralsAssumption`
is there because the provers do not know that a string literal is in `STRING`.

Only model-checked:

* the liveness properties (`RunnableEventuallyRuns`, `ExitTerminates`, `JobsFinish`,
  `InputHandled`): fairness and `ENABLED` are outside the prover;
* the functions of `IntrusiveList` that the heap does not call (`list_add`,
  `list_move` and the like, `list_drain`): TLC compares them with sequences;
* `Buddy`: block sizes and the buddy of a block are powers of two of an order, and
  the provers do not reason about exponents; splitting and merging are a fold over
  the orders. TLC checks it on the bounds above;
* `AddressSpace`: the walk goes down tables it allocates on the way, and mapping a
  range repeats it for every page. Nothing in principle stands in the way of a
  proof along the lines of the heap's; TLC checks it on the bounds above.

## Not modelled

* `boot.S`, the GDT, the encoding of IDT entries, and the programming of the PIC
  and the PIT: straight-line code that runs once and has no state to check.
* The contents of registers at a switch (`__switch_to`, the trap frame): `Sched`
  keeps where a process goes on, not what its registers hold.
* Formatting in `printk`, the polled serial transmitter, the wording of the
  commands' errors, and the copy of stdout and stderr on the console: output
  that nothing reads back.
* CPU exceptions, which panic.
* `MEMORY` and the other globals of `mem/`, which are constants of `Buddy` and
  `AddressSpace`.
* What grows without a bound: the bytes kept for stdout (`syscall/fd.rs:199`) and
  the memory of processes that exited (`task/proc.rs:336`), which nothing frees.

## Plan

Still to be proved: `KernelHalfShared` and `EveryFrameHasOneOwner` for `AddressSpace`.
