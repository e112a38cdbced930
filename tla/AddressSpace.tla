---------------------------- MODULE AddressSpace ----------------------------
(***************************************************************************)
(* Page tables: the mapper of src/mem/page/pagemapper.rs, the kernel's and *)
(* the processes' tables of src/mem/page.rs, and how spawn_user and        *)
(* spawn_elf of src/task/proc.rs lay out an address space.                 *)
(*                                                                         *)
(* Addresses are page and frame numbers.  Tables have Radix entries where  *)
(* the hardware has 512; the upper half of the PML4 is the kernel's.  The  *)
(* buddy allocator is what PageFrames promises: some aligned free block.   *)
(* A spawn is cut into its phases; the shell's may be preempted between    *)
(* them and a program's exec may run.  The lock is also dropped between    *)
(* the pages of a range, where an interleaving only picks other frames.    *)
(***************************************************************************)
EXTENDS Naturals, FiniteSetsExt, SequencesExt

CONSTANTS
  Radix,             \* entries of a table, even
  FrameCount,        \* frames of memory, all of them available
  EarlyLimit,        \* EARLY_PAGE_TABLE_LIMIT, in frames
  Text, Rodata, Data,     \* frames of the kernel image (Data with bss)
  Bootdata, Mbi,     \* frames of the boot stack and of the multiboot information
  CodeBase,          \* USER_CODE_BASE
  SlotPages,         \* USER_SLOT_SIZE
  StackTop,          \* USER_STACK_TOP
  StackOrder, KStackOrder,
  LoadPages,         \* pages of p_vaddr in the files that can be executed
  BootUsers,         \* processes that kernel_main makes with spawn_user
  MaxPid             \* bound on the pids handed out

Frames == 0..(FrameCount - 1)
Image == Text \cup Rodata \cup Data
Half == Radix^3 * (Radix \div 2)     \* KERNEL_VMA

ASSUME LayoutAssumption ==
  /\ Radix \in Nat /\ Radix % 2 = 0
  /\ FrameCount \in 1..Half /\ EarlyLimit \in 1..FrameCount
  /\ Image \cup Bootdata \cup Mbi \subseteq Frames
  /\ Image \cap (Bootdata \cup Mbi) = {}
  /\ LoadPages \subseteq 0..(2 * Half - 1)
  /\ StackTop \in Nat /\ StackTop - (MaxPid * SlotPages) > CodeBase + MaxPid * SlotPages
ASSUME PidsAssumption == MaxPid \in Nat /\ BootUsers \in 0..MaxPid

VARIABLES
  mem,       \* the tables, the free frames, and ok: no expect has failed and
             \* KERNEL_VMA + phys still is phys
  procs,     \* what was spawned: a set of processes
  nextPid,   \* NEXT_PID
  work       \* the spawn that the shell, or a program's exec, is in

vars == <<mem, procs, nextPid, work>>

(***************************************************************************)
(* The mapper.                                                             *)
(***************************************************************************)
Absent == [addr |-> 0, flags |-> {}]
EmptyTable == [i \in 0..(Radix - 1) |-> Absent]
is_present(e) == "PRESENT" \in e.flags
index(virt, level) == (virt \div Radix^level) % Radix

\* A frame below the limit becomes a table, or expect panics.
LowFree(m) == {f \in m.free : f < EarlyLimit}

NewTable(m, content) ==
  IF LowFree(m) = {} THEN [m EXCEPT !.ok = FALSE]
  ELSE LET new == Min(LowFree(m))
       IN  [m EXCEPT !.free = @ \ {new},
                     !.tables = (new :> content) @@ @]

\* The entry of a table is set to a new table below it.
CreateTable(m, t, i, flags) ==
  LET n == NewTable(m, EmptyTable)
  IN  IF ~n.ok THEN n
      ELSE [n EXCEPT !.tables[t][i] = [addr |-> Min(LowFree(m)), flags |-> flags]]

\* Mutant of get_or_create_table: the flags of an entry stay as they are.
get_or_create_tableAsIs(m, t, i, flags) ==
  IF is_present(m.tables[t][i]) THEN m ELSE CreateTable(m, t, i, flags)

\* A new table, or the one there is, with its flags raised to the caller's.
get_or_create_table(m, t, i, flags) ==
  IF is_present(m.tables[t][i]) THEN [m EXCEPT !.tables[t][i].flags = @ \cup flags]
  ELSE CreateTable(m, t, i, flags)

\* F(x), with x evaluated before F is: the folds below nest deeply otherwise.
Strict(F(_), x) == CHOOSE y \in {F(z) : z \in {x}} : TRUE

\* Down the levels PML4, PDPT and PD, then the entry in the PT.
map(m, pml4, virt, phys, flags) ==
  LET table_flags == {"PRESENT", "WRITABLE"} \cup (flags \cap {"USER"})
      Down(s, level) ==
        LET n == get_or_create_table(s.m, s.table, index(virt, level), table_flags)
        IN  IF ~s.m.ok THEN s
            ELSE [m |-> n, table |-> n.tables[s.table][index(virt, level)].addr]
      pt == FoldLeft(Down, [m |-> m, table |-> pml4], <<3, 2, 1>>)
  IN  IF ~pt.m.ok THEN pt.m
      ELSE [pt.m EXCEPT !.tables[pt.table][index(virt, 0)] =
              [addr |-> phys, flags |-> flags \cup {"PRESENT"}]]

\* map for each frame, at base + frame: ascending, one row of Radix at a time.
set_range(m, pml4, base, frames, flags) ==
  LET MapFrame(x, f) == map(x, pml4, base + f, f, flags)
      Row(r) == SelectSeq([i \in 1..Radix |-> Radix * r + i - 1], LAMBDA f : f \in frames)
      Rows == SelectSeq([r \in 1..FrameCount |-> r - 1], LAMBDA r : Row(r) # <<>>)
      MapRow(x, r) == FoldLeft(LAMBDA y, f : Strict(LAMBDA z : MapFrame(z, f), y), x, Row(r))
  IN  FoldLeft(LAMBDA x, r : Strict(LAMBDA y : MapRow(y, r), x), m, Rows)

(***************************************************************************)
(* The kernel's page table and a new one for a process.                    *)
(***************************************************************************)
kernel_pml4 == Min({f \in Frames : f \notin Image \cup Bootdata \cup Mbi})

init_kernel_page_table ==
  LET k == kernel_pml4
      start == NewTable([tables |-> <<>>, ok |-> TRUE,
                         free |-> Frames \ (Image \cup Bootdata \cup Mbi)], EmptyTable)
      ranges == << <<Half, Frames, {"WRITABLE", "NX"}>>, <<Half, Image, {"WRITABLE", "NX"}>>,
                   <<0, Bootdata, {"WRITABLE", "NX"}>>, <<0, Mbi, {"WRITABLE", "NX"}>>,
                   <<Half, Text, {}>>, <<Half, Rodata, {"NX"}>>,
                   <<Half, Data, {"WRITABLE", "NX"}>> >>
  IN  FoldLeft(LAMBDA m, r : Strict(LAMBDA y : set_range(y, k, r[1], r[2], r[3]), m),
               start, ranges)

\* Mutant of create_user_page_table: both halves are copied.
create_user_page_tableWhole(m) == NewTable(m, m.tables[kernel_pml4])

\* Mutant of create_user_page_table: the first entry of the half is left out.
create_user_page_tableShort(m) ==
  NewTable(m, [i \in 0..(Radix - 1) |->
                 IF i <= Radix \div 2 THEN Absent ELSE m.tables[kernel_pml4][i]])

create_user_page_table(m) ==
  NewTable(m, [i \in 0..(Radix - 1) |->
                 IF i < Radix \div 2 THEN Absent ELSE m.tables[kernel_pml4][i]])

(***************************************************************************)
(* spawn_user and spawn_elf.  work[s] is the process s is building, at the *)
(* point of the code named by at.                                          *)
(***************************************************************************)
Spawners == {"shell", "exec"}
Idle == [at |-> "idle"]

user_code_base(pid) == CodeBase + pid * SlotPages
user_stack_top(pid) == StackTop - pid * SlotPages

Block(b, order) == b..(b + 2^order - 1)

\* Where a process will find its code and its stack.
StackPages(p) == (user_stack_top(p.pid) - 2^StackOrder)..(user_stack_top(p.pid) - 1)

Goes(s, w) == work' = [work EXCEPT ![s] = w]
Mapped(s, m, to) ==
  /\ mem' = m
  /\ Goes(s, [work[s] EXCEPT !.at = to])
  /\ UNCHANGED <<procs, nextPid>>

\* The pid is taken, then the page table.
SpawnBegin(s, elf, code) ==
  /\ mem.ok /\ work[s] = Idle
  /\ nextPid <= MaxPid
  /\ nextPid' = nextPid + 1
  /\ mem' = create_user_page_table(mem)
  /\ Goes(s, [at |-> "bootdata", pid |-> nextPid, elf |-> elf, codePage |-> code,
              pml4 |-> IF mem'.ok THEN Min(LowFree(mem)) ELSE 0])
  /\ UNCHANGED procs

\* kernel_main, before anything else runs.
SpawnUser == nextPid <= BootUsers /\ SpawnBegin("shell", FALSE, user_code_base(nextPid))

\* run in the shell, or the exec syscall of a process.  The code goes where
\* the file says: parse compares p_vaddr with nothing.
SpawnElf(s, virt_addr) ==
  /\ nextPid > BootUsers /\ Cardinality(procs) >= BootUsers
  /\ SpawnBegin(s, TRUE, virt_addr)

map_bootdata_identity(s) ==
  /\ mem.ok /\ work[s].at = "bootdata"
  /\ Mapped(s, set_range(mem, work[s].pml4, 0, Bootdata, {"WRITABLE", "NX"}), "allocate")

\* The kernel stack, the code page and the user stack, one after the other,
\* each the lowest or the highest block there is.  When one of them cannot
\* be had, spawn_user panics, and spawn_elf returns NoMemory and forgets
\* what it has allocated.
FreeBlocks(free, order) == {b \in free : b % 2^order = 0 /\ Block(b, order) \subseteq free}

AllocateAll(free, end) ==
  FoldLeft(LAMBDA a, order :
             LET found == FreeBlocks(a.free, order)
                 first == IF end = "low" THEN Min(found) ELSE Max(found)
             IN  IF a.failed \/ found = {} THEN [a EXCEPT !.failed = TRUE]
                 ELSE [a EXCEPT !.free = @ \ Block(first, order), !.got = Append(@, first)],
           [free |-> free, got |-> <<>>, failed |-> FALSE], <<KStackOrder, 0, StackOrder>>)

Allocated(s, a) ==
  Goes(s, IF a.failed THEN Idle
          ELSE [at |-> "code", pid |-> work[s].pid, codePage |-> work[s].codePage,
                pml4 |-> work[s].pml4, kstack |-> a.got[1], code |-> a.got[2],
                stack |-> a.got[3]])

AllocateMemory(s) ==
  /\ mem.ok /\ work[s].at = "allocate"
  /\ \E a \in {AllocateAll(mem.free, end) : end \in {"low", "high"}} :
       /\ mem' = [mem EXCEPT !.free = a.free, !.ok = ~a.failed \/ work[s].elf]
       /\ Allocated(s, a)
  /\ UNCHANGED <<procs, nextPid>>

\* Where the kernel finds the frames, at KERNEL_VMA + phys.
DirectMap == Half..(Half + FrameCount - 1)

\* A code page over the direct map is the last step that is modelled: the
\* mapper would go on in other frames than it means.
MapCode(s) ==
  LET w == work[s]
      m == map(mem, w.pml4, w.codePage, w.code, {"USER"})
  IN  /\ mem.ok /\ w.at = "code"
      /\ Mapped(s, [m EXCEPT !.ok = @ /\ w.codePage \notin DirectMap], "stack")

map_user_stack(s) ==
  LET w == work[s]
      bottom == Min(StackPages(w))
  IN  /\ mem.ok /\ w.at = "stack"
      /\ Mapped(s, FoldLeft(LAMBDA m, i : map(m, w.pml4, bottom + i - 1, w.stack + i - 1,
                                               {"WRITABLE", "USER", "NX"}),
                            mem, [i \in 1..2^StackOrder |-> i]), "push")

\* The process is complete and goes to the ready queue.
PushReady(s) ==
  /\ mem.ok /\ work[s].at = "push"
  /\ procs' = procs \cup {[work[s] EXCEPT !.at = "ready"]}
  /\ Goes(s, Idle)
  /\ UNCHANGED <<mem, nextPid>>

Init ==
  /\ mem = init_kernel_page_table
  /\ procs = {} /\ nextPid = 1
  /\ work = [s \in Spawners |-> Idle]

Next ==
  \/ SpawnUser
  \/ \E s \in Spawners :
       \/ \E virt_addr \in LoadPages : SpawnElf(s, virt_addr)
       \/ map_bootdata_identity(s) \/ AllocateMemory(s)
       \/ MapCode(s) \/ map_user_stack(s) \/ PushReady(s)

Spec == Init /\ [][Next]_vars

-----------------------------------------------------------------------------
(***************************************************************************)
(* What the CPU makes of a table: the frame, and the rights that all       *)
(* levels grant.                                                           *)
(***************************************************************************)
Walk(pml4, virt) ==
  LET Step(w, level) ==
        IF ~w.present THEN w
        ELSE LET e == mem.tables[w.addr][index(virt, level)]
             IN  [present |-> is_present(e), addr |-> e.addr,
                  rights |-> w.rights \cap e.flags, nx |-> w.nx \/ "NX" \in e.flags]
      start == [present |-> TRUE, addr |-> pml4, rights |-> {"WRITABLE", "USER"}, nx |-> FALSE]
  IN  Step(Step(Step(Step(start, 3), 2), 1), 0)

Maps(pml4, virt, frame, rights, nx) ==
  Walk(pml4, virt) = [present |-> TRUE, addr |-> frame, rights |-> rights, nx |-> nx]

UserPages(pml4) ==
  {v \in 0..(2 * Half - 1) : LET w == Walk(pml4, v) IN w.present /\ "USER" \in w.rights}

StackFrames(p) == Block(p.stack, StackOrder)
UserFrames(p) == {p.code} \cup StackFrames(p)

Below(t, entries) == {mem.tables[t][i].addr : i \in {j \in entries : is_present(mem.tables[t][j])}}

\* The tables reached from a PML4 through these of its entries.
TablesUnder(pml4, entries) ==
  LET all == 0..(Radix - 1)
      pdpts == Below(pml4, entries)
      pds == UNION {Below(t, all) : t \in pdpts}
  IN  {pml4} \cup pdpts \cup pds \cup UNION {Below(t, all) : t \in pds}

\* Processes that are spawned or being spawned, with the blocks they have.
Spawned == procs \cup {work[s] : s \in {x \in Spawners : work[x] # Idle}}
Blocks(p) ==
  IF p.at \in {"bootdata", "allocate"} THEN {}
  ELSE UserFrames(p) \cup Block(p.kstack, KStackOrder)
KernelTables(entries) == TablesUnder(kernel_pml4, entries)
OwnTables(p) ==
  TablesUnder(p.pml4, 0..(Radix - 1)) \ KernelTables((Radix \div 2)..(Radix - 1))

\* Every frame has one owner: the free lists, the image and the boot data,
\* the kernel's tables, or one process, as a table of its own or as a
\* block.  Processes share no tables but those of the kernel's upper half, a
\* frame is never in two uses however two spawns interleave and wherever
\* files are loaded, and none is lost until a spawn_elf fails: only NoMemory
\* leaves frames behind.
EveryFrameHasOneOwner ==
  LET owned(p) == OwnTables(p) \cup Blocks(p)
      kernel == Image \cup Bootdata \cup Mbi \cup KernelTables(0..(Radix - 1))
      used == UNION {owned(p) : p \in Spawned}
  IN  mem.ok =>
        /\ \A p \in Spawned : OwnTables(p) \cap Blocks(p) = {}
        /\ \A p, q \in Spawned : p # q => owned(p) \cap owned(q) = {}
        /\ used \cap (mem.free \cup kernel) = {} /\ mem.free \cap kernel = {}
        /\ Cardinality(Spawned) = nextPid - 1 => used \cup mem.free \cup kernel = Frames

\* The code page lies in the user half, and not where the stack goes.
LinkedLow(p) == p.codePage < Half
LinkedApart(p) == LinkedLow(p) /\ p.codePage \notin StackPages(p)

\* A process can run: in ring 3 it has its stack, writable and not
\* executable, wherever its file was loaded; and if that is in the user half
\* apart from the stack, it reaches its code, read-only, and nothing else,
\* whatever other processes are loaded where.  In particular the bootdata
\* pages stay closed to it although the tables above them were raised to
\* USER (map_bootdata_identity's comment).
RingThreeSeesItsOwn ==
  \A p \in procs :
    /\ \A v \in StackPages(p) :
         Maps(p.pml4, v, p.stack + (v - Min(StackPages(p))), {"WRITABLE", "USER"}, TRUE)
    /\ LinkedApart(p) => /\ UserPages(p.pml4) = {p.codePage} \cup StackPages(p)
                         /\ Maps(p.pml4, p.codePage, p.code, {"USER"}, FALSE)

\* Entered from a process that is loaded in the user half, the kernel finds
\* its own upper half, with its own rights, also when other files were
\* loaded there; and it finds every page table at KERNEL_VMA + phys, where
\* the mapper writes, until a file is loaded over that very map.
KernelHalfShared ==
  \A p \in {q \in procs : LinkedLow(q)} :
    /\ \A v \in Half..(2 * Half - 1) : Walk(p.pml4, v) = Walk(kernel_pml4, v)
    /\ (\A q \in Spawned : q.codePage \notin DirectMap) =>
         \A t \in DOMAIN mem.tables : Maps(p.pml4, Half + t, t, {"WRITABLE"}, TRUE)

\* schedule() leaves the boot process on the bootdata stack with the new
\* CR3 loaded already, so every process must keep that identity mapping
\* (map_bootdata_identity's comment).
BootdataKept ==
  \A p \in procs : \A f \in Bootdata : Maps(p.pml4, f, f, {"WRITABLE"}, TRUE)
=============================================================================
