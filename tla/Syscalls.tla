------------------------------ MODULE Syscalls ------------------------------
(***************************************************************************)
(* The file system calls: src/syscall.rs over the descriptor table of      *)
(* src/syscall/fd.rs and the file system of RamFs.                         *)
(*                                                                         *)
(* A call runs with interrupts masked and under the locks of KERNEL_FS and *)
(* KERNEL_FD_TABLE, so it is one step.  The kernel has one table for all   *)
(* processes, so it does not matter which of them calls.  Arguments arrive *)
(* decoded; a call whose arguments cannot be is refused (SysRefused).      *)
(***************************************************************************)
EXTENDS RamFs

CONSTANTS
  FlagSets,   \* the open flags they pass, as sets of names
  FdNums,     \* the descriptors they name
  Sizes,      \* lengths of read buffers
  MaxFds      \* bound on the length of the table

ASSUME FdNumsAssumption == FdNums \subseteq Nat /\ MaxFds \in Nat
ASSUME SizesAssumption == Sizes \subseteq Nat
ASSUME FlagsAssumption ==
  \A flags \in FlagSets : flags \subseteq {"READ", "WRITE", "CREATE", "TRUNC", "APPEND"}

VARIABLES
  entries   \* FileDescriptorTable::entries, descriptor fd at fd + 1

sysVars == <<fs, last, entries>>

(***************************************************************************)
(* The descriptor table.                                                   *)
(***************************************************************************)
Closed == [kind |-> "none"]
Stdin == [kind |-> "stdin", data |-> <<>>, offset |-> 0]
Stdout == [kind |-> "stdout", data |-> <<>>]
Stderr == [kind |-> "stderr", data |-> <<>>]
OpenFile(path, flags) == [kind |-> "file", path |-> path, offset |-> 0, flags |-> flags]

table_new == <<Stdin, Stdout, Stderr>>

entry(t, fd) == IF fd < Len(t) THEN t[fd + 1] ELSE Closed

\* Mutant of free_fd: off by one at the end of the table.
free_fdLast(t) == Len(t) - 1

\* insert takes the first empty slot, or grows the table by one.
free_fd(t) ==
  CHOOSE fd \in 0..Len(t) :
    entry(t, fd) = Closed /\ \A other \in 0..(fd - 1) : entry(t, other) # Closed

\* Storing at fd, with empty slots in between if the table is too short.
store(t, fd, e) ==
  [i \in 1..(IF fd < Len(t) THEN Len(t) ELSE fd + 1) |->
     IF i = fd + 1 THEN e ELSE IF i <= Len(t) THEN t[i] ELSE Closed]

\* copy_from_offset: how many bytes a read of n bytes returns.
available(data, offset, n) ==
  IF offset >= Len(data) THEN 0
  ELSE IF n < Len(data) - offset THEN n ELSE Len(data) - offset

\* Mutant of overwrite: the file ends with what was written.
overwriteCuts(data, offset, buf) ==
  [i \in 1..(offset + Len(buf)) |->
     IF i > offset THEN buf[i - offset] ELSE IF i <= Len(data) THEN data[i] ELSE "0"]

\* Mutant of overwrite: the offset is ignored.
overwriteFront(data, offset, buf) ==
  [i \in 1..(IF Len(buf) > Len(data) THEN Len(buf) ELSE Len(data)) |->
     IF i <= Len(buf) THEN buf[i] ELSE data[i]]

\* The file after buf is written at offset; a gap is filled with zeros.
overwrite(data, offset, buf) ==
  LET end == offset + Len(buf)
  IN  [i \in 1..(IF end > Len(data) THEN end ELSE Len(data)) |->
         IF i \in (offset + 1)..end THEN buf[i - offset]
         ELSE IF i <= Len(data) THEN data[i] ELSE "0"]

(***************************************************************************)
(* The calls.                                                              *)
(***************************************************************************)
Result(op, fd, res) == last' = [op |-> op, fd |-> fd, res |-> res]

NoFd == MaxFds

\* A call that failed, or changed nothing but the file system.
FsOnly(op, fd, r) ==
  /\ Within(r.fs)
  /\ fs' = r.fs
  /\ Result(op, fd, r.res)
  /\ UNCHANGED entries

Fails(op, fd, err) == FsOnly(op, fd, [fs |-> fs, res |-> err])

\* open creates and truncates first; without CREATE and TRUNC the file must
\* exist.
opened(f, path, flags) ==
  LET made == IF "CREATE" \in flags THEN touch(f, path) ELSE Try(f, "Ok", f)
  IN  IF made.res # "Ok" THEN made
      ELSE IF "TRUNC" \in flags THEN write(made.fs, path, <<>>)
      ELSE IF "CREATE" \in flags THEN made ELSE Try(f, read(f, path), f)

SysOpen(path, flags) ==
  LET r == opened(fs, path, flags)
      fd == free_fd(entries)
  IN  IF r.res # "Ok" THEN FsOnly("open", NoFd, r)
      ELSE /\ fd < MaxFds
           /\ fs' = r.fs
           /\ entries' = store(entries, fd, OpenFile(path, flags))
           /\ Result(IF "TRUNC" \in flags THEN "truncate" ELSE "open", fd, "Ok")

SysClose(fd) ==
  IF entry(entries, fd) = Closed THEN Fails("close", fd, "BadFd")
  ELSE /\ entries' = [entries EXCEPT ![fd + 1] = Closed]
       /\ Result("close", fd, "Ok")
       /\ UNCHANGED fs

\* dup2 copies the entry, offset included, over whatever was at new.
SysDup2(old, to) ==
  IF entry(entries, old) = Closed THEN Fails("dup2", to, "BadFd")
  ELSE /\ to < MaxFds
       /\ entries' = store(entries, to, entry(entries, old))
       /\ Result("dup2", to, "Ok")
       /\ UNCHANGED fs

SysRead(fd, n) ==
  LET e == entry(entries, fd)
      advance(data) ==
        /\ entries' = [entries EXCEPT ![fd + 1].offset = @ + available(data, @, n)]
        /\ Result("read", fd, "Ok")
        /\ UNCHANGED fs
  IN  CASE e.kind = "none" -> Fails("read", fd, "BadFd")
        [] e.kind = "stdin" -> advance(e.data)
        [] e.kind \in {"stdout", "stderr"} -> Fails("read", fd, "Permission")
        [] e.kind = "file" ->
             IF "READ" \notin e.flags THEN Fails("read", fd, "Permission")
             ELSE IF read(fs, e.path) # "Ok" THEN Fails("read", fd, read(fs, e.path))
             ELSE advance(contents(fs, e.path))

\* A file is read, changed and written back as a whole; one that is gone
\* counts as empty and is created again.
SysWrite(fd, buf) ==
  LET e == entry(entries, fd)
      whole == IF read(fs, e.path) = "Ok" THEN contents(fs, e.path) ELSE <<>>
      r == IF "APPEND" \in e.flags THEN append(fs, e.path, buf)
           ELSE write(fs, e.path, overwrite(whole, e.offset, buf))
  IN  CASE e.kind = "none" -> Fails("write", fd, "BadFd")
        [] e.kind = "stdin" -> Fails("write", fd, "Permission")
        [] e.kind \in {"stdout", "stderr"} ->
             /\ Len(e.data) + Len(buf) <= MaxLen
             /\ entries' = [entries EXCEPT ![fd + 1].data = @ \o buf]
             /\ Result("write", fd, "Ok")
             /\ UNCHANGED fs
        [] e.kind = "file" ->
             IF "WRITE" \notin e.flags THEN Fails("write", fd, "Permission")
             ELSE IF r.res # "Ok" THEN Fails("write", fd, r.res)
             ELSE /\ Within(r.fs)
                  /\ fs' = r.fs
                  /\ entries' = IF "APPEND" \in e.flags THEN entries
                                ELSE [entries EXCEPT ![fd + 1].offset = @ + Len(buf)]
                  /\ Result("write", fd, "Ok")

SysUnlink(path) == FsOnly("unlink", NoFd, remove(fs, path))
SysRename(old, to) == FsOnly("rename", NoFd, rename(fs, old, to))
SysMkdir(path) == FsOnly("mkdir", NoFd, mkdir(fs, path))

\* exec reads the file and hands it to exec_program, whose spawn_elf
\* (AddressSpace, Sched) makes a process of it or fails.
SysExec(path) ==
  \E spawned \in {"Ok", "InvalidArgument"} :
    FsOnly("exec", NoFd,
           [fs |-> fs, res |-> IF read(fs, path) = "Ok" THEN spawned ELSE read(fs, path)])

\* What dispatch and the decoding of arguments refuse before anything is
\* touched: a null pointer or a string that is too long or no UTF-8, fork,
\* and a number that is no call.
SysRefused ==
  \E err \in {"InvalidArgument", "Unsupported", "NoSuchSyscall"} : Fails("refused", NoFd, err)

SysInit ==
  /\ fs = new
  /\ entries = table_new
  /\ last = [op |-> "boot", fd |-> NoFd, res |-> "Ok"]

SysNext ==
  \/ SysRefused
  \/ \E path \in Paths :
       \/ \E flags \in FlagSets : SysOpen(path, flags)
       \/ SysUnlink(path) \/ SysMkdir(path) \/ SysExec(path)
       \/ \E to \in Paths : SysRename(path, to)
  \/ \E fd \in FdNums :
       \/ SysClose(fd)
       \/ \E to \in FdNums : SysDup2(fd, to)
       \/ \E n \in Sizes : SysRead(fd, n)
       \/ \E buf \in Chunks : SysWrite(fd, buf)

SysSpec == SysInit /\ [][SysNext]_sysVars

-----------------------------------------------------------------------------
\* A descriptor means the same file until a call names it: open never takes
\* a number in use, and the calls on one descriptor leave the offsets and
\* flags of all others alone, those made from it by dup2 included.
FdStable ==
  [][\A fd \in 0..(MaxFds - 1) :
       entry(entries, fd) # Closed /\ entry(entries', fd) # entry(entries, fd)
         => last'.fd = fd /\ last'.op \in {"close", "dup2", "read", "write"}]_sysVars

\* Only open with TRUNC shortens a file that keeps its name: a write through
\* a descriptor whose offset is behind or beyond the end, after the file
\* grew, was truncated or was created anew, never drops bytes.
OnlyTruncShortens ==
  [][\A p \in DOMAIN fs \cap DOMAIN fs' :
       Len(fs'[p].data) < Len(fs[p].data) => last'.op = "truncate"]_sysVars

\* Bytes come from somewhere: a file changes in a write only where the call
\* writes, or by zeros between its old end and the descriptor's offset; with
\* APPEND its old content stays in front.
WritesStayInRange ==
  [][last'.op = "write" =>
       \A p \in DOMAIN fs : IsFile(fs, p) /\ fs'[p] # fs[p] =>
         LET e == entry(entries, last'.fd)
             from == IF "APPEND" \in e.flags THEN Len(fs[p].data) ELSE e.offset
             to == entry(entries', last'.fd).offset
         IN  /\ p = split_path(e.path)
             /\ \A i \in 1..Len(fs'[p].data) :
                  \/ i > from /\ ("APPEND" \in e.flags \/ i <= to)
                  \/ fs'[p].data[i] =
                       IF i <= Len(fs[p].data) THEN fs[p].data[i] ELSE "0"]_sysVars
=============================================================================
