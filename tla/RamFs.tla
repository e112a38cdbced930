------------------------------- MODULE RamFs -------------------------------
(***************************************************************************)
(* The in-memory file system of src/fs/ramfs.rs.                           *)
(*                                                                         *)
(* The tree of nodes is a function from the place of a node (the names on  *)
(* the way down from the root) to the node.  A path is the sequence of the *)
(* pieces of its text between slashes, as str::split returns them.  The    *)
(* methods are operators from a tree to a new tree and a result, from      *)
(* which the system calls (Syscalls) and the shell's commands (Commands)   *)
(* are built; each of those runs under the lock of KERNEL_FS.              *)
(***************************************************************************)
EXTENDS Naturals, FiniteSets, Functions, SeqParts

CONSTANTS
  Paths,      \* the paths that callers pass
  Chunks,     \* the byte sequences that callers write
  Seed,       \* names of the directories made by new
  MaxDepth,   \* bound on the depth of the tree
  MaxLen      \* bound on the length of a file

ASSUME PathsAssumption == Paths \subseteq Seq(STRING)
ASSUME ChunksAssumption == \A data \in Chunks : data \in Seq(Range(data))
ASSUME SeedAssumption == Seed \subseteq STRING \ {"", "."}
ASSUME BoundsAssumption == MaxDepth \in Nat /\ MaxLen \in Nat

VARIABLES
  fs,    \* RamFs::root
  last   \* the last call and its result

Dir == [kind |-> "dir", data |-> <<>>]
File(data) == [kind |-> "file", data |-> data]
IsDir(f, p) == p \in DOMAIN f /\ f[p].kind = "dir"
IsFile(f, p) == p \in DOMAIN f /\ f[p].kind = "file"

Below(f, p) == {q \in DOMAIN f : IsPrefix(p, q)}   \* p and what is under it
Put(f, p, n) == [q \in DOMAIN f \cup {p} |-> IF q = p THEN n ELSE f[q]]
Drop(f, p) == [q \in DOMAIN f \ Below(f, p) |-> f[q]]

\* What a call returns and leaves behind: g if it succeeds, else f.
Try(f, err, g) == IF err = "Ok" THEN [fs |-> g, res |-> err] ELSE [fs |-> f, res |-> err]

(***************************************************************************)
(* Paths.                                                                  *)
(***************************************************************************)
IsAbsolute(path) == Len(path) > 1 /\ path[1] = ""
split_path(path) == Without(path, {"", "."})

\* Walking down, each step needs a directory that has the next name.
node(f, parts) ==
  LET known == {i \in 0..Len(parts) : \A j \in 0..i : SubSeq(parts, 1, j) \in DOMAIN f}
      reached == SubSeq(parts, 1, CHOOSE i \in known : \A j \in known : j <= i)
  IN  IF reached = parts THEN "Ok"
      ELSE IF IsFile(f, reached) THEN "NotDirectory" ELSE "NotFound"

dir_mut(f, parts) ==
  IF node(f, parts) = "Ok" /\ IsFile(f, parts) THEN "NotDirectory" ELSE node(f, parts)

\* split_path, split_parent and dir_mut, as most methods begin.
parent(f, path) ==
  IF ~IsAbsolute(path) \/ split_path(path) = <<>> THEN "InvalidPath"
  ELSE dir_mut(f, Front(split_path(path)))

\* Mutant of writable: a directory may be overwritten.
writableAnything(f, path) == parent(f, path)

\* The checks that touch, write and append share.
writable(f, path) ==
  IF parent(f, path) = "Ok" /\ IsDir(f, split_path(path)) THEN "IsDirectory"
  ELSE parent(f, path)

(***************************************************************************)
(* The methods.                                                            *)
(***************************************************************************)
mkdir(f, path) ==
  LET p == split_path(path)
      err == IF IsAbsolute(path) /\ p = <<>> THEN "AlreadyExists"
             ELSE IF parent(f, path) = "Ok" /\ p \in DOMAIN f THEN "AlreadyExists"
             ELSE parent(f, path)
  IN  Try(f, err, Put(f, p, Dir))

touch(f, path) ==
  LET p == split_path(path)
  IN  Try(f, writable(f, path), IF p \in DOMAIN f THEN f ELSE Put(f, p, File(<<>>)))

write(f, path, data) ==
  Try(f, writable(f, path), Put(f, split_path(path), File(data)))

append(f, path, data) ==
  LET p == split_path(path)
      old == IF p \in DOMAIN f THEN f[p].data ELSE <<>>
  IN  Try(f, writable(f, path), Put(f, p, File(old \o data)))

\* read's result is an error or Ok; the data is then contents(f, path).
read(f, path) ==
  LET p == split_path(path)
  IN  IF ~IsAbsolute(path) THEN "InvalidPath"
      ELSE IF IsDir(f, p) THEN "IsDirectory" ELSE node(f, p)

contents(f, path) == f[split_path(path)].data

\* list's result; the names are then names(f, path).
list(f, path) ==
  LET p == split_path(path)
  IN  IF ~IsAbsolute(path) THEN "InvalidPath"
      ELSE IF IsFile(f, p) THEN "NotDirectory" ELSE node(f, p)

names(f, path) ==
  {Last(p) : p \in {q \in DOMAIN f : q # <<>> /\ Front(q) = split_path(path)}}

\* Mutant of remove: a directory goes with what it holds.
removeAll(f, path) ==
  LET p == split_path(path)
      err == IF parent(f, path) # "Ok" THEN parent(f, path)
             ELSE IF p \notin DOMAIN f THEN "NotFound" ELSE "Ok"
  IN  Try(f, err, Drop(f, p))

remove(f, path) ==
  LET p == split_path(path)
      err == IF parent(f, path) # "Ok" THEN parent(f, path)
             ELSE IF p \notin DOMAIN f THEN "NotFound"
             ELSE IF Below(f, p) # {p} THEN "DirectoryNotEmpty" ELSE "Ok"
  IN  Try(f, err, Drop(f, p))

\* The subtree of f at o, put into g at n.
Graft(g, f, o, n) ==
  LET moved(q) == n \o SubSeq(q, Len(o) + 1, Len(q))
      home == [m \in {moved(q) : q \in Below(f, o)} |->
                 f[o \o SubSeq(m, Len(n) + 1, Len(m))]]
  IN  [q \in DOMAIN g \cup DOMAIN home |-> IF q \in DOMAIN home THEN home[q] ELSE g[q]]

\* Mutant of rename: what is at the new place is replaced.
renameOver(f, old, new) ==
  LET o == split_path(old)
      n == split_path(new)
      g == Drop(f, o)
      syntax == \A p \in {old, new} : IsAbsolute(p) /\ split_path(p) # <<>>
      taken == IF ~syntax THEN "InvalidPath"
               ELSE IF parent(f, old) = "Ok" /\ o \notin DOMAIN f THEN "NotFound"
               ELSE parent(f, old)
  IN  IF taken # "Ok" THEN Try(f, taken, f)
      ELSE Try(g, parent(g, new), Graft(g, f, o, n))

\* The node leaves the tree before the new place is looked at.
rename(f, old, new) ==
  LET o == split_path(old)
      n == split_path(new)
      g == Drop(f, o)
      syntax == \A p \in {old, new} : IsAbsolute(p) /\ split_path(p) # <<>>
      taken == IF ~syntax THEN "InvalidPath"
               ELSE IF parent(f, old) = "Ok" /\ o \notin DOMAIN f THEN "NotFound"
               ELSE parent(f, old)
      placed == IF parent(g, new) = "Ok" /\ n \in DOMAIN g THEN "AlreadyExists"
                ELSE parent(g, new)
  IN  IF taken # "Ok" THEN Try(f, taken, f) ELSE Try(g, placed, Graft(g, f, o, n))

copy(f, src, dst) ==
  IF read(f, src) # "Ok" THEN Try(f, read(f, src), f)
  ELSE write(f, dst, contents(f, src))

new == [p \in {<<>>} \cup {<<name>> : name \in Seed} |-> Dir]

Within(f) == \A p \in DOMAIN f : Len(p) <= MaxDepth /\ Len(f[p].data) <= MaxLen

-----------------------------------------------------------------------------
\* The nodes form a tree: whatever was created, moved or removed, in
\* whatever order, every node hangs off a directory and the root is one.
TreeWellFormed ==
  /\ IsDir(fs, <<>>)
  /\ \A p \in DOMAIN fs : p # <<>> => IsDir(fs, Front(p))

=============================================================================
