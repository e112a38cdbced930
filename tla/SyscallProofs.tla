--------------------------- MODULE SyscallProofs ---------------------------
(***************************************************************************)
(* Proofs about the file system calls of Syscalls.                         *)
(***************************************************************************)
EXTENDS Syscalls, RamFsProofs

\* What files hold: what callers write and the zeros of a gap.
Byte == {"0"} \cup UNION {Range(data) : data \in Chunks}

Entry ==
  {Closed}
  \cup [kind : {"stdin"}, data : Seq(Byte), offset : Nat]
  \cup [kind : {"stdout", "stderr"}, data : Seq(Byte)]
  \cup [kind : {"file"}, path : Paths, offset : Nat, flags : FlagSets]

\* The tree is one and the table holds entries.
IInv ==
  /\ Tree(fs) /\ Typed(fs, Byte)
  /\ entries \in Seq(Entry)

LEMMA ChunksTyped ==
  ASSUME NEW buf \in Chunks
  PROVE  buf \in Seq(Byte)
<1>1. buf \in Seq(Range(buf)) /\ Range(buf) \subseteq Byte BY ChunksAssumption DEF Byte
<1>2. QED BY <1>1, SeqMonotonic

(***************************************************************************)
(* The table.                                                              *)
(***************************************************************************)
LEMMA EntryTyped ==
  ASSUME NEW t \in Seq(Entry), NEW fd \in Nat
  PROVE  entry(t, fd) \in Entry /\ (fd >= Len(t) => entry(t, fd) = Closed)
<1>1. Len(t) \in Nat BY LenProperties
<1>2. CASE fd < Len(t)
  <2>1. fd + 1 \in 1..Len(t) BY <1>1, <1>2
  <2>2. t[fd + 1] \in Entry BY <2>1, ElementOfSeq
  <2>3. QED BY <1>1, <1>2, <2>2 DEF entry
<1>3. CASE ~(fd < Len(t)) BY <1>1, <1>3 DEF entry, Entry
<1>4. QED BY <1>2, <1>3

\* The kinds of an entry tell which fields it has.
LEMMA EntryKinds ==
  ASSUME NEW e \in Entry
  PROVE  /\ e.kind \in {"none", "stdin", "stdout", "stderr", "file"}
         /\ e.kind = "none" <=> e = Closed
         /\ e.kind = "stdin" => e \in [kind : {"stdin"}, data : Seq(Byte), offset : Nat]
         /\ e.kind \in {"stdout", "stderr"} =>
              e \in [kind : {"stdout", "stderr"}, data : Seq(Byte)]
         /\ e.kind = "file" =>
              e \in [kind : {"file"}, path : Paths, offset : Nat, flags : FlagSets]
BY DEF Entry, Closed

\* Storing changes one entry and keeps the others.
LEMMA StoreProperties ==
  ASSUME NEW t \in Seq(Entry), NEW fd \in Nat, NEW e \in Entry
  PROVE  /\ store(t, fd, e) \in Seq(Entry)
         /\ entry(store(t, fd, e), fd) = e
         /\ \A other \in Nat : other # fd => entry(store(t, fd, e), other) = entry(t, other)
<1> DEFINE n == Len(t)
           k == IF fd < n THEN n ELSE fd + 1
           u == store(t, fd, e)
           v(i) == IF i = fd + 1 THEN e ELSE IF i <= n THEN t[i] ELSE Closed
<1>1. n \in Nat /\ t \in [1..n -> Entry] BY LenProperties
<1>2. k \in Nat /\ fd + 1 \in 1..k /\ n <= k BY <1>1
<1>3. Closed \in Entry BY DEF Entry
<1>4. u = [i \in 1..k |-> v(i)] BY DEF store
<1> HIDE DEF n, k, u
<1>5. \A i \in 1..k : v(i) \in Entry BY <1>1, <1>2, <1>3
<1>6. u \in [1..k -> Entry] BY <1>4, <1>5
<1>7. u \in Seq(Entry) BY <1>2, <1>6, SeqDef
<1>8. Len(u) = k
  <2>1. DOMAIN u = 1..k /\ DOMAIN u = 1..Len(u) /\ Len(u) \in Nat BY <1>6, <1>7, LenProperties
  <2>2. QED BY <1>2, <2>1
<1>9. entry(u, fd) = e
  <2>1. fd < k BY <1>1 DEF k
  <2>2. u[fd + 1] = e BY <1>2, <1>4
  <2>3. QED BY <1>8, <2>1, <2>2 DEF entry
<1>10. ASSUME NEW other \in Nat, other # fd PROVE entry(u, other) = entry(t, other)
  <2>1. CASE other < n
    <3>1. other < k /\ other + 1 \in 1..k /\ other + 1 # fd + 1 /\ other + 1 <= n
      BY <1>1, <1>2, <1>10, <2>1
    <3>2. u[other + 1] = t[other + 1] BY <1>4, <3>1
    <3>3. QED BY <1>8, <2>1, <3>1, <3>2 DEF entry, n
  <2>2. CASE ~(other < n)
    <3>1. entry(t, other) = Closed BY <2>2 DEF entry, n
    <3>2. CASE other < k
      <4>1. other + 1 \in 1..k /\ other + 1 # fd + 1 /\ ~(other + 1 <= n)
        BY <1>1, <1>2, <1>10, <2>2, <3>2
      <4>2. u[other + 1] = Closed BY <1>4, <4>1
      <4>3. QED BY <1>8, <3>1, <3>2, <4>2 DEF entry
    <3>3. CASE ~(other < k) BY <1>8, <3>1, <3>3 DEF entry
    <3>4. QED BY <3>2, <3>3
  <2>3. QED BY <2>1, <2>2
<1>11. QED BY <1>7, <1>9, <1>10 DEF u

\* Changing an open entry in its place.
LEMMA ExceptEntry ==
  ASSUME NEW t \in Seq(Entry), NEW fd \in Nat, entry(t, fd) # Closed, NEW e \in Entry
  PROVE  /\ [t EXCEPT ![fd + 1] = e] \in Seq(Entry)
         /\ entry([t EXCEPT ![fd + 1] = e], fd) = e
         /\ \A other \in Nat : other # fd =>
              entry([t EXCEPT ![fd + 1] = e], other) = entry(t, other)
         /\ entry(t, fd) = t[fd + 1]
<1> DEFINE u == [t EXCEPT ![fd + 1] = e]
<1>1. Len(t) \in Nat /\ fd < Len(t) BY LenProperties DEF entry
<1>2. fd + 1 \in 1..Len(t) BY <1>1
<1>3. /\ u \in Seq(Entry) /\ Len(u) = Len(t)
      /\ \A j \in 1..Len(t) : u[j] = IF j = fd + 1 THEN e ELSE t[j]
  BY <1>2, ExceptSeq
<1> HIDE DEF u
<1>4. entry(u, fd) = e /\ entry(t, fd) = t[fd + 1] BY <1>1, <1>2, <1>3 DEF entry
<1>5. ASSUME NEW other \in Nat, other # fd PROVE entry(u, other) = entry(t, other)
  <2>1. CASE other < Len(t)
    <3>1. other + 1 \in 1..Len(t) /\ other + 1 # fd + 1 BY <1>1, <1>5, <2>1
    <3>2. QED BY <1>3, <2>1, <3>1 DEF entry
  <2>2. CASE ~(other < Len(t)) BY <1>3, <2>2 DEF entry
  <2>3. QED BY <2>1, <2>2
<1>6. QED BY <1>3, <1>4, <1>5, Zenon DEF u

\* open gets a number that is not in use, the least one.
LEMMA FreeFd ==
  ASSUME NEW t \in Seq(Entry)
  PROVE  free_fd(t) \in Nat /\ entry(t, free_fd(t)) = Closed
<1> DEFINE P(fd) == entry(t, fd) = Closed /\ \A other \in 0..(fd - 1) : entry(t, other) # Closed
           C == {fd \in 0..Len(t) : entry(t, fd) = Closed}
<1>1. Len(t) \in Nat BY LenProperties
<1>2. C \in SUBSET Nat /\ C # {}
  <2>1. entry(t, Len(t)) = Closed BY <1>1 DEF entry
  <2>2. QED BY <1>1, <2>1
<1>3. PICK x \in C : \A y \in C : x <= y
  <2> HIDE DEF C
  <2>1. QED BY <1>2, Least
<1>4. x \in 0..Len(t) /\ P(x)
  <2>1. \A other \in 0..(x - 1) : other \in 0..Len(t) /\ ~(x <= other) BY <1>1, <1>3
  <2>2. QED BY <1>3, <2>1
<1>5. \E fd \in 0..Len(t) : P(fd) BY <1>4
<1>6. free_fd(t) = CHOOSE fd \in 0..Len(t) : P(fd) BY DEF free_fd
<1>7. free_fd(t) \in 0..Len(t) /\ P(free_fd(t)) BY <1>5, <1>6
<1>8. QED BY <1>1, <1>7

(***************************************************************************)
(* The files.                                                              *)
(***************************************************************************)
\* What open leaves of the tree.
LEMMA OpenedInv ==
  ASSUME NEW f, Tree(f), Typed(f, Byte), NEW path \in Paths, NEW flags \in FlagSets
  PROVE  Tree(opened(f, path, flags).fs) /\ Typed(opened(f, path, flags).fs, Byte)
<1> DEFINE made == IF "CREATE" \in flags THEN touch(f, path) ELSE Try(f, "Ok", f)
<1>1. path \in Seq(STRING) /\ <<>> \in Seq(Byte) BY PathsAssumption, EmptySeq
<1>2. Tree(touch(f, path).fs) /\ Typed(touch(f, path).fs, Byte)
  BY <1>1, WriteTree, MethodsTyped, Zenon
<1>3. Tree(made.fs) /\ Typed(made.fs, Byte) BY <1>2 DEF Try
<1>4. opened(f, path, flags) = IF made.res # "Ok" THEN made
      ELSE IF "TRUNC" \in flags THEN write(made.fs, path, <<>>)
      ELSE IF "CREATE" \in flags THEN made ELSE Try(f, read(f, path), f)
  BY DEF opened
<1> HIDE DEF made
<1>5. Tree(write(made.fs, path, <<>>).fs) /\ Typed(write(made.fs, path, <<>>).fs, Byte)
  BY <1>1, <1>3, WriteTree, MethodsTyped, Zenon
<1>6. Try(f, read(f, path), f).fs = f BY DEF Try
<1>7. QED BY <1>3, <1>4, <1>5, <1>6

\* A write in place leaves bytes, and all of the file behind what it wrote.
LEMMA OverwriteProperties ==
  ASSUME NEW data \in Seq(Byte), NEW offset \in Nat, NEW buf \in Seq(Byte)
  PROVE  LET out == overwrite(data, offset, buf)
         IN  /\ out \in Seq(Byte) /\ Len(out) >= Len(data)
             /\ \A i \in 1..Len(out) :
                  \/ offset < i /\ i <= offset + Len(buf)
                  \/ out[i] = IF i <= Len(data) THEN data[i] ELSE "0"
<1> DEFINE d == Len(data)
           b == Len(buf)
           k == IF offset + b > d THEN offset + b ELSE d
           out == overwrite(data, offset, buf)
           v(i) == IF i \in (offset + 1)..(offset + b) THEN buf[i - offset]
                   ELSE IF i <= d THEN data[i] ELSE "0"
<1>1. d \in Nat /\ b \in Nat /\ data \in [1..d -> Byte] /\ buf \in [1..b -> Byte] BY LenProperties
<1>2. out = [i \in 1..k |-> v(i)] BY DEF overwrite
<1> HIDE DEF d, b, out
<1>3. k \in Nat /\ d <= k BY <1>1
<1> HIDE DEF k
<1>4. "0" \in Byte BY DEF Byte
<1>5. ASSUME NEW i \in 1..k PROVE v(i) \in Byte
  <2>1. CASE i \in (offset + 1)..(offset + b)
    <3>1. i - offset \in 1..b BY <1>1, <2>1
    <3>2. QED BY <1>1, <2>1, <3>1
  <2>2. CASE i \notin (offset + 1)..(offset + b) BY <1>1, <1>3, <1>4, <2>2
  <2>3. QED BY <2>1, <2>2
<1>6. out \in [1..k -> Byte] BY <1>2, <1>5
<1>7. out \in Seq(Byte) BY <1>3, <1>6, SeqDef
<1>8. Len(out) = k
  <2>1. DOMAIN out = 1..k /\ DOMAIN out = 1..Len(out) /\ Len(out) \in Nat
    BY <1>6, <1>7, LenProperties
  <2>2. QED BY <1>3, <2>1
<1>9. ASSUME NEW i \in 1..k
      PROVE  (offset < i /\ i <= offset + b) \/ out[i] = IF i <= d THEN data[i] ELSE "0"
  <2>1. CASE i \in (offset + 1)..(offset + b) BY <1>1, <1>3, <2>1
  <2>2. CASE i \notin (offset + 1)..(offset + b) BY <1>2, <2>2
  <2>3. QED BY <2>1, <2>2
<1>10. QED BY <1>1, <1>3, <1>7, <1>8, <1>9 DEF d, b, out

(***************************************************************************)
(* The steps.                                                              *)
(***************************************************************************)
\* The bodies of FdStable, OnlyTruncShortens and WritesStayInRange.
FdStep ==
  \A fd \in Nat :
    entry(entries, fd) # Closed /\ entry(entries', fd) # entry(entries, fd)
      => last'.fd = fd /\ last'.op \in {"close", "dup2", "read", "write"}

LengthStep ==
  \A p \in DOMAIN fs \cap DOMAIN fs' :
    Len(fs'[p].data) < Len(fs[p].data) => last'.op = "truncate"

RangeStep ==
  last'.op = "write" =>
    \A p \in DOMAIN fs : IsFile(fs, p) /\ fs'[p] # fs[p] =>
      LET e == entry(entries, last'.fd)
          from == IF "APPEND" \in e.flags THEN Len(fs[p].data) ELSE e.offset
          to == entry(entries', last'.fd).offset
      IN  /\ p = split_path(e.path)
          /\ \A i \in 1..Len(fs'[p].data) :
               \/ i > from /\ ("APPEND" \in e.flags \/ i <= to)
               \/ fs'[p].data[i] =
                    IF i <= Len(fs[p].data) THEN fs[p].data[i] ELSE "0"

Good == IInv' /\ FdStep /\ LengthStep /\ RangeStep

\* No file of f is shorter in g.
Grows(f, g) == \A p \in DOMAIN f \cap DOMAIN g : ~(Len(g[p].data) < Len(f[p].data))

LEMMA Reflexive ==
  ASSUME NEW f, Typed(f, Byte), NEW g, \A p \in DOMAIN f \cap DOMAIN g : g[p] = f[p]
  PROVE  Grows(f, g)
<1>1. \A p \in DOMAIN f : Len(f[p].data) \in Nat BY LenProperties DEF Typed
<1>2. QED BY <1>1 DEF Grows

\* Only writing over a file can shorten one.
LEMMA MethodsGrow ==
  ASSUME NEW f, Tree(f), Typed(f, Byte), NEW path \in Paths, NEW to \in Paths,
         NEW data \in Seq(Byte)
  PROVE  /\ Grows(f, mkdir(f, path).fs)
         /\ Grows(f, touch(f, path).fs)
         /\ Grows(f, append(f, path, data).fs)
         /\ Grows(f, remove(f, path).fs)
         /\ Grows(f, rename(f, path, to).fs)
<1> DEFINE p == split_path(path)
<1>1. path \in Seq(STRING) /\ to \in Seq(STRING) BY PathsAssumption
<1>2. Grows(f, f) BY Reflexive
<1>3. ASSUME p \notin DOMAIN f, NEW n PROVE Grows(f, Put(f, p, n))
  <2>1. \A q \in DOMAIN f \cap DOMAIN Put(f, p, n) : Put(f, p, n)[q] = f[q] BY <1>3 DEF Put
  <2>2. QED BY <2>1, Reflexive
<1>4. ASSUME NEW q PROVE Grows(f, Drop(f, q))
  <2>1. \A r \in DOMAIN f \cap DOMAIN Drop(f, q) : Drop(f, q)[r] = f[r] BY DEF Drop
  <2>2. QED BY <2>1, Reflexive
<1> HIDE DEF p
<1>5. Grows(f, mkdir(f, path).fs)
  <2>1. mkdir(f, path).fs = f \/ (p \notin DOMAIN f /\ mkdir(f, path).fs = Put(f, p, Dir))
    BY DEF mkdir, Try, p
  <2>2. QED BY <1>2, <1>3, <2>1
<1>6. Grows(f, touch(f, path).fs)
  <2>1. touch(f, path).fs = f \/ (p \notin DOMAIN f /\ touch(f, path).fs = Put(f, p, File(<<>>)))
    BY DEF touch, Try, p
  <2>2. QED BY <1>2, <1>3, <2>1
<1>7. Grows(f, append(f, path, data).fs)
  <2> DEFINE old == IF p \in DOMAIN f THEN f[p].data ELSE <<>>
             g == Put(f, p, File(old \o data))
  <2>1. append(f, path, data).fs = f \/ append(f, path, data).fs = g BY DEF append, Try, p
  <2>2. CASE p \notin DOMAIN f BY <1>2, <1>3, <2>1, <2>2
  <2>3. CASE p \in DOMAIN f
    <3>1. old \in Seq(Byte) /\ old = f[p].data BY <2>3 DEF Typed
    <3> HIDE DEF old
    <3>2. Len(old \o data) = Len(old) + Len(data) /\ Len(old) \in Nat /\ Len(data) \in Nat
      BY <3>1, ConcatProperties, LenProperties
    <3>3. g[p].data = old \o data /\ \A q \in DOMAIN f : q # p => g[q] = f[q]
      BY DEF Put, File
    <3> HIDE DEF g
    <3>4. \A q \in DOMAIN f : Len(f[q].data) \in Nat BY LenProperties DEF Typed
    <3>5. Grows(f, g) BY <3>1, <3>2, <3>3, <3>4 DEF Grows
    <3>6. QED BY <1>2, <2>1, <3>5
  <2>4. QED BY <2>2, <2>3
<1>8. Grows(f, remove(f, path).fs)
  <2>1. remove(f, path).fs = f \/ remove(f, path).fs = Drop(f, p) BY DEF remove, Try, p
  <2>2. QED BY <1>2, <1>4, <2>1
<1>9. Grows(f, rename(f, path, to).fs)
  <2> DEFINE g == rename(f, path, to).fs
  <2>1. \A q \in DOMAIN f \cap DOMAIN g : g[q] = f[q] BY <1>1, RenameKeeps
  <2> HIDE DEF g
  <2>2. Grows(f, g) BY <2>1, Reflexive
  <2>3. QED BY <2>2 DEF g
<1>10. QED BY <1>5, <1>6, <1>7, <1>8, <1>9

\* A call that leaves the table alone and shortens no file.
LEMMA FsOnlyGood ==
  ASSUME IInv, NEW op, NEW fd, NEW r, FsOnly(op, fd, r), Tree(r.fs), Typed(r.fs, Byte),
         Grows(fs, r.fs), op # "write" \/ r.fs = fs
  PROVE  Good
<1>1. fs' = r.fs /\ entries' = entries /\ last'.op = op BY DEF FsOnly, Result
<1>2. IInv' BY <1>1 DEF IInv
<1>3. FdStep BY <1>1 DEF FdStep
<1>4. LengthStep BY <1>1 DEF LengthStep, Grows
<1>5. RangeStep BY <1>1 DEF RangeStep
<1>6. QED BY <1>2, <1>3, <1>4, <1>5 DEF Good

LEMMA FailsGood ==
  ASSUME IInv, NEW op, NEW fd, NEW err, Fails(op, fd, err)
  PROVE  Good
<1> DEFINE r == [fs |-> fs, res |-> err]
<1>1. FsOnly(op, fd, r) /\ r.fs = fs BY DEF Fails
<1>2. Grows(fs, fs) BY Reflexive DEF IInv
<1> HIDE DEF r
<1>3. QED BY <1>1, <1>2, FsOnlyGood DEF IInv

\* A call that leaves the files alone and changes the entry it names.
LEMMA TableGood ==
  ASSUME IInv, entries' \in Seq(Entry), fs' = fs,
         NEW at \in Nat, last'.fd = at, last'.op \in {"close", "dup2", "read", "write"},
         \A other \in Nat : other # at => entry(entries', other) = entry(entries, other)
  PROVE  Good
<1>1. IInv' BY DEF IInv
<1>2. FdStep BY DEF FdStep
<1>3. \A p \in DOMAIN fs : Len(fs[p].data) \in Nat BY LenProperties DEF IInv, Typed
<1>4. LengthStep BY <1>3 DEF LengthStep
<1>5. RangeStep BY DEF RangeStep
<1>6. QED BY <1>1, <1>2, <1>4, <1>5 DEF Good

LEMMA OpenGood ==
  ASSUME IInv, NEW path \in Paths, NEW flags \in FlagSets, SysOpen(path, flags)
  PROVE  Good
<1> DEFINE r == opened(fs, path, flags)
           fd == free_fd(entries)
           made == IF "CREATE" \in flags THEN touch(fs, path) ELSE Try(fs, "Ok", fs)
<1>1. Tree(fs) /\ Typed(fs, Byte) /\ entries \in Seq(Entry) BY DEF IInv
<1>2. Tree(r.fs) /\ Typed(r.fs, Byte) BY <1>1, OpenedInv
<1>3. Grows(fs, r.fs) \/ (r.res = "Ok" /\ "TRUNC" \in flags)
  <2>1. Grows(fs, fs) BY <1>1, Reflexive
  <2>2. <<>> \in Seq(Byte) BY EmptySeq
  <2>3. Grows(fs, touch(fs, path).fs) BY <1>1, <2>2, MethodsGrow, Zenon
  <2>4. Grows(fs, made.fs) BY <2>1, <2>3 DEF Try
  <2>5. r = IF made.res # "Ok" THEN made
            ELSE IF "TRUNC" \in flags THEN write(made.fs, path, <<>>)
            ELSE IF "CREATE" \in flags THEN made ELSE Try(fs, read(fs, path), fs)
    BY DEF opened
  <2>6. write(made.fs, path, <<>>).res = "Ok" \/ write(made.fs, path, <<>>).fs = made.fs
    BY DEF write, Try
  <2>7. Try(fs, read(fs, path), fs).fs = fs BY DEF Try
  <2> HIDE DEF made
  <2>8. CASE "TRUNC" \in flags BY <2>4, <2>5, <2>6, <2>8
  <2>9. CASE "TRUNC" \notin flags BY <2>1, <2>4, <2>5, <2>7, <2>9
  <2>10. QED BY <2>8, <2>9
<1>4. fd \in Nat /\ entry(entries, fd) = Closed BY <1>1, FreeFd
<1> HIDE DEF r, fd
<1>5. CASE r.res # "Ok"
  <2>1. FsOnly("open", NoFd, r) BY <1>5 DEF SysOpen, r
  <2>2. QED BY <1>2, <1>3, <1>5, <2>1, FsOnlyGood
<1>6. CASE r.res = "Ok"
  <2> DEFINE e == OpenFile(path, flags)
  <2>1. /\ fs' = r.fs
        /\ entries' = store(entries, fd, e)
        /\ last'.op = IF "TRUNC" \in flags THEN "truncate" ELSE "open"
    BY <1>6 DEF SysOpen, Result, r, fd
  <2>2. e \in Entry BY DEF OpenFile, Entry
  <2> HIDE DEF e
  <2>3. /\ store(entries, fd, e) \in Seq(Entry)
        /\ \A other \in Nat : other # fd => entry(store(entries, fd, e), other) = entry(entries, other)
    BY <1>1, <1>4, <2>2, StoreProperties
  <2>4. IInv' BY <1>2, <2>1, <2>3 DEF IInv
  <2>5. FdStep BY <1>4, <2>1, <2>3 DEF FdStep
  <2>6. LengthStep BY <1>3, <2>1 DEF LengthStep, Grows
  <2>7. RangeStep BY <2>1 DEF RangeStep
  <2>8. QED BY <2>4, <2>5, <2>6, <2>7 DEF Good
<1>7. QED BY <1>5, <1>6

LEMMA CloseGood ==
  ASSUME IInv, NEW fd \in FdNums, SysClose(fd)
  PROVE  Good
<1>1. CASE entry(entries, fd) = Closed
  <2>1. Fails("close", fd, "BadFd") BY <1>1 DEF SysClose
  <2>2. QED BY <2>1, FailsGood
<1>2. CASE entry(entries, fd) # Closed
  <2>1. /\ entries' = [entries EXCEPT ![fd + 1] = Closed] /\ fs' = fs
        /\ last'.op = "close" /\ last'.fd = fd
    BY <1>2 DEF SysClose, Result
  <2>2. fd \in Nat /\ Closed \in Entry /\ entries \in Seq(Entry)
    BY FdNumsAssumption DEF Entry, IInv
  <2>3. /\ entries' \in Seq(Entry)
        /\ \A other \in Nat : other # fd => entry(entries', other) = entry(entries, other)
    <3> DEFINE u == [entries EXCEPT ![fd + 1] = Closed]
    <3>1. /\ u \in Seq(Entry)
          /\ \A other \in Nat : other # fd => entry(u, other) = entry(entries, other)
      BY <1>2, <2>2, ExceptEntry
    <3> HIDE DEF u
    <3>2. QED BY <2>1, <3>1, Zenon DEF u
  <2>4. QED BY <2>1, <2>2, <2>3, TableGood, Zenon
<1>3. QED BY <1>1, <1>2

LEMMA Dup2Good ==
  ASSUME IInv, NEW old \in FdNums, NEW to \in FdNums, SysDup2(old, to)
  PROVE  Good
<1>1. CASE entry(entries, old) = Closed
  <2>1. Fails("dup2", to, "BadFd") BY <1>1 DEF SysDup2
  <2>2. QED BY <2>1, FailsGood
<1>2. CASE entry(entries, old) # Closed
  <2>1. /\ entries' = store(entries, to, entry(entries, old)) /\ fs' = fs
        /\ last'.op = "dup2" /\ last'.fd = to
    BY <1>2 DEF SysDup2, Result
  <2>2. old \in Nat /\ to \in Nat /\ entries \in Seq(Entry) BY FdNumsAssumption DEF IInv
  <2>3. entry(entries, old) \in Entry BY <2>2, EntryTyped
  <2>4. /\ entries' \in Seq(Entry)
        /\ \A other \in Nat : other # to => entry(entries', other) = entry(entries, other)
    BY <2>1, <2>2, <2>3, StoreProperties
  <2>5. QED BY <2>1, <2>2, <2>4, TableGood
<1>3. QED BY <1>1, <1>2

LEMMA AvailableTyped ==
  ASSUME NEW data \in Seq(Byte), NEW offset \in Nat, NEW n \in Nat
  PROVE  available(data, offset, n) \in Nat
<1>1. Len(data) \in Nat BY LenProperties
<1>2. QED BY <1>1 DEF available

LEMMA OffsetTyped ==
  ASSUME NEW e \in Entry, e.kind \in {"stdin", "file"}, NEW n \in Nat
  PROVE  e.offset \in Nat /\ [e EXCEPT !.offset = e.offset + n] \in Entry
<1>1. CASE e.kind = "stdin"
  <2>1. e \in [kind : {"stdin"}, data : Seq(Byte), offset : Nat] BY <1>1, EntryKinds
  <2>2. e.offset + n \in Nat BY <2>1
  <2>3. [e EXCEPT !.offset = e.offset + n] \in [kind : {"stdin"}, data : Seq(Byte), offset : Nat]
    BY <2>1, <2>2
  <2>4. QED BY <2>1, <2>3 DEF Entry
<1>2. CASE e.kind = "file"
  <2> DEFINE R == [kind : {"file"}, path : Paths, offset : Nat, flags : FlagSets]
  <2>1. e \in R BY <1>2, EntryKinds
  <2>2. e.offset + n \in Nat BY <2>1
  <2>3. [e EXCEPT !.offset = e.offset + n] \in R BY <2>1, <2>2
  <2>4. QED BY <2>1, <2>3 DEF Entry
<1>3. QED BY <1>1, <1>2

\* Changing the offset, or another field, of an open entry.
LEMMA AdvanceGood ==
  ASSUME IInv, NEW fd \in Nat, entry(entries, fd) # Closed, NEW e \in Entry,
         entries' = [entries EXCEPT ![fd + 1] = e], fs' = fs,
         last'.fd = fd, last'.op \in {"read", "write"}
  PROVE  Good
<1> DEFINE u == [entries EXCEPT ![fd + 1] = e]
<1>1. /\ u \in Seq(Entry)
      /\ \A other \in Nat : other # fd => entry(u, other) = entry(entries, other)
  BY ExceptEntry, ZenonT(60) DEF IInv
<1>2. entries' = u OBVIOUS
<1> HIDE DEF u
<1>3. QED BY <1>1, <1>2, TableGood, Zenon

LEMMA ReadGood ==
  ASSUME IInv, NEW fd \in FdNums, NEW n \in Sizes, SysRead(fd, n)
  PROVE  Good
<1> DEFINE e == entry(entries, fd)
           moved(data) == [e EXCEPT !.offset = e.offset + available(data, e.offset, n)]
           advance(data) ==
             /\ entries' = [entries EXCEPT ![fd + 1].offset = @ + available(data, @, n)]
             /\ Result("read", fd, "Ok")
             /\ UNCHANGED fs
<1>1. fd \in Nat /\ n \in Nat /\ entries \in Seq(Entry)
  BY FdNumsAssumption, SizesAssumption DEF IInv
<1>2. e \in Entry BY <1>1, EntryTyped
<1>3. /\ e.kind \in {"none", "stdin", "stdout", "stderr", "file"}
      /\ e.kind = "none" <=> e = Closed
      /\ e.kind = "stdin" => e \in [kind : {"stdin"}, data : Seq(Byte), offset : Nat]
      /\ e.kind = "file" =>
           e \in [kind : {"file"}, path : Paths, offset : Nat, flags : FlagSets]
  BY <1>2, EntryKinds
<1>4. CASE e.kind = "none" \/ e.kind \in {"stdout", "stderr"}
  <2>1. \E err : Fails("read", fd, err) BY <1>4, Zenon DEF SysRead
  <2>2. QED BY <2>1, FailsGood
<1>5. ASSUME NEW data \in Seq(Byte), advance(data), e.kind \in {"stdin", "file"} PROVE Good
  <2>1. e # Closed /\ e.offset \in Nat BY <1>3, <1>5
  <2>2. available(data, e.offset, n) \in Nat BY <1>1, <1>5, <2>1, AvailableTyped
  <2>3. moved(data) \in Entry BY <1>2, <1>5, <2>1, <2>2, OffsetTyped
  <2>4. e = entries[fd + 1] BY <1>1, <1>2, <2>1, ExceptEntry
  <2>5. entries' = [entries EXCEPT ![fd + 1] = moved(data)] BY <1>5, <2>4
  <2>6. last'.fd = fd /\ last'.op = "read" /\ fs' = fs BY <1>5 DEF Result
  <2> HIDE DEF moved
  <2>7. QED BY <1>1, <2>1, <2>3, <2>5, <2>6, AdvanceGood, Zenon
<1>6. CASE e.kind = "stdin"
  <2>1. advance(e.data) BY <1>6 DEF SysRead
  <2>2. e.data \in Seq(Byte) BY <1>3, <1>6
  <2> HIDE DEF advance
  <2>3. QED BY <1>5, <1>6, <2>1, <2>2
<1>7. CASE e.kind = "file"
  <2>1. (\E err : Fails("read", fd, err)) \/ (read(fs, e.path) = "Ok" /\ advance(contents(fs, e.path)))
    BY <1>7 DEF SysRead
  <2>2. ASSUME read(fs, e.path) = "Ok" PROVE contents(fs, e.path) \in Seq(Byte)
    <3>1. e.path \in Seq(STRING) BY <1>3, <1>7, PathsAssumption
    <3>2. split_path(e.path) \in Seq(Name) BY <3>1, SplitPath
    <3>3. <<>> \in DOMAIN fs BY DEF IInv, Tree, IsDir
    <3>4. node(fs, split_path(e.path)) = "Ok" BY <2>2 DEF read
    <3>5. split_path(e.path) \in DOMAIN fs BY <3>2, <3>3, <3>4, NodeOk
    <3>6. QED BY <3>5 DEF contents, IInv, Typed
  <2> HIDE DEF advance
  <2>3. QED BY <1>5, <1>7, <2>1, <2>2, FailsGood
<1>8. QED BY <1>3, <1>4, <1>6, <1>7

\* A write through a descriptor of a file, once the file system accepted it.
LEMMA FileWriteGood ==
  ASSUME IInv, NEW fd \in FdNums, NEW buf \in Chunks, NEW e, e = entry(entries, fd),
         e.kind = "file", NEW r, r.res = "Ok",
         NEW whole, whole = IF read(fs, e.path) = "Ok" THEN contents(fs, e.path) ELSE <<>>,
         r = IF "APPEND" \in e.flags THEN append(fs, e.path, buf)
             ELSE write(fs, e.path, overwrite(whole, e.offset, buf)),
         fs' = r.fs,
         entries' = IF "APPEND" \in e.flags THEN entries
                    ELSE [entries EXCEPT ![fd + 1].offset = @ + Len(buf)],
         Result("write", fd, "Ok")
  PROVE  Good
<1> DEFINE p == split_path(e.path)
           old == IF p \in DOMAIN fs THEN fs[p].data ELSE <<>>
<1>1. /\ fd \in Nat /\ entries \in Seq(Entry) /\ Tree(fs) /\ Typed(fs, Byte)
      /\ last'.fd = fd /\ last'.op = "write"
  BY FdNumsAssumption DEF IInv, Result
<1>2. e \in Entry /\ e # Closed BY <1>1, EntryTyped, EntryKinds
<1>3. e \in [kind : {"file"}, path : Paths, offset : Nat, flags : FlagSets] BY <1>2, EntryKinds
<1>4. buf \in Seq(Byte) /\ Len(buf) \in Nat BY ChunksTyped, LenProperties
<1>5. e.path \in Paths /\ e.path \in Seq(STRING) /\ e.offset \in Nat BY <1>3, PathsAssumption
<1>6. old \in Seq(Byte) /\ Len(old) \in Nat /\ (p \in DOMAIN fs => old = fs[p].data)
  <2>1. old \in Seq(Byte) BY <1>1, EmptySeq DEF Typed
  <2> HIDE DEF old
  <2>2. QED BY <2>1, LenProperties DEF old
<1>7. PICK data \in Seq(Byte) :
        /\ fs' = Put(fs, p, File(data))
        /\ writable(fs, e.path) = "Ok"
        /\ ~(Len(data) < Len(old))
        /\ Len(data) \in Nat
        /\ \A i \in 1..Len(data) :
             \/ "APPEND" \in e.flags /\ i > Len(old)
             \/ "APPEND" \notin e.flags /\ e.offset < i /\ i <= e.offset + Len(buf)
             \/ data[i] = IF i <= Len(old) THEN old[i] ELSE "0"
  <2>1. CASE "APPEND" \in e.flags
    <3>1. r = Try(fs, writable(fs, e.path), Put(fs, p, File(old \o buf)))
      BY <2>1 DEF append
    <3> HIDE DEF old, p
    <3>2. fs' = Put(fs, p, File(old \o buf)) /\ writable(fs, e.path) = "Ok" BY <3>1 DEF Try
    <3>3. /\ old \o buf \in Seq(Byte) /\ Len(old \o buf) = Len(old) + Len(buf)
          /\ \A i \in 1..(Len(old) + Len(buf)) :
               (old \o buf)[i] = IF i <= Len(old) THEN old[i] ELSE buf[i - Len(old)]
      BY <1>4, <1>6, ConcatProperties
    <3>4. ~(Len(old \o buf) < Len(old)) /\ Len(old \o buf) \in Nat BY <1>4, <1>6, <3>3
    <3>5. ASSUME NEW i \in 1..Len(old \o buf)
          PROVE  \/ i > Len(old)
                 \/ (old \o buf)[i] = IF i <= Len(old) THEN old[i] ELSE "0"
      <4>1. i \in 1..(Len(old) + Len(buf)) /\ i \in Int BY <1>4, <1>6, <3>3
      <4>2. CASE i <= Len(old) BY <3>3, <4>1, <4>2
      <4>3. CASE ~(i <= Len(old)) BY <1>6, <4>1, <4>3
      <4>4. QED BY <4>2, <4>3
    <3>6. QED BY <2>1, <3>2, <3>3, <3>4, <3>5, Zenon
  <2>2. CASE "APPEND" \notin e.flags
    <3> DEFINE out == overwrite(whole, e.offset, buf)
    <3>1. r = Try(fs, writable(fs, e.path), Put(fs, p, File(out))) BY <2>2 DEF write
    <3>2. fs' = Put(fs, p, File(out)) /\ writable(fs, e.path) = "Ok" BY <3>1 DEF Try
    <3>3. whole = old
      <4>1. p \in Seq(Name) /\ ~IsDir(fs, p) /\ IsAbsolute(e.path)
        <5>1. p \in Seq(Name) /\ ~IsDir(fs, p) BY <1>1, <1>5, <3>2, WritableOk
        <5>2. IsAbsolute(e.path) BY <3>2 DEF writable, parent
        <5>3. QED BY <5>1, <5>2
      <4>2. read(fs, e.path) = node(fs, p) BY <4>1 DEF read
      <4>3. CASE p \in DOMAIN fs
        <5>1. node(fs, p) = "Ok" BY <1>1, <4>3, NodeFound
        <5>2. QED BY <4>2, <4>3, <5>1 DEF contents
      <4>4. CASE p \notin DOMAIN fs
        <5>1. <<>> \in DOMAIN fs BY <1>1 DEF Tree, IsDir
        <5>2. node(fs, p) # "Ok" BY <4>1, <4>4, <5>1, NodeOk
        <5>3. QED BY <4>2, <4>4, <5>2
      <4>5. QED BY <4>3, <4>4
    <3> HIDE DEF old, p
    <3>4. /\ out \in Seq(Byte) /\ Len(out) >= Len(old)
          /\ \A i \in 1..Len(out) :
               \/ e.offset < i /\ i <= e.offset + Len(buf)
               \/ out[i] = IF i <= Len(old) THEN old[i] ELSE "0"
      BY <1>4, <1>5, <1>6, <3>3, OverwriteProperties
    <3> HIDE DEF out
    <3>5. Len(out) \in Nat BY <3>4, LenProperties
    <3>6. ~(Len(out) < Len(old)) BY <1>6, <3>4, <3>5
    <3>7. QED BY <2>2, <3>2, <3>4, <3>5, <3>6
  <2>3. QED BY <2>1, <2>2
<1>8. /\ DOMAIN fs' = DOMAIN fs \cup {p} /\ fs'[p].data = data
      /\ \A q \in DOMAIN fs : q # p => fs'[q] = fs[q]
  BY <1>7 DEF Put, File
<1>9. Tree(fs') /\ Typed(fs', Byte)
  <2>1. Tree(Put(fs, p, File(data))) BY <1>1, <1>5, <1>7, FileTree
  <2>2. File(data).data = data BY DEF File
  <2> HIDE DEF p
  <2>3. Typed(Put(fs, p, File(data)), Byte) BY <1>1, <2>2, PutTyped
  <2>4. QED BY <1>7, <2>1, <2>3
<1>10. /\ entries' \in Seq(Entry)
       /\ \A other \in Nat : other # fd => entry(entries', other) = entry(entries, other)
       /\ "APPEND" \notin e.flags => entry(entries', fd).offset = e.offset + Len(buf)
  <2>1. CASE "APPEND" \in e.flags BY <1>1, <2>1
  <2>2. CASE "APPEND" \notin e.flags
    <3> DEFINE a == [e EXCEPT !.offset = e.offset + Len(buf)]
               u == [entries EXCEPT ![fd + 1] = a]
    <3>1. a \in Entry BY <1>2, <1>4, OffsetTyped, Zenon
    <3>2. a.offset = e.offset + Len(buf) BY <1>3
    <3>3. e = entries[fd + 1] BY <1>1, <1>2, ExceptEntry
    <3>4. entries' = u BY <2>2, <3>3
    <3> HIDE DEF a
    <3>5. /\ u \in Seq(Entry) /\ entry(u, fd) = a
          /\ \A other \in Nat : other # fd => entry(u, other) = entry(entries, other)
      BY <1>1, <1>2, <3>1, ExceptEntry, Zenon
    <3> HIDE DEF u
    <3>6. QED BY <3>2, <3>4, <3>5, Zenon
  <2>3. QED BY <2>1, <2>2, Zenon
<1> HIDE DEF p, old
<1>11. IInv' BY <1>9, <1>10 DEF IInv
<1>12. FdStep BY <1>1, <1>10 DEF FdStep
<1>13. LengthStep
  <2>1. \A q \in DOMAIN fs : Len(fs[q].data) \in Nat BY <1>1, LenProperties DEF Typed
  <2>2. QED BY <1>6, <1>7, <1>8, <2>1, SMTT(30) DEF LengthStep
<1>14. RangeStep
  <2> DEFINE InRange(q, x, to) ==
               /\ q = split_path(x.path)
               /\ \A i \in 1..Len(fs'[q].data) :
                    \/ /\ i > (IF "APPEND" \in x.flags THEN Len(fs[q].data) ELSE x.offset)
                       /\ "APPEND" \in x.flags \/ i <= to
                    \/ fs'[q].data[i] = IF i <= Len(fs[q].data) THEN fs[q].data[i] ELSE "0"
  <2>1. SUFFICES ASSUME NEW q \in DOMAIN fs, IsFile(fs, q), fs'[q] # fs[q]
                 PROVE  InRange(q, entry(entries, last'.fd), entry(entries', last'.fd).offset)
    BY Zenon DEF RangeStep
  <2>a. SUFFICES InRange(q, e, entry(entries', fd).offset) BY <1>1, ZenonT(60)
  <2>2. q = p BY <1>8, <2>1
  <2>3. fs'[q].data = data /\ fs[q].data = old BY <1>6, <1>8, <2>2
  <2>4. ASSUME NEW i \in 1..Len(data)
        PROVE  \/ /\ i > IF "APPEND" \in e.flags THEN Len(old) ELSE e.offset
                  /\ "APPEND" \in e.flags \/ i <= entry(entries', fd).offset
               \/ data[i] = IF i <= Len(old) THEN old[i] ELSE "0"
    <3>1. \/ "APPEND" \in e.flags /\ i > Len(old)
          \/ "APPEND" \notin e.flags /\ e.offset < i /\ i <= e.offset + Len(buf)
          \/ data[i] = IF i <= Len(old) THEN old[i] ELSE "0"
      BY <1>7
    <3>2. CASE "APPEND" \in e.flags BY <3>1, <3>2
    <3>3. CASE "APPEND" \notin e.flags
      <4>1. i \in Int /\ e.offset \in Int BY <1>5, <1>7
      <4>2. e.offset < i <=> i > e.offset BY <4>1
      <4>3. QED BY <1>10, <3>1, <3>3, <4>2
    <3>4. QED BY <3>2, <3>3
  <2>5. QED BY <2>2, <2>3, <2>4, ZenonT(60) DEF p
<1>15. QED BY <1>11, <1>12, <1>13, <1>14 DEF Good

LEMMA WriteGood ==
  ASSUME IInv, NEW fd \in FdNums, NEW buf \in Chunks, SysWrite(fd, buf)
  PROVE  Good
<1> DEFINE e == entry(entries, fd)
           whole == IF read(fs, e.path) = "Ok" THEN contents(fs, e.path) ELSE <<>>
           r == IF "APPEND" \in e.flags THEN append(fs, e.path, buf)
                ELSE write(fs, e.path, overwrite(whole, e.offset, buf))
<1>1. fd \in Nat /\ entries \in Seq(Entry) BY FdNumsAssumption DEF IInv
<1>2. e \in Entry BY <1>1, EntryTyped
<1>3. /\ e.kind \in {"none", "stdin", "stdout", "stderr", "file"}
      /\ e.kind = "none" <=> e = Closed
      /\ e.kind \in {"stdout", "stderr"} => e \in [kind : {"stdout", "stderr"}, data : Seq(Byte)]
  BY <1>2, EntryKinds
<1>4. CASE e.kind \in {"none", "stdin"}
  <2>1. \E err : Fails("write", fd, err) BY <1>4, Zenon DEF SysWrite
  <2>2. QED BY <2>1, FailsGood
<1>5. CASE e.kind \in {"stdout", "stderr"}
  <2> DEFINE a == [e EXCEPT !.data = e.data \o buf]
  <2>1. /\ entries' = [entries EXCEPT ![fd + 1].data = @ \o buf] /\ fs' = fs
        /\ Result("write", fd, "Ok")
    BY <1>5, Zenon DEF SysWrite
  <2>2. last'.fd = fd /\ last'.op = "write" BY <2>1 DEF Result
  <2>3. e # Closed /\ e.data \in Seq(Byte) BY <1>3, <1>5
  <2>4. e.data \o buf \in Seq(Byte) BY <2>3, ChunksTyped, ConcatProperties
  <2>5. a \in [kind : {"stdout", "stderr"}, data : Seq(Byte)] BY <1>3, <1>5, <2>4, Zenon
  <2>6. e = entries[fd + 1] BY <1>1, <1>2, <2>3, ExceptEntry
  <2>7. entries' = [entries EXCEPT ![fd + 1] = a] BY <2>1, <2>6
  <2> HIDE DEF a
  <2>8. a \in Entry BY <2>5 DEF Entry
  <2>9. QED BY <1>1, <2>1, <2>2, <2>3, <2>7, <2>8, AdvanceGood, Zenon
<1>6. CASE e.kind = "file"
  <2>1. \/ \E err : Fails("write", fd, err)
        \/ /\ r.res = "Ok" /\ fs' = r.fs /\ Result("write", fd, "Ok")
           /\ entries' = IF "APPEND" \in e.flags THEN entries
                         ELSE [entries EXCEPT ![fd + 1].offset = @ + Len(buf)]
    BY <1>6 DEF SysWrite
  <2> HIDE DEF e, r, whole
  <2>2. /\ e = entry(entries, fd)
        /\ whole = IF read(fs, e.path) = "Ok" THEN contents(fs, e.path) ELSE <<>>
        /\ r = IF "APPEND" \in e.flags THEN append(fs, e.path, buf)
               ELSE write(fs, e.path, overwrite(whole, e.offset, buf))
    BY DEF e, r, whole
  <2>3. QED BY <1>6, <2>1, <2>2, FailsGood, FileWriteGood
<1>7. QED BY <1>3, <1>4, <1>5, <1>6

\* The calls that only change the file system.
LEMMA PathCallsGood ==
  ASSUME IInv, NEW path \in Paths, NEW to \in Paths,
         SysUnlink(path) \/ SysMkdir(path) \/ SysExec(path) \/ SysRename(path, to)
  PROVE  Good
<1>1. path \in Seq(STRING) /\ to \in Seq(STRING) /\ <<>> \in Seq(Byte)
  BY PathsAssumption, EmptySeq
<1>2. Tree(fs) /\ Typed(fs, Byte) /\ Grows(fs, fs) BY Reflexive DEF IInv
<1>3. CASE SysUnlink(path)
  <2> DEFINE r == remove(fs, path)
  <2>1. Tree(r.fs) /\ Typed(r.fs, Byte) /\ Grows(fs, r.fs)
    BY <1>1, <1>2, RemoveTree, MethodsTyped, MethodsGrow, ZenonT(30)
  <2>2. FsOnly("unlink", NoFd, r) BY <1>3 DEF SysUnlink
  <2> HIDE DEF r
  <2>3. QED BY <2>1, <2>2, FsOnlyGood
<1>4. CASE SysMkdir(path)
  <2> DEFINE r == mkdir(fs, path)
  <2>1. Tree(r.fs) /\ Typed(r.fs, Byte) /\ Grows(fs, r.fs)
    BY <1>1, <1>2, MkdirTree, MethodsTyped, MethodsGrow, Zenon
  <2>2. FsOnly("mkdir", NoFd, r) BY <1>4 DEF SysMkdir
  <2> HIDE DEF r
  <2>3. QED BY <2>1, <2>2, FsOnlyGood
<1>5. CASE SysExec(path)
  <2>1. PICK res : Fails("exec", NoFd, res) BY <1>5, Zenon DEF SysExec, Fails
  <2>2. QED BY <2>1, FailsGood
<1>6. CASE SysRename(path, to)
  <2> DEFINE r == rename(fs, path, to)
  <2>1. Tree(r.fs) /\ Typed(r.fs, Byte) /\ Grows(fs, r.fs)
    BY <1>1, <1>2, RenameTree, MethodsTyped, MethodsGrow, Zenon
  <2>2. FsOnly("rename", NoFd, r) BY <1>6 DEF SysRename
  <2> HIDE DEF r
  <2>3. QED BY <2>1, <2>2, FsOnlyGood
<1>7. QED BY <1>3, <1>4, <1>5, <1>6

LEMMA InitIInv == SysInit => IInv
<1>1. SUFFICES ASSUME SysInit PROVE IInv OBVIOUS
<1>2. fs = new /\ entries = <<Stdin, Stdout, Stderr>> BY <1>1 DEF SysInit, table_new
<1>3. <<>> \in Seq(Byte) BY EmptySeq
<1>4. Tree(fs) /\ Typed(fs, Byte) BY <1>2, <1>3, NewTree, Zenon DEF Typed
<1>5. Stdin \in Entry /\ Stdout \in Entry /\ Stderr \in Entry
  BY <1>3 DEF Entry, Stdin, Stdout, Stderr
<1>6. <<Stdin, Stdout, Stderr>> \in Seq(Entry)
  <2> HIDE DEF Entry
  <2>1. QED BY <1>5
<1>7. QED BY <1>2, <1>4, <1>6 DEF IInv

LEMMA NextGood == IInv /\ [SysNext]_sysVars => UNCHANGED sysVars \/ Good
<1>1. SUFFICES ASSUME IInv, SysNext PROVE Good OBVIOUS
<1>2. CASE SysRefused BY <1>1, <1>2, FailsGood DEF SysRefused
<1>3. ASSUME NEW path \in Paths, NEW flags \in FlagSets, SysOpen(path, flags) PROVE Good
  BY <1>1, <1>3, OpenGood
<1>4. ASSUME NEW path \in Paths, SysUnlink(path) \/ SysMkdir(path) \/ SysExec(path) PROVE Good
  BY <1>1, <1>4, PathCallsGood
<1>5. ASSUME NEW path \in Paths, NEW to \in Paths, SysRename(path, to) PROVE Good
  BY <1>1, <1>5, PathCallsGood
<1>6. ASSUME NEW fd \in FdNums, SysClose(fd) PROVE Good BY <1>1, <1>6, CloseGood
<1>7. ASSUME NEW fd \in FdNums, NEW to \in FdNums, SysDup2(fd, to) PROVE Good
  BY <1>1, <1>7, Dup2Good
<1>8. ASSUME NEW fd \in FdNums, NEW n \in Sizes, SysRead(fd, n) PROVE Good
  BY <1>1, <1>8, ReadGood
<1>9. ASSUME NEW fd \in FdNums, NEW buf \in Chunks, SysWrite(fd, buf) PROVE Good
  BY <1>1, <1>9, WriteGood
<1>10. QED BY <1>1, <1>2, <1>3, <1>4, <1>5, <1>6, <1>7, <1>8, <1>9 DEF SysNext

\* After any sequence of system calls the files form a tree under the root,
\* with names only that split_path lets through, and the descriptor table
\* holds entries.
THEOREM SysInvariance == SysSpec => []IInv
<1>1. IInv /\ UNCHANGED sysVars => IInv' BY DEF IInv, sysVars, Tree, Typed, IsDir
<1>2. IInv /\ [SysNext]_sysVars => IInv' BY <1>1, NextGood DEF Good
<1>3. QED BY <1>2, InitIInv, PTL DEF SysSpec

\* Every node hangs off a directory, whatever the calls create, move and
\* remove.
THEOREM CallsKeepTree == SysSpec => []TreeWellFormed
<1>1. IInv => TreeWellFormed BY DEF IInv, Tree, TreeWellFormed
<1>2. QED BY <1>1, SysInvariance, PTL

\* A descriptor means the same file until a call names it.
THEOREM DescriptorsStable == SysSpec => FdStable
<1>1. IInv /\ [SysNext]_sysVars =>
        [\A fd \in 0..(MaxFds - 1) :
           entry(entries, fd) # Closed /\ entry(entries', fd) # entry(entries, fd)
             => last'.fd = fd /\ last'.op \in {"close", "dup2", "read", "write"}]_sysVars
  <2>1. \A fd \in 0..(MaxFds - 1) : fd \in Nat BY FdNumsAssumption
  <2>2. QED BY <2>1, NextGood DEF Good, FdStep
<1>2. QED BY <1>1, SysInvariance, PTL DEF SysSpec, FdStable

\* Only open with TRUNC shortens a file that keeps its name.
THEOREM CallsKeepBytes == SysSpec => OnlyTruncShortens
<1>1. IInv /\ [SysNext]_sysVars =>
        [\A p \in DOMAIN fs \cap DOMAIN fs' :
           Len(fs'[p].data) < Len(fs[p].data) => last'.op = "truncate"]_sysVars
  BY NextGood DEF Good, LengthStep
<1>2. QED BY <1>1, SysInvariance, PTL DEF SysSpec, OnlyTruncShortens

\* A write changes its file only where it writes, or by zeros up to there.
THEOREM WritesInRange == SysSpec => WritesStayInRange
<1>1. IInv /\ [SysNext]_sysVars =>
        [last'.op = "write" =>
           \A p \in DOMAIN fs : IsFile(fs, p) /\ fs'[p] # fs[p] =>
             LET e == entry(entries, last'.fd)
                 from == IF "APPEND" \in e.flags THEN Len(fs[p].data) ELSE e.offset
                 to == entry(entries', last'.fd).offset
             IN  /\ p = split_path(e.path)
                 /\ \A i \in 1..Len(fs'[p].data) :
                      \/ i > from /\ ("APPEND" \in e.flags \/ i <= to)
                      \/ fs'[p].data[i] =
                           IF i <= Len(fs[p].data) THEN fs[p].data[i] ELSE "0"]_sysVars
  BY NextGood DEF Good, RangeStep
<1>2. QED BY <1>1, SysInvariance, PTL DEF SysSpec, WritesStayInRange
=============================================================================
