--------------------------- MODULE CommandProofs ---------------------------
(***************************************************************************)
(* Proofs about the shell's commands and the executables they run.         *)
(***************************************************************************)
EXTENDS Commands, RamFsProofs, FiniteSetTheorems

Words == Seq(STRING)
Finite(f) == IsFiniteSet(DOMAIN f)

\* A file system as the commands leave it.
FsOK(f) == Tree(f) /\ Typed(f, Unit) /\ Finite(f)

(***************************************************************************)
(* Executables.                                                            *)
(***************************************************************************)
LEMMA UnitKinds ==
  ASSUME NEW e \in Unit
  PROVE  /\ e.unit = "header" => e.phoff \in Nat /\ e.phnum \in Nat
         /\ e.unit = "segment" => e.offset \in Nat /\ e.filesz \in Nat /\ e.memsz \in Nat
BY WordAssumption DEF Unit, Binary, Space, Newline

\* What parse has established when it accepts a file, however large the
\* numbers in it.
LEMMA ParseOk ==
  ASSUME NEW image \in Seq(Unit), parse(image).res = "Ok"
  PROVE  /\ image # <<>> /\ image[1].unit = "header"
         /\ parse(image).program = image[1].entry
         /\ \E i \in 1..Len(image) :
              /\ parse(image).load = image[i] /\ image[i].unit = "segment"
              /\ image[i].offset + image[i].filesz <= Len(image)
              /\ image[i].filesz <= image[i].memsz
<1> DEFINE h == image[1]
           stops == {at \in h.phoff..(h.phoff + h.phnum - 1) :
                       at >= Len(image) \/ Loadable(image, at)}
           first == Min(stops)
<1>1. /\ image # <<>> /\ h.unit = "header" /\ stops # {}
      /\ ~(first >= Len(image)) /\ parse(image) = segment(image, image[first + 1])
  BY DEF parse, Failed
<1>2. Len(image) \in Nat \ {0} BY <1>1, EmptySeq
<1>3. h \in Unit BY <1>2, ElementOfSeq
<1>4. h.phoff \in Nat /\ h.phnum \in Nat BY <1>1, <1>3, UnitKinds
<1>5. stops \in SUBSET Nat BY <1>4
<1>6. first \in stops
  <2> HIDE DEF stops
  <2>1. \E x \in stops : \A y \in stops : x <= y BY <1>1, <1>5, Least
  <2>2. QED BY <2>1 DEF Min
<1>7. first \in Nat /\ (first >= Len(image) \/ Loadable(image, first))
  <2> HIDE DEF first
  <2>1. QED BY <1>5, <1>6
<1> HIDE DEF first, stops, h
<1> DEFINE s == image[first + 1]
<1>8. first + 1 \in 1..Len(image) /\ s.unit = "segment" BY <1>1, <1>2, <1>7 DEF Loadable
<1>9. s \in Unit BY <1>8, ElementOfSeq
<1>10. s.offset \in Nat /\ s.filesz \in Nat /\ s.memsz \in Nat BY <1>8, <1>9, UnitKinds
<1> HIDE DEF s
<1>11. segment(image, s).res = "Ok" BY <1>1 DEF s
<1>12. /\ ~(s.offset + s.filesz > Len(image)) /\ ~(s.memsz < s.filesz)
       /\ segment(image, s) = [res |-> "Ok", program |-> image[1].entry, load |-> s]
  BY <1>11 DEF segment, Failed
<1>13. s.offset + s.filesz <= Len(image) /\ s.filesz <= s.memsz BY <1>2, <1>10, <1>12
<1>14. parse(image).program = image[1].entry /\ parse(image).load = s BY <1>1, <1>12 DEF s
<1>15. QED BY <1>1, <1>8, <1>13, <1>14 DEF s, h

\* The images that build_program_image makes are units.
LEMMA ImageTyped ==
  ASSUME NEW program \in STRING
  PROVE  build_program_image(program) \in Seq(Unit)
<1>1. 1 \in 0..(Word - 1) /\ 2 \in 0..(Word - 1) BY WordAssumption
<1>2. Header(program, 1, 1) \in Binary BY <1>1 DEF Header, Binary
<1>3. Segment("load", program, 2, 1, 1) \in Binary
  <2> DEFINE U == 0..(Word - 1)
  <2>1. 1 \in U /\ 2 \in U BY <1>1
  <2> HIDE DEF U
  <2>2. Segment("load", program, 2, 1, 1) \in
          [unit : {"segment"}, type : {"load", "note"}, vaddr : STRING, offset : U, filesz : U, memsz : U]
    BY <2>1 DEF Segment
  <2>3. QED BY <2>2 DEF Binary, U
<1>4. Code(program) \in Binary BY DEF Code, Binary
<1>5. Binary \subseteq Unit BY DEF Unit
<1>6. /\ Header(program, 1, 1) \in Unit /\ Segment("load", program, 2, 1, 1) \in Unit
      /\ Code(program) \in Unit
  BY <1>2, <1>3, <1>4, <1>5
<1>7. QED BY <1>6 DEF build_program_image

(***************************************************************************)
(* Reading the words of a line.                                            *)
(***************************************************************************)
Errors ==
  {"Ok", "InvalidPath", "IsDirectory", "NotDirectory", "NotFound", "MissingArgument"}

LEMMA ReadResult ==
  ASSUME NEW f, NEW path
  PROVE  read(f, path) \in Errors
<1> DEFINE p == split_path(path)
<1>1. node(f, p) = "Ok" \/ node(f, p) = "NotDirectory" \/ node(f, p) = "NotFound"
  BY Zenon DEF node
<1>2. \/ read(f, path) = "InvalidPath" \/ read(f, path) = "IsDirectory"
      \/ read(f, path) = node(f, p)
  BY Zenon DEF read
<1>3. QED BY <1>1, <1>2 DEF Errors

\* read succeeds on nodes.
LEMMA ReadOk ==
  ASSUME NEW f, FsOK(f), NEW path \in Words, read(f, path) = "Ok"
  PROVE  split_path(path) \in DOMAIN f /\ contents(f, path) \in Seq(Unit)
<1>1. split_path(path) \in Seq(Name) BY SplitPath DEF Words
<1>2. <<>> \in DOMAIN f BY DEF FsOK, Tree, IsDir
<1>3. node(f, split_path(path)) = "Ok" BY DEF read
<1>4. split_path(path) \in DOMAIN f BY <1>1, <1>2, <1>3, NodeOk
<1>5. QED BY <1>4 DEF contents, FsOK, Typed

ScanState ==
  [res : Errors, op : Redirections \cup {<<>>}, rest : Seq(Words), input : Seq(Unit), to : Seq(Words),
   append : BOOLEAN]

LEMMA ScanWordTyped ==
  ASSUME NEW f, FsOK(f), NEW s \in ScanState, NEW word \in Words
  PROVE  scan_word(f, s, word) \in ScanState
<1>1. <<>> \in Words /\ <<word>> \in Seq(Words) BY EmptySeq DEF Words
<1>2. CASE s.res # "Ok" BY <1>2 DEF scan_word
<1>3. CASE s.res = "Ok" /\ s.op = <<>> /\ word \in Redirections
  BY <1>3 DEF scan_word, ScanState
<1>4. CASE s.res = "Ok" /\ s.op = <<>> /\ word \notin Redirections
  <2>1. Append(s.rest, word) \in Seq(Words) BY AppendProperties DEF ScanState
  <2>2. QED BY <1>4, <2>1, Zenon DEF scan_word, ScanState
<1>5. CASE s.res = "Ok" /\ s.op # <<>> /\ s.op # <<"<">>
  BY <1>1, <1>5, Zenon DEF scan_word, ScanState
<1>6. CASE s.res = "Ok" /\ s.op = <<"<">> /\ s.op # <<>>
  <2>1. CASE read(f, word) # "Ok"
    <3>1. read(f, word) \in Errors BY ReadResult
    <3>2. QED BY <1>6, <2>1, <3>1 DEF scan_word, ScanState
  <2>2. CASE read(f, word) = "Ok"
    <3>1. contents(f, word) \in Seq(Unit) BY <2>2, ReadOk
    <3>2. QED BY <1>1, <1>6, <2>2, <3>1, Zenon DEF scan_word, ScanState
  <2>3. QED BY <2>1, <2>2
<1>7. QED BY <1>2, <1>3, <1>4, <1>5, <1>6

\* The loop over the words ends with words, data and paths.
LEMMA ScanTyped ==
  ASSUME NEW f, FsOK(f), NEW line \in Seq(Words)
  PROVE  scan(f, line) \in ScanState
<1> DEFINE n == Len(line)
           V == ScanState
           e == [res |-> "Ok", op |-> <<>>, rest |-> <<>>, input |-> <<>>,
                 to |-> <<>>, append |-> FALSE]
           g == [i \in 1..n |-> [q \in V |-> scan_word(f, q, line[i])]]
           K(h) == [i \in 0..n |-> IF i = 0 THEN e ELSE scan_word(f, h[i - 1], line[i])]
           after == CHOOSE h : h = K(h)
<1>1. n \in Nat /\ \A i \in 1..n : line[i] \in Words BY LenProperties, ElementOfSeq
<1>2. \A q \in V, i \in 1..n : scan_word(f, q, line[i]) \in V BY <1>1, ScanWordTyped
<1>3. e \in V BY EmptySeq DEF ScanState, Errors
<1>4. g \in [1..n -> [V -> V]] BY <1>2
<1>5. \E h \in [0..n -> V] : h[0] = e /\ \A i \in 1..n : h[i] = g[i][h[i - 1]]
  <2>1. e \in V /\ n \in Nat /\ g \in [1..n -> [V -> V]] BY <1>1, <1>3, <1>4
  <2> HIDE DEF g, n, V, e
  <2>2. \E h \in [0..n -> V] : Follows(h, e, n, g) BY <2>1, Recursion
  <2>3. QED BY <2>2, Zenon DEF Follows
<1>6. PICK h \in [0..n -> V] : h[0] = e /\ \A i \in 1..n : h[i] = g[i][h[i - 1]] BY <1>5
<1>a. \A i \in 1..n : i - 1 \in 0..n /\ i \in 0..n /\ i # 0 BY <1>1
<1>b. \A i \in 0..n : i = 0 \/ i \in 1..n BY <1>1
<1>7. h = K(h)
  <2>1. \A i \in 1..n : h[i] = scan_word(f, h[i - 1], line[i]) /\ i # 0
    <3> HIDE DEF e
    <3>1. TAKE i \in 1..n
    <3>2. h[i - 1] \in V /\ i # 0 BY <1>a, <1>6
    <3>3. QED BY <1>6, <3>2
  <2> HIDE DEF e, g
  <2>2. \A i \in 0..n : h[i] = K(h)[i] BY <1>6, <1>b, <2>1
  <2>3. QED BY <1>6, <2>2
<1>8. after = K(after) BY <1>7, Zenon
<1> DEFINE s == after[n]
<1>9. scan(f, line) =
        IF s.res = "Ok" /\ s.op # <<>> THEN [s EXCEPT !.res = "MissingArgument"] ELSE s
  BY DEF scan
<1> HIDE DEF after, e, g
<1>10. after[0] = e /\ \A i \in 1..n : after[i] = scan_word(f, after[i - 1], line[i])
  <2>1. K(after)[0] = e BY <1>1
  <2>2. \A i \in 1..n : K(after)[i] = scan_word(f, after[i - 1], line[i]) BY <1>a
  <2> HIDE DEF K
  <2>3. QED BY <1>8, <2>1, <2>2
<1> DEFINE U == {i \in Nat : i <= n => after[i] \in V}
<1>11. 0 \in U BY <1>3, <1>10
<1>12. ASSUME NEW i \in Nat, i \in U PROVE i + 1 \in U
  <2>1. SUFFICES ASSUME i + 1 <= n PROVE after[i + 1] \in V OBVIOUS
  <2>2. after[i] \in V /\ i + 1 \in 1..n /\ (i + 1) - 1 = i BY <1>1, <1>12, <2>1
  <2> HIDE DEF V, n
  <2>3. QED BY <1>2, <1>10, <2>2
<1> HIDE DEF U
<1>13. Nat \subseteq U BY <1>11, <1>12, SetInduction
<1>14. s \in V BY <1>1, <1>13 DEF U
<1> HIDE DEF s
<1>15. QED BY <1>9, <1>14, Zenon DEF ScanState, Errors

(***************************************************************************)
(* Programs and their files.                                               *)
(***************************************************************************)
LEMMA Triple ==
  ASSUME NEW S, NEW a \in S, NEW b \in S, NEW c \in S
  PROVE  <<a, b>> \in Seq(S) /\ <<a, b, c>> \in Seq(S)
OBVIOUS

LEMMA AppendSecond ==
  ASSUME NEW S, NEW u \in Seq(S), Len(u) = 1, NEW b \in S
  PROVE  /\ Append(u, b) \in Seq(S) /\ Len(Append(u, b)) = 2
         /\ Append(u, b)[1] = u[1] /\ Append(u, b)[2] = b
<1>1. Append(u, b) \in Seq(S) BY AppendProperties
<1>2. Len(Append(u, b)) = Len(u) + 1 BY AppendProperties, Zenon
<1>3. Append(u, b)[Len(u) + 1] = b BY AppendProperties
<1>4. \A i \in 1..Len(u) : Append(u, b)[i] = u[i] BY AppendProperties
<1>5. 1 \in 1..1 /\ 1 + 1 = 2 OBVIOUS
<1>6. QED BY <1>1, <1>2, <1>3, <1>4, <1>5

LEMMA AppendTwo ==
  ASSUME NEW S, NEW a \in S, NEW b \in S
  PROVE  Append(Append(<<>>, a), b) = <<a, b>>
<1> DEFINE u == Append(<<>>, a)
           v == Append(u, b)
           w == <<a, b>>
<1>1. <<>> \in Seq(S) /\ Len(<<>>) = 0 BY EmptySeq
<1>2. u \in Seq(S) /\ Len(u) = 1 /\ u[1] = a BY <1>1, AppendProperties
<1> HIDE DEF u
<1>3. v \in Seq(S) /\ Len(v) = 2 /\ v[1] = a /\ v[2] = b BY <1>2, AppendSecond
<1>4. w \in Seq(S) /\ Len(w) = 2 /\ w[1] = a /\ w[2] = b OBVIOUS
<1> HIDE DEF v, w
<1>5. \A i \in 1..2 : i = 1 \/ i = 2 OBVIOUS
<1>6. v = w BY <1>3, <1>4, <1>5, SeqEqual
<1>7. QED BY <1>6 DEF u, v, w

\* The path of a file in a directory of the root.
LEMMA SplitTwo ==
  ASSUME NEW a \in Name, NEW b \in Name
  PROVE  /\ <<"", a, b>> \in Words /\ <<a, b>> \in Seq(Name)
         /\ split_path(<<"", a, b>>) = <<a, b>>
<1> DEFINE s == <<"", a, b>>
<1>1. "" \in STRING /\ a \in STRING /\ b \in STRING /\ a \notin {"", "."} /\ b \notin {"", "."}
  BY LiteralsAssumption, Zenon DEF Name
<1>2. s \in Words /\ <<a, b>> \in Seq(Name) BY <1>1, Triple, Zenon DEF Words
<1>3. Len(s) = 3 /\ s[1] = "" /\ s[2] = a /\ s[3] = b OBVIOUS
<1> HIDE DEF s
<1>4. PICK f \in [0..Len(s) -> Seq(STRING)] : Computes(f, s, {"", "."})
  BY <1>2, WithoutSteps, Zenon DEF Words
<1>5. /\ f[0] = <<>>
      /\ \A i \in 1..3 : f[i] = IF s[i] \in {"", "."} THEN f[i - 1] ELSE Append(f[i - 1], s[i])
      /\ Without(s, {"", "."}) = f[3]
  BY <1>3, <1>4, Zenon DEF Computes
<1>6. f[1] = <<>>
  <2>1. 1 \in 1..3 /\ 1 - 1 = 0 OBVIOUS
  <2>2. QED BY <1>3, <1>5, <2>1, Zenon
<1>7. f[2] = Append(f[1], a)
  <2>1. 2 \in 1..3 /\ 2 - 1 = 1 OBVIOUS
  <2>2. QED BY <1>1, <1>3, <1>5, <2>1, Zenon
<1>8. f[3] = Append(f[2], b)
  <2>1. 3 \in 1..3 /\ 3 - 1 = 2 OBVIOUS
  <2>2. QED BY <1>1, <1>3, <1>5, <2>1, Zenon
<1>9. f[3] = <<a, b>> BY <1>6, <1>7, <1>8, AppendTwo
<1>10. QED BY <1>2, <1>5, <1>9, Zenon DEF s, split_path

LEMMA BinPath ==
  ASSUME NEW program \in ProgramId
  PROVE  /\ program \in Name /\ "bin" \in Name /\ <<"bin", program>> \in Seq(Name)
         /\ Bin(program) \in Words /\ split_path(Bin(program)) = <<"bin", program>>
<1>1. program \in Name /\ "bin" \in Name BY ProgramsAssumption, SeedAssumption, Zenon DEF Name
<1>2. QED BY <1>1, SplitTwo, Zenon DEF Bin

\* What load_program has established when it lets a command run.
Loaded(f, name) ==
  \E program \in ProgramId :
    /\ name = <<program>> /\ <<"bin", program>> \in DOMAIN f
    /\ parse(f[<<"bin", program>>].data).res = "Ok"
    /\ parse(f[<<"bin", program>>].data).program = program

LEMMA LoadOk ==
  ASSUME NEW f, FsOK(f), NEW name, load_program(f, name) = "Ok"
  PROVE  Loaded(f, name)
<1>1. PICK program \in ProgramId : name = <<program>> BY DEF load_program
<1>2. name[1] = program BY <1>1
<1>3. /\ split_path(Bin(program)) = <<"bin", program>> /\ Bin(program) \in Words BY BinPath
<1> DEFINE path == Bin(program)
           parsed == parse(contents(f, path))
<1>4. /\ read(f, path) = "Ok" /\ parsed.res = "Ok" /\ parsed.program = program
  BY <1>1, <1>2 DEF load_program
<1>5. <<"bin", program>> \in DOMAIN f BY <1>3, <1>4, ReadOk
<1>6. contents(f, path) = f[<<"bin", program>>].data BY <1>3 DEF contents
<1>7. QED BY <1>1, <1>4, <1>5, <1>6 DEF Loaded

(***************************************************************************)
(* How many nodes there are.                                               *)
(***************************************************************************)
\* A finite set has finitely many images under a function.
LEMMA ImageFinite ==
  ASSUME NEW S, IsFiniteSet(S), NEW h, DOMAIN h = S
  PROVE  IsFiniteSet({h[x] : x \in S})
<1> DEFINE T == {h[x] : x \in S}
           k == [x \in S |-> h[x]]
<1>1. k \in Surjection(S, T) BY DEF Surjection
<1> HIDE DEF k, T
<1>2. IsFiniteSet(T) BY <1>1, FS_Surjection
<1>3. QED BY <1>2 DEF T

LEMMA PutFinite ==
  ASSUME NEW f, Finite(f), NEW p, NEW n
  PROVE  Finite(Put(f, p, n))
<1>1. DOMAIN Put(f, p, n) = DOMAIN f \cup {p} BY DEF Put
<1>2. QED BY <1>1, FS_AddElement DEF Finite

LEMMA DropFinite ==
  ASSUME NEW f, Finite(f), NEW p
  PROVE  Finite(Drop(f, p))
<1>1. DOMAIN Drop(f, p) \in SUBSET (DOMAIN f) BY DEF Drop
<1>2. QED BY <1>1, FS_Subset DEF Finite

\* Where rename takes each node.
Travels(f, o, n) == [q \in DOMAIN f |-> IF q \in Below(f, o) THEN Moved(o, n, q) ELSE q]

\* A rename that succeeds takes the nodes to as many places.
LEMMA RenameBijection ==
  ASSUME NEW f, Tree(f), NEW o \in DOMAIN f, NEW n \in Seq(Name),
         Tree(Drop(f, o)), n \notin DOMAIN Drop(f, o)
  PROVE  Travels(f, o, n) \in Bijection(DOMAIN f, DOMAIN Graft(Drop(f, o), f, o, n))
<1> DEFINE g == Drop(f, o)
           h == Graft(g, f, o, n)
           H == {Moved(o, n, q) : q \in Below(f, o)}
           b == Travels(f, o, n)
<1>1. o \in Seq(Name) /\ DOMAIN f \subseteq Seq(Name) BY DEF Tree
<1>2. DOMAIN h = DOMAIN g \cup H
  <2>1. Grafted(h, g, f, o, n) BY <1>1, GraftProperties
  <2>2. QED BY <2>1 DEF Grafted
<1>3. DOMAIN g = DOMAIN f \ Below(f, o) BY DEF Drop
<1>4. \A q \in Below(f, o) : q \in DOMAIN f /\ q \in Seq(Name) /\ IsPrefix(o, q)
  BY <1>1 DEF Below
<1>5. ASSUME NEW q \in Below(f, o) PROVE Moved(o, n, q) \notin DOMAIN g
  <2>1. IsPrefix(n, Moved(o, n, q)) BY <1>1, <1>4, MovedProperties
  <2> HIDE DEF g
  <2>2. Moved(o, n, q) \in DOMAIN g => n \in DOMAIN g BY <2>1, PrefixClosed DEF g
  <2>3. QED BY <2>2 DEF g
<1>6. DOMAIN b = DOMAIN f /\ \A q \in DOMAIN f :
        b[q] = IF q \in Below(f, o) THEN Moved(o, n, q) ELSE q
  BY DEF Travels
<1>7. \A q \in Below(f, o) : Moved(o, n, q) \in H OBVIOUS
<1>8. \A m \in H : \E q \in Below(f, o) : m = Moved(o, n, q) OBVIOUS
<1>9. \A q \in Below(f, o) : Moved(n, o, Moved(o, n, q)) = q BY <1>1, <1>4, MovedBack
<1>a. b = [q \in DOMAIN f |-> b[q]] BY <1>6 DEF Travels
<1> HIDE DEF g, h, H, b
<1>10. b \in [DOMAIN f -> DOMAIN h]
  <2>1. \A q \in DOMAIN f : b[q] \in DOMAIN h BY <1>2, <1>3, <1>6, <1>7
  <2>2. QED BY <1>a, <2>1
<1>11. \A x, y \in DOMAIN f : b[x] = b[y] => x = y
  BY <1>3, <1>5, <1>6, <1>9
<1>12. \A m \in DOMAIN h : \E q \in DOMAIN f : b[q] = m
  <2>1. TAKE m \in DOMAIN h
  <2>2. CASE m \in H BY <1>4, <1>6, <1>8, <2>2
  <2>3. CASE m \in DOMAIN g BY <1>3, <1>6, <2>3
  <2>4. QED BY <1>2, <2>2, <2>3
<1>13. b \in Injection(DOMAIN f, DOMAIN h) BY <1>6, <1>10, <1>11 DEF Injection, IsInjective
<1>14. b \in Surjection(DOMAIN f, DOMAIN h) BY <1>10, <1>12 DEF Surjection
<1>15. QED BY <1>13, <1>14 DEF Bijection, b, h, g

LEMMA GraftFinite ==
  ASSUME NEW f, Tree(f), Finite(f), NEW o \in DOMAIN f, NEW n \in Seq(Name),
         Tree(Drop(f, o)), n \notin DOMAIN Drop(f, o)
  PROVE  LET h == Graft(Drop(f, o), f, o, n)
         IN  Finite(h) /\ Cardinality(DOMAIN h) = Cardinality(DOMAIN f)
<1> DEFINE h == Graft(Drop(f, o), f, o, n)
<1>1. ExistsBijection(DOMAIN f, DOMAIN h) BY RenameBijection DEF ExistsBijection
<1> HIDE DEF h
<1>2. IsFiniteSet(DOMAIN h) /\ Cardinality(DOMAIN h) = Cardinality(DOMAIN f)
  BY <1>1, FS_Bijection DEF Finite
<1>3. QED BY <1>2 DEF Finite, h

(***************************************************************************)
(* The methods, together.                                                  *)
(***************************************************************************)
\* A method that puts or removes one node: if it fails it changes nothing,
\* and in no case anything but one node.
OneNode(f, g) == \E p : Differ(f, g) \subseteq {p}
Local(f, r) == (r.res # "Ok" => r.fs = f) /\ OneNode(f, r.fs)

LEMMA Same ==
  ASSUME NEW f
  PROVE  Differ(f, f) = {} /\ OneNode(f, f)
BY DEF Differ, OneNode

LEMMA PutOneNode ==
  ASSUME NEW f, NEW p, NEW n
  PROVE  OneNode(f, Put(f, p, n))
<1>1. Differ(f, Put(f, p, n)) \subseteq {p} BY DEF Differ, Put
<1>2. QED BY <1>1 DEF OneNode

\* Every method but rename is local and leaves a file system.
LEMMA MethodsLocal ==
  ASSUME NEW f, FsOK(f), NEW path \in Words, NEW data \in Seq(Unit)
  PROVE  /\ Local(f, mkdir(f, path)) /\ FsOK(mkdir(f, path).fs)
         /\ Local(f, touch(f, path)) /\ FsOK(touch(f, path).fs)
         /\ Local(f, write(f, path, data)) /\ FsOK(write(f, path, data).fs)
         /\ Local(f, append(f, path, data)) /\ FsOK(append(f, path, data).fs)
         /\ Local(f, remove(f, path)) /\ FsOK(remove(f, path).fs)
<1> DEFINE p == split_path(path)
<1>a. Tree(f) /\ Typed(f, Unit) /\ Finite(f) /\ path \in Seq(STRING) BY DEF FsOK, Words
<1>1. ASSUME NEW err, NEW n PROVE Local(f, Try(f, err, Put(f, p, n)))
                                  /\ Finite(Try(f, err, Put(f, p, n)).fs)
  <2> HIDE DEF p
  <2>1. OneNode(f, Put(f, p, n)) /\ OneNode(f, f) /\ Finite(Put(f, p, n))
    BY <1>a, PutOneNode, Same, PutFinite
  <2>2. QED BY <1>a, <2>1 DEF Local, Try
<1>2. /\ Local(f, mkdir(f, path)) /\ Finite(mkdir(f, path).fs)
      /\ Local(f, write(f, path, data)) /\ Finite(write(f, path, data).fs)
  BY <1>1 DEF mkdir, write
<1>3. Local(f, append(f, path, data)) /\ Finite(append(f, path, data).fs)
  BY <1>1 DEF append
<1>4. Local(f, touch(f, path)) /\ Finite(touch(f, path).fs)
  <2>1. CASE p \in DOMAIN f
    <3>1. touch(f, path) = Try(f, writable(f, path), f) BY <2>1 DEF touch
    <3>2. QED BY <1>a, <3>1, Same DEF Local, Try
  <2>2. CASE p \notin DOMAIN f
    <3>1. touch(f, path) = Try(f, writable(f, path), Put(f, p, File(<<>>))) BY <2>2 DEF touch
    <3>2. QED BY <1>1, <3>1
  <2>3. QED BY <2>1, <2>2
<1>5. Local(f, remove(f, path)) /\ Finite(remove(f, path).fs)
  <2> DEFINE r == remove(f, path)
  <2>1. \/ r.fs = f /\ r.res # "Ok"
        \/ r.fs = Drop(f, p) /\ r.res = "Ok" /\ Below(f, p) = {p}
    BY DEF remove, Try
  <2> HIDE DEF r
  <2>2. CASE r.fs = f /\ r.res # "Ok" BY <1>a, <2>2, Same DEF Local, r
  <2>3. CASE r.fs = Drop(f, p) /\ r.res = "Ok" /\ Below(f, p) = {p}
    <3>1. Differ(f, Drop(f, p)) \subseteq {p} BY <2>3 DEF Differ, Drop
    <3>2. Finite(Drop(f, p)) BY <1>a, DropFinite
    <3>3. QED BY <2>3, <3>1, <3>2 DEF Local, OneNode, r
  <2>4. QED BY <2>1, <2>2, <2>3
<1>6. /\ Tree(mkdir(f, path).fs) /\ Tree(touch(f, path).fs) /\ Tree(write(f, path, data).fs)
      /\ Tree(append(f, path, data).fs) /\ Tree(remove(f, path).fs)
  BY <1>a, MkdirTree, WriteTree, RemoveTree
<1>7. /\ Typed(mkdir(f, path).fs, Unit) /\ Typed(touch(f, path).fs, Unit)
      /\ Typed(write(f, path, data).fs, Unit) /\ Typed(append(f, path, data).fs, Unit)
      /\ Typed(remove(f, path).fs, Unit)
  BY <1>a, MethodsTyped
<1>8. QED BY <1>2, <1>3, <1>4, <1>5, <1>6, <1>7 DEF FsOK

\* rename leaves a file system too.
LEMMA RenameFs ==
  ASSUME NEW f, FsOK(f), NEW old \in Words, NEW to \in Words
  PROVE  FsOK(rename(f, old, to).fs)
<1>1. Tree(f) /\ Typed(f, Unit) /\ Finite(f) /\ old \in Seq(STRING) /\ to \in Seq(STRING)
  BY DEF FsOK, Words
<1>2. Tree(rename(f, old, to).fs) BY <1>1, RenameTree
<1>3. Typed(rename(f, old, to).fs, Unit)
  <2>1. <<>> \in Seq(Unit) BY EmptySeq
  <2>2. QED BY <1>1, <2>1, MethodsTyped, Zenon
<1> DEFINE o == split_path(old)
           n == split_path(to)
           g == Drop(f, o)
           r == rename(f, old, to)
<1>a. RenameEnds(f, o, n, g, r) BY <1>1, RenameOutcome, Zenon
<1> HIDE DEF o, n, r
<1>4. \/ r.fs = f \/ r.fs = g
      \/ o \in DOMAIN f /\ Tree(g) /\ n \in Seq(Name) /\ n \notin DOMAIN g
         /\ r.fs = Graft(g, f, o, n)
  BY <1>a, Zenon DEF RenameEnds
<1>5. Finite(g) BY <1>1, DropFinite
<1>6. Finite(r.fs) BY <1>1, <1>4, <1>5, GraftFinite
<1>7. QED BY <1>2, <1>3, <1>6 DEF FsOK, r

(***************************************************************************)
(* The file system at boot.                                                *)
(***************************************************************************)
LEMMA NewFs == FsOK(new)
<1>1. Tree(new) /\ \A p \in DOMAIN new : new[p].data = <<>> BY NewTree
<1>2. Typed(new, Unit)
  <2>1. <<>> \in Seq(Unit) BY EmptySeq
  <2>2. QED BY <1>1, <2>1, Zenon DEF Typed
<1> DEFINE D == {<<name>> : name \in Seed}
<1>3. IsFiniteSet(D)
  <2> DEFINE h == [name \in Seed |-> <<name>>]
  <2>1. DOMAIN h = Seed /\ D = {h[x] : x \in Seed} OBVIOUS
  <2> HIDE DEF h, D
  <2>2. QED BY <2>1, ProgramsAssumption, ImageFinite, Zenon
<1>4. DOMAIN new = D \cup {<<>>} BY DEF new
<1> HIDE DEF D
<1>5. Finite(new) BY <1>3, <1>4, FS_AddElement DEF Finite
<1>6. QED BY <1>1, <1>2, <1>5 DEF FsOK

\* The files of the programs go into /bin, which new made.
LEMMA InstalledFs == FsOK(install_programs(new))
<1> DEFINE files == {<<"bin", program>> : program \in ProgramId}
           f == install_programs(new)
<1>1. /\ Tree(new) /\ Typed(new, Unit) /\ Finite(new) BY NewFs DEF FsOK
<1>2. IsDir(new, <<"bin">>)
  <2>1. <<"bin">> \in DOMAIN new /\ new[<<"bin">>] = Dir BY ProgramsAssumption, Zenon DEF new
  <2>2. QED BY <2>1 DEF IsDir, Dir
<1>3. ASSUME NEW program \in ProgramId
      PROVE  /\ <<"bin", program>> \in Seq(Name) /\ <<"bin", program>> # <<>>
             /\ Front(<<"bin", program>>) = <<"bin">> /\ Last(<<"bin", program>>) = program
             /\ <<"bin", program>> \notin DOMAIN new
  <2> DEFINE s == <<"bin", program>>
             t == <<"bin">>
  <2>1. s \in Seq(Name) /\ "bin" \in Name BY BinPath
  <2>2. Len(s) = 2 /\ s[1] = "bin" /\ s[2] = program /\ s # <<>> OBVIOUS
  <2>3. t \in Seq(Name) /\ Len(t) = 1 /\ t[1] = "bin" BY <2>1
  <2> HIDE DEF s, t
  <2>a. /\ Front(s) \in Seq(Name) /\ Len(Front(s)) = Len(s) - 1
        /\ \A j \in 1..(Len(s) - 1) : Front(s)[j] = s[j]
    BY <2>1, <2>2, FrontProperties, Zenon
  <2>b. Len(s) - 1 = 1 BY <2>2
  <2>4. Front(s) \in Seq(Name) /\ Len(Front(s)) = 1 /\ \A j \in 1..1 : Front(s)[j] = s[j]
    BY <2>a, <2>b, Zenon
  <2>5. \A j \in 1..1 : j = 1 OBVIOUS
  <2>6. Front(s) = t BY <2>2, <2>3, <2>4, <2>5, SeqEqual
  <2>7. s \notin DOMAIN new
    <3>1. \A p \in DOMAIN new : p = <<>> \/ \E name \in Seed : p = <<name>> BY DEF new
    <3>2. \A name : Len(<<name>>) = 1 OBVIOUS
    <3>3. QED BY <2>2, <3>1, <3>2
  <2>8. QED BY <2>1, <2>2, <2>6, <2>7 DEF s, t, Last
<1>4. /\ DOMAIN f = files \cup DOMAIN new /\ f = [p \in DOMAIN f |-> f[p]]
      /\ \A p \in DOMAIN f :
           f[p] = IF p \in files THEN File(build_program_image(Last(p))) ELSE new[p]
  BY DEF install_programs
<1>5. \A p \in files : \E program \in ProgramId : p = <<"bin", program>> OBVIOUS
<1>6. IsFiniteSet(files)
  <2> DEFINE h == [program \in ProgramId |-> <<"bin", program>>]
  <2>1. DOMAIN h = ProgramId /\ files = {h[x] : x \in ProgramId} OBVIOUS
  <2> HIDE DEF h, files
  <2>2. QED BY <2>1, ProgramsAssumption, ImageFinite, Zenon
<1> HIDE DEF files, f
<1>7. /\ \A p \in files : p \in Seq(Name) /\ p # <<>> /\ Front(p) = <<"bin">> /\ p \notin DOMAIN new
      /\ \A p \in files : Last(p) \in ProgramId
  BY <1>3, <1>5, Zenon
<1>8. \A p \in DOMAIN new : p \in DOMAIN f /\ f[p] = new[p] BY <1>4, <1>7
<1>9. \A p \in files : f[p].kind = "file" /\ f[p].data = build_program_image(Last(p))
  <2>1. \A d : File(d).kind = "file" /\ File(d).data = d BY DEF File
  <2>2. \A p \in files : f[p] = File(build_program_image(Last(p))) BY <1>4
  <2>3. QED BY <2>1, <2>2
<1>10. Tree(f)
  <2>1. \A p : IsDir(new, p) => IsDir(f, p) BY <1>8 DEF IsDir
  <2>2. IsDir(f, <<>>) BY <1>1, <2>1 DEF Tree
  <2>3. ASSUME NEW p \in DOMAIN f, p # <<>> PROVE IsDir(f, Front(p))
    <3>1. CASE p \in files BY <1>2, <1>7, <2>1, <3>1
    <3>2. CASE p \in DOMAIN new BY <1>1, <2>1, <2>3, <3>2 DEF Tree
    <3>3. QED BY <1>4, <3>1, <3>2
  <2>4. DOMAIN f \subseteq Seq(Name) BY <1>1, <1>4, <1>7 DEF Tree
  <2>5. \A p \in DOMAIN f : f[p].kind \in Kinds BY <1>1, <1>4, <1>8, <1>9 DEF Tree, Kinds
  <2>6. QED BY <1>4, <2>2, <2>3, <2>4, <2>5 DEF Tree
<1>11. Typed(f, Unit)
  <2>1. ASSUME NEW p \in files PROVE f[p].data \in Seq(Unit)
    <3>1. Last(p) \in STRING BY <1>7, ProgramsAssumption, Zenon
    <3>2. QED BY <1>9, <3>1, ImageTyped, Zenon
  <2>2. QED BY <1>1, <1>4, <1>8, <2>1 DEF Typed
<1>12. Finite(f) BY <1>1, <1>4, <1>6, FS_Union, ZenonT(30) DEF Finite
<1>13. QED BY <1>10, <1>11, <1>12 DEF FsOK, f

LEMMA SeedFs == FsOK(seed_runtime_fs)
<1>1. "home" \in Name BY ProgramsAssumption, SeedAssumption, Zenon DEF Name
<1>2. "readme.txt" \in Name BY LiteralsAssumption, Zenon DEF Name
<1>3. Readme \in Words BY <1>1, <1>2, SplitTwo, Zenon DEF Readme
<1>4. <<Text(<<"Welcome">>)>> \in Seq(Unit)
  <2>a. "Welcome" \in STRING BY LiteralsAssumption, Zenon
  <2>1. <<"Welcome">> \in Seq(STRING) BY <2>a
  <2>2. Text(<<"Welcome">>) \in Unit BY <2>1 DEF Text, Unit
  <2>3. QED BY <2>2
<1> DEFINE data == <<Text(<<"Welcome">>)>>
<1> HIDE DEF data
<1>5. FsOK(write(install_programs(new), Readme, data).fs)
  BY <1>3, <1>4, InstalledFs, MethodsLocal, Zenon DEF data
<1>6. QED BY <1>5 DEF seed_runtime_fs, data

(***************************************************************************)
(* The commands.                                                           *)
(***************************************************************************)
\* What a command promises about its answer r.
Behaves(f, words, r) ==
  /\ FsOK(r.fs) /\ r.out \in Seq(Unit)
  /\ words = <<>> \/ words[1] # <<"mv">> => Local(f, r)
  /\ r.res = "Ok" => words # <<>> /\ Loaded(f, words[1])
  /\ r.res = "Ok" /\ words[1] = <<"mv">> =>
       /\ Len(words) > 2 /\ r.fs = rename(f, words[2], words[3]).fs
       /\ rename(f, words[2], words[3]).res = "Ok"
  /\ r.res = "Ok" /\ words[1] = <<"cat">> /\ Len(words) > 1 =>
       /\ r.fs = f
       /\ r.out = Flatten([i \in 1..(Len(words) - 1) |-> contents(f, words[i + 1])])

LEMMA AnswerFields ==
  ASSUME NEW f, NEW res, NEW out
  PROVE  /\ Answer(f, res, out).fs = f /\ Answer(f, res, out).res = res
         /\ Answer(f, res, out).out = out
         /\ Fails(f, res).fs = f /\ Fails(f, res).res = res /\ Fails(f, res).out = <<>>
BY DEF Answer, Fails

\* An answer that leaves the file system alone.
LEMMA Reports ==
  ASSUME NEW f, FsOK(f), NEW words, NEW r, r.fs = f, r.out \in Seq(Unit)
  PROVE  FsOK(r.fs) /\ r.out \in Seq(Unit) /\ Local(f, r)
BY Same DEF Local

LEMMA LsAnswer ==
  ASSUME NEW f, FsOK(f), NEW words \in Seq(Words)
  PROVE  cmd_ls(f, words).fs = f /\ cmd_ls(f, words).out \in Seq(Unit)
<1> DEFINE path == IF Len(words) > 1 THEN words[2] ELSE <<"", "">>
           sorted == Without(NameOrder, Range(NameOrder) \ names(f, path))
           texts == [i \in DOMAIN sorted |-> <<Text(<<sorted[i]>>), Newline>>]
<1>1. <<>> \in Seq(Unit) BY EmptySeq
<1>2. sorted \in Seq(STRING) BY NameOrderAssumption, WithoutPicks, Zenon
<1>3. cmd_ls(f, words) = IF list(f, path) # "Ok" THEN Fails(f, list(f, path))
                         ELSE Answer(f, "Ok", Flatten(texts))
  BY DEF cmd_ls
<1> HIDE DEF sorted
<1>4. Len(sorted) \in Nat /\ DOMAIN sorted = 1..Len(sorted) BY <1>2, LenProperties
<1>5. ASSUME NEW i \in 1..Len(sorted) PROVE <<Text(<<sorted[i]>>), Newline>> \in Seq(Unit)
  <2>1. sorted[i] \in STRING BY <1>2, ElementOfSeq
  <2>2. <<sorted[i]>> \in Seq(STRING) BY <2>1
  <2>3. Text(<<sorted[i]>>) \in Unit BY <2>2 DEF Text, Unit
  <2>4. Newline \in Unit BY DEF Unit
  <2>5. QED BY <2>3, <2>4, Triple
<1>6. texts \in Seq(Seq(Unit)) BY <1>4, <1>5, IsASeq
<1> HIDE DEF texts, path
<1>7. Flatten(texts) \in Seq(Unit) BY <1>6, FlattenTyped
<1> DEFINE out == Flatten(texts)
           err == list(f, path)
<1>8. out \in Seq(Unit) BY <1>7
<1>9. cmd_ls(f, words) = IF err # "Ok" THEN Fails(f, err) ELSE Answer(f, "Ok", out) BY <1>3
<1> HIDE DEF out, err
<1>10. QED BY <1>1, <1>8, <1>9 DEF Answer, Fails

LEMMA CatAnswer ==
  ASSUME NEW f, FsOK(f), NEW words \in Seq(Words), words # <<>>, NEW input \in Seq(Unit)
  PROVE  LET r == cmd_cat(f, words, input)
         IN  /\ r.fs = f /\ r.out \in Seq(Unit)
             /\ r.res = "Ok" /\ Len(words) > 1 =>
                  r.out = Flatten([i \in 1..(Len(words) - 1) |-> contents(f, words[i + 1])])
<1> DEFINE r == cmd_cat(f, words, input)
           bad == {i \in 2..Len(words) : read(f, words[i]) # "Ok"}
           parts == [i \in 1..(Len(words) - 1) |-> contents(f, words[i + 1])]
<1>1. <<>> \in Seq(Unit) BY EmptySeq
<1>2. Len(words) \in Nat \ {0} /\ \A i \in 1..Len(words) : words[i] \in Words
  BY LenProperties, ElementOfSeq, EmptySeq
<1>3. r = IF Len(words) = 1 THEN Answer(f, "Ok", input)
          ELSE IF bad # {} THEN Fails(f, read(f, words[Min(bad)]))
          ELSE Answer(f, "Ok", Flatten(parts))
  BY DEF cmd_cat
<1>4. ASSUME bad = {} PROVE Flatten(parts) \in Seq(Unit)
  <2>1. ASSUME NEW i \in 1..(Len(words) - 1) PROVE contents(f, words[i + 1]) \in Seq(Unit)
    <3>1. i + 1 \in 2..Len(words) /\ i + 1 \in 1..Len(words) BY <1>2
    <3>2. read(f, words[i + 1]) = "Ok" /\ words[i + 1] \in Words BY <1>2, <1>4, <3>1
    <3>3. QED BY <3>2, ReadOk
  <2>2. Len(words) - 1 \in Nat BY <1>2
  <2>3. parts \in Seq(Seq(Unit)) BY <2>1, <2>2, IsASeq
  <2> HIDE DEF parts
  <2>4. QED BY <2>3, FlattenTyped
<1> HIDE DEF bad, parts
<1>5. CASE Len(words) = 1 BY <1>3, <1>5, AnswerFields
<1>6. CASE Len(words) # 1 /\ bad # {}
  <2>1. read(f, words[Min(bad)]) # "Ok"
    <3>1. bad \in SUBSET Nat BY <1>2 DEF bad
    <3>2. \E x \in bad : \A y \in bad : x <= y BY <1>6, <3>1, Least
    <3>3. Min(bad) \in bad BY <3>2 DEF Min
    <3>4. QED BY <3>3 DEF bad
  <2> DEFINE err == read(f, words[Min(bad)])
  <2>2. r = Fails(f, err) /\ err # "Ok" BY <1>3, <1>6, <2>1
  <2> HIDE DEF r, err
  <2>3. r.fs = f /\ r.res # "Ok" /\ r.out = <<>> BY <2>2 DEF Answer, Fails
  <2>4. QED BY <1>1, <2>3 DEF r
<1>7. CASE Len(words) # 1 /\ bad = {} BY <1>3, <1>4, <1>7, AnswerFields DEF parts
<1>8. QED BY <1>5, <1>6, <1>7

LEMMA EchoAnswer ==
  ASSUME NEW f, FsOK(f), NEW words \in Seq(Words), words # <<>>
  PROVE  cmd_echo(f, words).fs = f /\ cmd_echo(f, words).out \in Seq(Unit)
<1> DEFINE spaced == [i \in 1..(Len(words) - 1) |->
                        (IF i = 1 THEN <<>> ELSE <<Space>>) \o <<Text(words[i + 1])>>]
<1>1. Len(words) \in Nat \ {0} /\ \A i \in 1..Len(words) : words[i] \in Words
  BY LenProperties, ElementOfSeq, EmptySeq
<1>2. Space \in Unit /\ Newline \in Unit BY DEF Unit
<1>3. <<>> \in Seq(Unit) /\ <<Space>> \in Seq(Unit) /\ <<Newline>> \in Seq(Unit)
  BY <1>2, EmptySeq
<1>4. ASSUME NEW i \in 1..(Len(words) - 1) PROVE spaced[i] \in Seq(Unit)
  <2>1. i + 1 \in 1..Len(words) BY <1>1
  <2>2. words[i + 1] \in Seq(STRING) BY <1>1, <2>1 DEF Words
  <2>3. Text(words[i + 1]) \in Unit BY <2>2 DEF Text, Unit
  <2>4. <<Text(words[i + 1])>> \in Seq(Unit) BY <2>3
  <2> DEFINE a == IF i = 1 THEN <<>> ELSE <<Space>>
             b == <<Text(words[i + 1])>>
  <2>5. a \in Seq(Unit) /\ spaced[i] = a \o b BY <1>3
  <2> HIDE DEF a, b, spaced
  <2>6. a \o b \in Seq(Unit) BY <2>4, <2>5, ConcatProperties DEF b
  <2>7. QED BY <2>5, <2>6
<1>5. Len(words) - 1 \in Nat BY <1>1
<1>6. spaced \in Seq(Seq(Unit)) BY <1>4, <1>5, IsASeq
<1>7. cmd_echo(f, words) = Answer(f, "Ok", Flatten(spaced) \o <<Newline>>) BY DEF cmd_echo
<1> HIDE DEF spaced
<1>8. Flatten(spaced) \in Seq(Unit) BY <1>6, FlattenTyped
<1>9. Flatten(spaced) \o <<Newline>> \in Seq(Unit) BY <1>3, <1>8, ConcatProperties
<1> DEFINE out == Flatten(spaced) \o <<Newline>>
<1>10. cmd_echo(f, words) = Answer(f, "Ok", out) /\ out \in Seq(Unit) BY <1>7, <1>9
<1> HIDE DEF out
<1>11. QED BY <1>10 DEF Answer

LEMMA CopyAnswer ==
  ASSUME NEW f, FsOK(f), NEW src \in Words, NEW dst \in Words
  PROVE  Local(f, copy(f, src, dst)) /\ FsOK(copy(f, src, dst).fs)
<1>1. CASE read(f, src) # "Ok"
  <2> DEFINE r == copy(f, src, dst)
  <2>1. r.fs = f BY <1>1 DEF copy, Try
  <2> HIDE DEF r
  <2>2. QED BY <2>1, Same DEF Local, r
<1>2. CASE read(f, src) = "Ok"
  <2>1. contents(f, src) \in Seq(Unit) BY <1>2, ReadOk
  <2>2. copy(f, src, dst) = write(f, dst, contents(f, src)) BY <1>2 DEF copy
  <2>3. QED BY <2>1, <2>2, MethodsLocal, Zenon
<1>3. QED BY <1>1, <1>2

\* A command with operands has them.
LEMMA Operands ==
  ASSUME NEW words \in Seq(Words), NEW n \in Nat, ~(Len(words) <= n)
  PROVE  \A i \in 1..(n + 1) : words[i] \in Words
<1>1. Len(words) \in Nat BY LenProperties
<1>2. \A i \in 1..(n + 1) : i \in 1..Len(words) BY <1>1
<1>3. QED BY <1>2, ElementOfSeq

\* A command that calls one method.
LEMMA NeedingAnswer ==
  ASSUME NEW f, FsOK(f), NEW words, NEW n, NEW call,
         ~(Len(words) <= n) => Local(f, call) /\ FsOK(call.fs)
  PROVE  LET r == Needing(f, words, n, call)
         IN  Local(f, r) /\ FsOK(r.fs) /\ r.out = <<>>
<1> DEFINE r == Needing(f, words, n, call)
<1>1. CASE Len(words) <= n
  <2>1. r.fs = f /\ r.out = <<>> BY <1>1 DEF Needing, Fails, Answer
  <2> HIDE DEF r
  <2>2. QED BY <2>1, Same DEF Local, r
<1>2. CASE ~(Len(words) <= n)
  <2>1. r.fs = call.fs /\ r.res = call.res /\ r.out = <<>>
    BY <1>2 DEF Needing, Done, Fails, Answer
  <2> HIDE DEF r
  <2>2. QED BY <1>2, <2>1 DEF Local, r
<1>3. QED BY <1>1, <1>2

LEMMA MvAnswer ==
  ASSUME NEW f, FsOK(f), NEW words \in Seq(Words)
  PROVE  LET r == cmd_mv(f, words)
         IN  /\ FsOK(r.fs) /\ r.out = <<>>
             /\ r.res = "Ok" => /\ Len(words) > 2 /\ r.fs = rename(f, words[2], words[3]).fs
                                /\ rename(f, words[2], words[3]).res = "Ok"
<1> DEFINE r == cmd_mv(f, words)
           call == rename(f, words[2], words[3])
<1>0. Len(words) \in Nat BY LenProperties
<1>1. CASE Len(words) <= 2
  <2>1. r.fs = f /\ r.out = <<>> /\ r.res # "Ok" BY <1>1 DEF cmd_mv, Needing, Fails, Answer
  <2> HIDE DEF r
  <2>2. QED BY <2>1 DEF r
<1>2. CASE ~(Len(words) <= 2)
  <2>1. r.fs = call.fs /\ r.res = call.res /\ r.out = <<>>
    BY <1>2 DEF cmd_mv, Needing, Done, Fails, Answer
  <2>2. words[2] \in Words /\ words[3] \in Words
    <3>1. \A i \in 1..(2 + 1) : words[i] \in Words BY <1>2, Operands
    <3>2. 2 \in 1..(2 + 1) /\ 3 \in 1..(2 + 1) OBVIOUS
    <3>3. QED BY <3>1, <3>2
  <2>3. FsOK(call.fs) BY <2>2, RenameFs, ZenonT(30)
  <2>4. Len(words) > 2 BY <1>0, <1>2
  <2> HIDE DEF r
  <2>5. QED BY <2>1, <2>3, <2>4 DEF r
<1>3. QED BY <1>1, <1>2

LEMMA OneCall ==
  ASSUME NEW f, FsOK(f), NEW words \in Seq(Words)
  PROVE  /\ LET r == cmd_rm(f, words) IN Local(f, r) /\ FsOK(r.fs) /\ r.out = <<>>
         /\ LET r == cmd_cp(f, words) IN Local(f, r) /\ FsOK(r.fs) /\ r.out = <<>>
         /\ LET r == cmd_touch(f, words) IN Local(f, r) /\ FsOK(r.fs) /\ r.out = <<>>
<1>0. <<>> \in Seq(Unit) BY EmptySeq
<1>1. ASSUME ~(Len(words) <= 1) PROVE words[2] \in Words
  <2>1. \A i \in 1..(1 + 1) : words[i] \in Words BY <1>1, Operands
  <2>2. 2 \in 1..(1 + 1) OBVIOUS
  <2>3. QED BY <2>1, <2>2
<1>2. ASSUME ~(Len(words) <= 2) PROVE words[2] \in Words /\ words[3] \in Words
  <2>1. \A i \in 1..(2 + 1) : words[i] \in Words BY <1>2, Operands
  <2>2. 2 \in 1..(2 + 1) /\ 3 \in 1..(2 + 1) OBVIOUS
  <2>3. QED BY <2>1, <2>2
<1>3. LET r == cmd_rm(f, words) IN Local(f, r) /\ FsOK(r.fs) /\ r.out = <<>>
  <2> DEFINE call == remove(f, words[2])
  <2>1. ~(Len(words) <= 1) => Local(f, call) /\ FsOK(call.fs) BY <1>0, <1>1, MethodsLocal, Zenon
  <2> HIDE DEF call
  <2>2. QED BY <2>1, NeedingAnswer DEF cmd_rm, call
<1>4. LET r == cmd_cp(f, words) IN Local(f, r) /\ FsOK(r.fs) /\ r.out = <<>>
  <2> DEFINE call == copy(f, words[2], words[3])
  <2>1. ~(Len(words) <= 2) => Local(f, call) /\ FsOK(call.fs) BY <1>2, CopyAnswer, Zenon
  <2> HIDE DEF call
  <2>2. QED BY <2>1, NeedingAnswer DEF cmd_cp, call
<1>5. LET r == cmd_touch(f, words) IN Local(f, r) /\ FsOK(r.fs) /\ r.out = <<>>
  <2> DEFINE call == touch(f, words[2])
  <2>1. ~(Len(words) <= 1) => Local(f, call) /\ FsOK(call.fs) BY <1>0, <1>1, MethodsLocal, Zenon
  <2> HIDE DEF call
  <2>2. QED BY <2>1, NeedingAnswer DEF cmd_touch, call
<1>6. QED BY <1>3, <1>4, <1>5

LEMMA DispatchBehaves ==
  ASSUME NEW f, FsOK(f), NEW words \in Seq(Words), NEW input \in Seq(Unit)
  PROVE  Behaves(f, words, dispatch(f, words, input))
<1> DEFINE r == dispatch(f, words, input)
           loaded == IF words = <<>> THEN "Empty" ELSE load_program(f, words[1])
<1>0. <<>> \in Seq(Unit) BY EmptySeq
<1>1. CASE loaded # "Ok"
  <2>1. r = Fails(f, loaded) BY <1>1 DEF dispatch
  <2> HIDE DEF loaded, r
  <2>2. r.fs = f /\ r.res # "Ok" /\ r.out = <<>> BY <1>1, <2>1 DEF Fails, Answer
  <2>3. QED BY <1>0, <2>2, Same DEF Behaves, Local, r
<1>2. CASE loaded = "Ok"
  <2>1. words # <<>> /\ load_program(f, words[1]) = "Ok" BY <1>2
  <2>2. Loaded(f, words[1]) BY <2>1, LoadOk
  <2> DEFINE w == words[1]
  <2>a. r = CASE w = <<"ls">> -> cmd_ls(f, words)
              [] w = <<"rm">> -> cmd_rm(f, words)
              [] w = <<"mv">> -> cmd_mv(f, words)
              [] w = <<"cp">> -> cmd_cp(f, words)
              [] w = <<"touch">> -> cmd_touch(f, words)
              [] w = <<"cat">> -> cmd_cat(f, words, input)
              [] w = <<"echo">> -> cmd_echo(f, words)
              [] OTHER -> Fails(f, "Unknown")
    BY <1>2 DEF dispatch
  <2>b. /\ <<"ls">>[1] = "ls" /\ <<"rm">>[1] = "rm" /\ <<"mv">>[1] = "mv"
        /\ <<"cp">>[1] = "cp" /\ <<"touch">>[1] = "touch" /\ <<"cat">>[1] = "cat"
        /\ <<"echo">>[1] = "echo"
    OBVIOUS
  <2> HIDE DEF r, w, loaded
  <2>3. CASE w = <<"ls">>
    <3>1. r = cmd_ls(f, words) BY <2>a, <2>b, <2>3
    <3>2. r.fs = f /\ r.out \in Seq(Unit) BY <3>1, LsAnswer
    <3>3. w # <<"mv">> /\ w # <<"cat">> BY <2>b, <2>3
    <3>4. QED BY <2>1, <2>2, <3>2, <3>3, Same DEF Behaves, Local, r, w
  <2>4. CASE w = <<"rm">>
    <3>1. r = cmd_rm(f, words) BY <2>a, <2>b, <2>4
    <3>2. Local(f, r) /\ FsOK(r.fs) /\ r.out = <<>> BY <3>1, OneCall
    <3>3. w # <<"mv">> /\ w # <<"cat">> BY <2>b, <2>4
    <3>4. QED BY <1>0, <2>1, <2>2, <3>2, <3>3 DEF Behaves, r, w
  <2>5. CASE w = <<"mv">>
    <3>1. r = cmd_mv(f, words) BY <2>a, <2>b, <2>5
    <3>2. /\ FsOK(r.fs) /\ r.out = <<>>
          /\ r.res = "Ok" => /\ Len(words) > 2 /\ r.fs = rename(f, words[2], words[3]).fs
                             /\ rename(f, words[2], words[3]).res = "Ok"
      BY <3>1, MvAnswer
    <3>3. w # <<"cat">> BY <2>b, <2>5
    <3>4. QED BY <1>0, <2>1, <2>2, <2>5, <3>2, <3>3 DEF Behaves, r, w
  <2>6. CASE w = <<"cp">>
    <3>1. r = cmd_cp(f, words) BY <2>a, <2>b, <2>6
    <3>2. Local(f, r) /\ FsOK(r.fs) /\ r.out = <<>> BY <3>1, OneCall
    <3>3. w # <<"mv">> /\ w # <<"cat">> BY <2>b, <2>6
    <3>4. QED BY <1>0, <2>1, <2>2, <3>2, <3>3 DEF Behaves, r, w
  <2>7. CASE w = <<"touch">>
    <3>1. r = cmd_touch(f, words) BY <2>a, <2>b, <2>7
    <3>2. Local(f, r) /\ FsOK(r.fs) /\ r.out = <<>> BY <3>1, OneCall
    <3>3. w # <<"mv">> /\ w # <<"cat">> BY <2>b, <2>7
    <3>4. QED BY <1>0, <2>1, <2>2, <3>2, <3>3 DEF Behaves, r, w
  <2>8. CASE w = <<"cat">>
    <3>1. r = cmd_cat(f, words, input) BY <2>a, <2>b, <2>8
    <3>2. /\ r.fs = f /\ r.out \in Seq(Unit)
          /\ r.res = "Ok" /\ Len(words) > 1 =>
               r.out = Flatten([i \in 1..(Len(words) - 1) |-> contents(f, words[i + 1])])
      BY <2>1, <3>1, CatAnswer
    <3>3. w # <<"mv">> BY <2>b, <2>8
    <3>4. QED BY <2>1, <2>2, <3>2, <3>3, Same DEF Behaves, Local, r, w
  <2>9. CASE w = <<"echo">>
    <3>1. r = cmd_echo(f, words) BY <2>a, <2>b, <2>9
    <3>2. r.fs = f /\ r.out \in Seq(Unit) BY <2>1, <3>1, EchoAnswer
    <3>3. w # <<"mv">> /\ w # <<"cat">> BY <2>b, <2>9
    <3>4. QED BY <2>1, <2>2, <3>2, <3>3, Same DEF Behaves, Local, r, w
  <2>10. CASE w \notin {<<"ls">>, <<"rm">>, <<"mv">>, <<"cp">>, <<"touch">>, <<"cat">>, <<"echo">>}
    <3>1. r = Fails(f, "Unknown") BY <2>a, <2>10
    <3>2. r.fs = f /\ r.res # "Ok" /\ r.out = <<>> BY <3>1 DEF Fails, Answer
    <3>3. QED BY <1>0, <3>2, Same DEF Behaves, Local, r
  <2>11. QED BY <2>3, <2>4, <2>5, <2>6, <2>7, <2>8, <2>9, <2>10
<1>3. QED BY <1>1, <1>2

(***************************************************************************)
(* Whole lines.                                                            *)
(***************************************************************************)
\* The line ended before its command ran.
Rejected(f, r) == r.fs = f /\ r.res # "Ok"
\* The command's own answer c is that of the line.
Unredirected(c, s, r) == (c.res # "Ok" \/ s.to = <<>>) /\ r = c
\* The output of the command goes to a file.
Filed(c, s, r) ==
  /\ c.res = "Ok" /\ s.to # <<>>
  /\ r = IF s.append THEN Done(append(c.fs, s.to[1], c.out))
         ELSE Done(write(c.fs, s.to[1], c.out))

LineOutcome(f, s, r) ==
  \/ Rejected(f, r)
  \/ \E c : Behaves(f, s.rest, c) /\ (Unredirected(c, s, r) \/ Filed(c, s, r))

LEMMA LineBehaves ==
  ASSUME NEW f, FsOK(f), NEW line \in Seq(Words)
  PROVE  LineOutcome(f, scan(f, line), run_command(f, line))
<1> DEFINE s == scan(f, line)
           c == dispatch(f, s.rest, s.input)
           r == run_command(f, line)
<1>1. s \in ScanState BY ScanTyped
<1>2. r = IF line = <<>> THEN Fails(f, "Empty")
          ELSE IF s.res # "Ok" THEN Fails(f, s.res)
          ELSE IF c.res # "Ok" \/ s.to = <<>> THEN c
          ELSE IF s.append THEN Done(append(c.fs, s.to[1], c.out))
          ELSE Done(write(c.fs, s.to[1], c.out))
  BY DEF run_command
<1> HIDE DEF s
<1>3. s.rest \in Seq(Words) /\ s.input \in Seq(Unit) BY <1>1 DEF ScanState
<1>4. Behaves(f, s.rest, c) BY <1>3, DispatchBehaves
<1> HIDE DEF c, r
<1>5. CASE line = <<>> \/ s.res # "Ok"
  <2>1. Rejected(f, r) BY <1>2, <1>5 DEF Fails, Answer, Rejected
  <2>2. QED BY <2>1 DEF LineOutcome, s, r
<1>6. CASE line # <<>> /\ s.res = "Ok"
  <2>1. Unredirected(c, s, r) \/ Filed(c, s, r) BY <1>2, <1>6 DEF Unredirected, Filed
  <2>2. QED BY <1>4, <2>1 DEF LineOutcome, s, r
<1>7. QED BY <1>5, <1>6

\* The redirection of the output is a write or an append, to a path of the
\* line.
Redirects(c, s) ==
  IF s.append THEN append(c.fs, s.to[1], c.out) ELSE write(c.fs, s.to[1], c.out)

LEMMA FiledAnswer ==
  ASSUME NEW f, NEW s, s.to \in Seq(Words), NEW c, Behaves(f, s.rest, c), NEW r, Filed(c, s, r)
  PROVE  /\ r.fs = Redirects(c, s).fs /\ r.res = Redirects(c, s).res
         /\ Local(c.fs, Redirects(c, s)) /\ FsOK(Redirects(c, s).fs)
<1> DEFINE to == s.to[1]
           call == IF s.append THEN append(c.fs, to, c.out) ELSE write(c.fs, to, c.out)
<1>1. s.to # <<>> BY DEF Filed
<1>2. to \in Words
  <2>1. Len(s.to) \in Nat \ {0} BY <1>1, EmptySeq, LenProperties
  <2>2. QED BY <2>1, ElementOfSeq
<1>3. FsOK(c.fs) /\ c.out \in Seq(Unit) BY DEF Behaves
<1> HIDE DEF to
<1>4. /\ Local(c.fs, append(c.fs, to, c.out)) /\ FsOK(append(c.fs, to, c.out).fs)
      /\ Local(c.fs, write(c.fs, to, c.out)) /\ FsOK(write(c.fs, to, c.out).fs)
  BY <1>2, <1>3, MethodsLocal
<1>5. r = Done(call) BY DEF Filed, to
<1>6. Local(c.fs, call) /\ FsOK(call.fs) BY <1>4
<1> HIDE DEF call
<1>7. r.fs = call.fs /\ r.res = call.res BY <1>5 DEF Done, Fails, Answer
<1>8. call = Redirects(c, s) BY DEF Redirects, call, to
<1>9. QED BY <1>6, <1>7, <1>8

-----------------------------------------------------------------------------
(***************************************************************************)
(* The state machine.                                                      *)
(***************************************************************************)
IInv == FsOK(fs)

\* What a step is: a line, or a call of a program.
LineStep ==
  \E line \in Lines :
    LET s == scan(fs, line)
        r == run_command(fs, line)
    IN  /\ s \in ScanState /\ LineOutcome(fs, s, r)
        /\ fs' = r.fs /\ last' = Call(s.rest, s.to, s.append, r.res)
ProgramStep ==
  \E r, name, path :
    /\ Local(fs, r) /\ FsOK(r.fs) /\ fs' = r.fs
    /\ name \in {"mkdir", "write"}
    /\ last' = Call(<<<<name>>, path>>, <<>>, FALSE, r.res)

LEMMA Steps ==
  ASSUME IInv, Next
  PROVE  LineStep \/ ProgramStep
<1>1. FsOK(fs) BY DEF IInv
<1>2. ASSUME NEW line \in Lines, RunLine(line) PROVE LineStep
  <2>1. line \in Seq(Words) BY LinesAssumption DEF Words
  <2>2. scan(fs, line) \in ScanState /\ LineOutcome(fs, scan(fs, line), run_command(fs, line))
    BY <1>1, <2>1, ScanTyped, LineBehaves
  <2>3. /\ fs' = run_command(fs, line).fs
        /\ last' = Call(scan(fs, line).rest, scan(fs, line).to, scan(fs, line).append,
                        run_command(fs, line).res)
    BY <1>2 DEF RunLine, Return
  <2>4. QED BY <2>2, <2>3 DEF LineStep
<1>3. ASSUME NEW path \in Paths, Mkdir(path) PROVE ProgramStep
  <2>1. path \in Words /\ <<>> \in Seq(Unit) BY PathsAssumption, EmptySeq DEF Words
  <2>2. Local(fs, mkdir(fs, path)) /\ FsOK(mkdir(fs, path).fs) BY <1>1, <2>1, MethodsLocal, Zenon
  <2>3. /\ fs' = mkdir(fs, path).fs
        /\ last' = Call(<<<<"mkdir">>, path>>, <<>>, FALSE, mkdir(fs, path).res)
    BY <1>3 DEF Mkdir, Return
  <2>4. "mkdir" \in {"mkdir", "write"} OBVIOUS
  <2>5. QED BY <2>2, <2>3, <2>4, Zenon DEF ProgramStep
<1>4. ASSUME NEW path \in Paths, NEW data \in Chunks, WriteFile(path, data) PROVE ProgramStep
  <2>1. path \in Words BY PathsAssumption DEF Words
  <2>2. data \in Seq(Unit)
    <3>1. data \in Seq(Binary) BY UnitsAssumption
    <3>2. Binary \subseteq Unit BY DEF Unit
    <3>3. QED BY <3>1, <3>2, SeqMonotonic
  <2>3. Local(fs, write(fs, path, data)) /\ FsOK(write(fs, path, data).fs)
    BY <1>1, <2>1, <2>2, MethodsLocal
  <2>4. /\ fs' = write(fs, path, data).fs
        /\ last' = Call(<<<<"write">>, path>>, <<>>, FALSE, write(fs, path, data).res)
    BY <1>4 DEF WriteFile, Return
  <2>5. "write" \in {"mkdir", "write"} OBVIOUS
  <2>6. QED BY <2>3, <2>4, <2>5, Zenon DEF ProgramStep
<1>5. QED BY <1>2, <1>3, <1>4 DEF Next

\* A line ends in a file system.
LEMMA LineFs ==
  ASSUME NEW f, FsOK(f), NEW s \in ScanState, NEW r, LineOutcome(f, s, r)
  PROVE  FsOK(r.fs)
<1>1. CASE Rejected(f, r) BY <1>1 DEF Rejected
<1>2. ASSUME NEW c, Behaves(f, s.rest, c), Unredirected(c, s, r) PROVE FsOK(r.fs)
  BY <1>2 DEF Behaves, Unredirected
<1>3. ASSUME NEW c, Behaves(f, s.rest, c), Filed(c, s, r) PROVE FsOK(r.fs)
  <2>1. s.to \in Seq(Words) BY DEF ScanState
  <2>2. QED BY <1>3, <2>1, FiledAnswer, Zenon
<1>4. QED BY <1>1, <1>2, <1>3 DEF LineOutcome

\* One or two changes of one node each.
LEMMA OneChange ==
  ASSUME NEW f, NEW g, OneNode(f, g)
  PROVE  Cardinality(Differ(f, g)) \in Nat /\ Cardinality(Differ(f, g)) <= 1
<1>1. PICK p : Differ(f, g) \subseteq {p} BY DEF OneNode
<1>2. IsFiniteSet({p}) /\ Cardinality({p}) = 1 BY FS_Singleton
<1> DEFINE S == {p}
           T == Differ(f, g)
<1>3. IsFiniteSet(S) /\ Cardinality(S) = 1 /\ T \in SUBSET S BY <1>1, <1>2
<1> HIDE DEF S, T
<1>4. IsFiniteSet(T) /\ Cardinality(T) <= 1 BY <1>3, FS_Subset
<1>5. Cardinality(T) \in Nat BY <1>4, FS_CardinalityType
<1>6. QED BY <1>4, <1>5 DEF T

LEMMA TwoChanges ==
  ASSUME NEW f, NEW g, NEW h, OneNode(f, g), OneNode(g, h)
  PROVE  Cardinality(Differ(f, h)) \in Nat /\ Cardinality(Differ(f, h)) <= 2
<1>1. PICK p : Differ(f, g) \subseteq {p} BY DEF OneNode
<1>2. PICK q : Differ(g, h) \subseteq {q} BY DEF OneNode
<1>3. Differ(f, h) \subseteq Differ(f, g) \cup Differ(g, h) BY DEF Differ
<1> DEFINE P == {p}
           S == P \cup {q}
           T == Differ(f, h)
<1>4. T \in SUBSET S BY <1>1, <1>2, <1>3
<1>5. IsFiniteSet(P) /\ Cardinality(P) = 1 BY FS_Singleton, Zenon
<1> HIDE DEF P, T
<1>6. IsFiniteSet(S) /\ Cardinality(S) = IF q \in P THEN Cardinality(P) ELSE Cardinality(P) + 1
  BY <1>5, FS_AddElement
<1> HIDE DEF S
<1>7. IsFiniteSet(T) /\ Cardinality(T) <= Cardinality(S) BY <1>4, <1>6, FS_Subset
<1>8. Cardinality(T) \in Nat BY <1>7, FS_CardinalityType
<1>9. Cardinality(S) = 1 \/ Cardinality(S) = 2 BY <1>5, <1>6
<1>10. QED BY <1>7, <1>8, <1>9 DEF T

LEMMA NoChange ==
  ASSUME NEW f
  PROVE  Cardinality(Differ(f, f)) = 0
BY Same, FS_EmptySet

\* How many nodes a line may change.
LEMMA LineChanges ==
  ASSUME NEW f, NEW s \in ScanState, NEW r, LineOutcome(f, s, r),
         s.rest = <<>> \/ s.rest[1] # <<"mv">>
  PROVE  Cardinality(Differ(f, r.fs))
           <= (IF r.res = "Ok" THEN 1 ELSE 0) + (IF s.to # <<>> THEN 1 ELSE 0)
<1> DEFINE n == Cardinality(Differ(f, r.fs))
<1>1. CASE Rejected(f, r)
  <2>1. n = 0 /\ r.res # "Ok" BY <1>1, NoChange DEF Rejected
  <2> HIDE DEF n
  <2>2. QED BY <2>1 DEF n
<1>2. ASSUME NEW c, Behaves(f, s.rest, c), Unredirected(c, s, r)
      PROVE  n <= (IF r.res = "Ok" THEN 1 ELSE 0) + (IF s.to # <<>> THEN 1 ELSE 0)
  <2>1. Local(f, r) BY <1>2 DEF Behaves, Unredirected
  <2>2. CASE r.res = "Ok"
    <3>1. n \in Nat /\ n <= 1 BY <2>1, OneChange DEF Local
    <3> HIDE DEF n
    <3>2. QED BY <2>2, <3>1
  <2>3. CASE r.res # "Ok"
    <3>1. n = 0 BY <2>1, <2>3, NoChange DEF Local
    <3> HIDE DEF n
    <3>2. QED BY <2>3, <3>1
  <2>4. QED BY <2>2, <2>3
<1>3. ASSUME NEW c, Behaves(f, s.rest, c), Filed(c, s, r)
      PROVE  n <= (IF r.res = "Ok" THEN 1 ELSE 0) + (IF s.to # <<>> THEN 1 ELSE 0)
  <2>1. s.to \in Seq(Words) /\ s.to # <<>> BY <1>3 DEF ScanState, Filed
  <2>2. OneNode(f, c.fs) BY <1>3 DEF Behaves, Local
  <2> DEFINE call == Redirects(c, s)
  <2>3. r.fs = call.fs /\ r.res = call.res /\ Local(c.fs, call) BY <1>3, <2>1, FiledAnswer, Zenon
  <2> HIDE DEF call
  <2>4. OneNode(c.fs, r.fs) /\ (r.res # "Ok" => r.fs = c.fs) BY <2>3 DEF Local
  <2>5. CASE r.res = "Ok"
    <3>1. n \in Nat /\ n <= 2 BY <2>2, <2>4, TwoChanges
    <3> HIDE DEF n
    <3>2. QED BY <2>1, <2>5, <3>1
  <2>6. CASE r.res # "Ok"
    <3>1. n \in Nat /\ n <= 1 BY <2>2, <2>4, <2>6, OneChange
    <3> HIDE DEF n
    <3>2. QED BY <2>1, <2>6, <3>1
  <2>7. QED BY <2>5, <2>6
<1>4. QED BY <1>1, <1>2, <1>3 DEF LineOutcome

\* h is f with its subtree at o taken to n.
Relocates(f, o, n, h) ==
  /\ Cardinality(DOMAIN h) = Cardinality(DOMAIN f)
  /\ \A q \in Below(f, o) : Moved(o, n, q) \in DOMAIN h /\ h[Moved(o, n, q)] = f[q]
  /\ \A q \in DOMAIN f \ Below(f, o) : q \in DOMAIN h /\ h[q] = f[q]

\* What rename, when it succeeds, does with each node.
LEMMA RenamedNodes ==
  ASSUME NEW f, FsOK(f), NEW old \in Words, NEW to \in Words, rename(f, old, to).res = "Ok"
  PROVE  Relocates(f, split_path(old), split_path(to), rename(f, old, to).fs)
<1> DEFINE o == split_path(old)
           n == split_path(to)
           g == Drop(f, o)
           h == rename(f, old, to).fs
           H == {Moved(o, n, q) : q \in Below(f, o)}
<1>1. Tree(f) /\ Finite(f) /\ old \in Seq(STRING) /\ to \in Seq(STRING) BY DEF FsOK, Words
<1> DEFINE r == rename(f, old, to)
<1>a. RenameEnds(f, o, n, g, r) BY <1>1, RenameOutcome, Zenon
<1>b. r.res = "Ok" /\ r.fs = h OBVIOUS
<1> HIDE DEF o, n, h, r
<1>2. /\ o \in DOMAIN f /\ o \in Seq(Name) /\ Tree(g)
      /\ n \in Seq(Name) /\ n \notin DOMAIN g /\ h = Graft(g, f, o, n)
  BY <1>a, <1>b, Zenon DEF RenameEnds
<1>3. Cardinality(DOMAIN h) = Cardinality(DOMAIN f) BY <1>1, <1>2, GraftFinite
<1>4. DOMAIN g = DOMAIN f \ Below(f, o) /\ \A q \in DOMAIN g : g[q] = f[q] BY DEF Drop
<1>5. Grafted(h, g, f, o, n) BY <1>1, <1>2, GraftProperties DEF Tree
<1> HIDE DEF g
<1>6. /\ DOMAIN h = DOMAIN g \cup H
      /\ \A q \in Below(f, o) : h[Moved(o, n, q)] = f[q]
      /\ \A q \in DOMAIN g : q \notin H => h[q] = g[q]
  BY <1>5, ZenonT(30) DEF Grafted
<1>7. \A q \in Below(f, o) : q \in Seq(Name) /\ IsPrefix(o, q) BY <1>1 DEF Below, Tree
<1>8. ASSUME NEW q \in Below(f, o) PROVE Moved(o, n, q) \notin DOMAIN g
  <2>1. IsPrefix(n, Moved(o, n, q)) BY <1>2, <1>7, MovedProperties
  <2>2. QED BY <1>2, <2>1, PrefixClosed
<1>9. \A q \in Below(f, o) : Moved(o, n, q) \in H OBVIOUS
<1>10. \A m \in H : m \notin DOMAIN g BY <1>8
<1> HIDE DEF H
<1>11. Relocates(f, o, n, h) BY <1>3, <1>4, <1>6, <1>9, <1>10 DEF Relocates
<1>12. QED BY <1>11 DEF o, n, h

\* What a write and an append of data to path put in the file.
Files(f, path, data) ==
  LET p == split_path(path)
      old == IF p \in DOMAIN f THEN f[p].data ELSE <<>>
  IN  /\ write(f, path, data).res = "Ok" => write(f, path, data).fs[p].data = data
      /\ append(f, path, data).res = "Ok" => append(f, path, data).fs[p].data = old \o data

\* What write and append leave in the file.
LEMMA WrittenData ==
  ASSUME NEW f, NEW path, NEW data
  PROVE  Files(f, path, data)
<1> DEFINE p == split_path(path)
           old == IF p \in DOMAIN f THEN f[p].data ELSE <<>>
<1>1. \A d : Put(f, p, File(d))[p].data = d BY DEF Put, File
<1>2. write(f, path, data) = Try(f, writable(f, path), Put(f, p, File(data))) BY DEF write
<1>3. append(f, path, data) = Try(f, writable(f, path), Put(f, p, File(old \o data)))
  BY DEF append
<1> HIDE DEF p, old
<1>4. write(f, path, data).res = "Ok" => write(f, path, data).fs[p].data = data
  BY <1>1, <1>2 DEF Try
<1>5. append(f, path, data).res = "Ok" => append(f, path, data).fs[p].data = old \o data
  <2> DEFINE d == old \o data
  <2>1. append(f, path, data) = Try(f, writable(f, path), Put(f, p, File(d))) BY <1>3
  <2> HIDE DEF d
  <2>2. append(f, path, data).res = "Ok" => append(f, path, data).fs[p].data = d
    BY <1>1, <2>1 DEF Try
  <2>3. QED BY <2>2 DEF d
<1>6. QED BY <1>4, <1>5, Zenon DEF p, old, Files

LocalStep ==
  last'.words = <<>> \/ last'.words[1] # <<"mv">> =>
    Cardinality(Differ(fs, fs'))
      <= (IF last'.res = "Ok" THEN 1 ELSE 0) + (IF Redirected THEN 1 ELSE 0)

LEMMA StepLocal == IInv /\ Next => LocalStep
<1>1. SUFFICES ASSUME IInv, Next PROVE LocalStep OBVIOUS
<1>2. CASE LineStep
  <2>1. PICK line \in Lines :
          LET s == scan(fs, line)
              r == run_command(fs, line)
          IN  /\ s \in ScanState /\ LineOutcome(fs, s, r)
              /\ fs' = r.fs /\ last' = Call(s.rest, s.to, s.append, r.res)
    BY <1>2 DEF LineStep
  <2> DEFINE s == scan(fs, line)
             r == run_command(fs, line)
  <2>2. s \in ScanState /\ LineOutcome(fs, s, r) /\ fs' = r.fs BY <2>1
  <2>3. last' = Call(s.rest, s.to, s.append, r.res) BY <2>1
  <2> HIDE DEF s, r
  <2>4. last'.words = s.rest /\ last'.to = s.to /\ last'.res = r.res BY <2>3 DEF Call
  <2>5. QED BY <2>2, <2>4, LineChanges DEF LocalStep, Redirected
<1>3. CASE ProgramStep
  <2>1. PICK r, name, path :
          /\ Local(fs, r) /\ FsOK(r.fs) /\ fs' = r.fs
          /\ name \in {"mkdir", "write"}
          /\ last' = Call(<<<<name>>, path>>, <<>>, FALSE, r.res)
    BY <1>3, Zenon DEF ProgramStep
  <2>2. last'.to = <<>> /\ last'.res = r.res BY <2>1 DEF Call
  <2> DEFINE n == Cardinality(Differ(fs, r.fs))
  <2>3. n \in Nat /\ n <= 1 BY <2>1, OneChange DEF Local
  <2>4. r.res # "Ok" => n = 0 BY <2>1, NoChange DEF Local
  <2>5. n <= (IF last'.res = "Ok" THEN 1 ELSE 0) + (IF Redirected THEN 1 ELSE 0)
    <3> HIDE DEF n
    <3>1. QED BY <2>2, <2>3, <2>4 DEF Redirected
  <2>6. QED BY <2>1, <2>5, Zenon DEF LocalStep
<1>4. QED BY <1>1, <1>2, <1>3, Steps

\* The steps that report a success: a command ran, from its own image.
Success(s, c, r) ==
  /\ s \in ScanState
  /\ Behaves(fs, s.rest, c) /\ c.res = "Ok" /\ r.res = "Ok"
  /\ (s.to = <<>> /\ r = c) \/ Filed(c, s, r)
  /\ fs' = r.fs /\ last' = Call(s.rest, s.to, s.append, r.res)

LEMMA SuccessfulStep ==
  ASSUME IInv, Next, last'.res = "Ok"
  PROVE  \/ \E s, c, r : Success(s, c, r)
         \/ last'.words[1] \in {<<"mkdir">>, <<"write">>}
<1>1. CASE LineStep
  <2>1. PICK line \in Lines :
          LET s == scan(fs, line)
              r == run_command(fs, line)
          IN  /\ s \in ScanState /\ LineOutcome(fs, s, r)
              /\ fs' = r.fs /\ last' = Call(s.rest, s.to, s.append, r.res)
    BY <1>1 DEF LineStep
  <2> DEFINE s == scan(fs, line)
             r == run_command(fs, line)
  <2>2. s \in ScanState /\ LineOutcome(fs, s, r) /\ fs' = r.fs BY <2>1
  <2>3. last' = Call(s.rest, s.to, s.append, r.res) BY <2>1
  <2> HIDE DEF s, r
  <2>4. r.res = "Ok" BY <2>3 DEF Call
  <2>5. PICK c : Behaves(fs, s.rest, c) /\ (Unredirected(c, s, r) \/ Filed(c, s, r))
    BY <2>2, <2>4 DEF LineOutcome, Rejected
  <2>6. c.res = "Ok" /\ ((s.to = <<>> /\ r = c) \/ Filed(c, s, r))
    BY <2>4, <2>5 DEF Unredirected, Filed
  <2>7. Success(s, c, r) BY <2>2, <2>3, <2>4, <2>5, <2>6 DEF Success
  <2>8. QED BY <2>7
<1>2. CASE ProgramStep
  <2>1. PICK r, name, path :
          /\ Local(fs, r) /\ FsOK(r.fs) /\ fs' = r.fs
          /\ name \in {"mkdir", "write"}
          /\ last' = Call(<<<<name>>, path>>, <<>>, FALSE, r.res)
    BY <1>2, Zenon DEF ProgramStep
  <2>2. last'.words = <<<<name>>, path>> BY <2>1 DEF Call
  <2>3. last'.words[1] = <<name>> BY <2>2
  <2>4. QED BY <2>1, <2>3, Zenon
<1>3. QED BY <1>1, <1>2, Steps

-----------------------------------------------------------------------------
\* Lines and programs leave a tree whose files hold units, from the file
\* system that seed_runtime_fs makes (run_command, RamFs).
THEOREM CommandInvariance == Spec => []IInv
<1>1. Init => IInv BY SeedFs DEF Init, IInv
<1>2. IInv /\ [Next]_vars => IInv'
  <2>1. SUFFICES ASSUME IInv, [Next]_vars PROVE IInv' OBVIOUS
  <2>2. CASE UNCHANGED vars BY <2>1, <2>2 DEF vars, IInv
  <2>3. CASE LineStep
    <3>1. PICK line \in Lines :
            LET s == scan(fs, line)
                r == run_command(fs, line)
            IN  /\ s \in ScanState /\ LineOutcome(fs, s, r)
                /\ fs' = r.fs /\ last' = Call(s.rest, s.to, s.append, r.res)
      BY <2>3 DEF LineStep
    <3> DEFINE s == scan(fs, line)
               r == run_command(fs, line)
    <3>2. s \in ScanState /\ LineOutcome(fs, s, r) /\ fs' = r.fs BY <3>1
    <3> HIDE DEF s, r
    <3>3. FsOK(r.fs) BY <2>1, <3>2, LineFs DEF IInv
    <3>4. QED BY <3>2, <3>3 DEF IInv
  <2>4. CASE ProgramStep BY <2>4 DEF ProgramStep, IInv
  <2>5. QED BY <2>1, <2>2, <2>3, <2>4, Steps
<1>3. QED BY <1>1, <1>2, PTL DEF Spec

\* The tree stays a tree, whatever lines are typed and whatever programs
\* write meanwhile (the methods of RamFs as run_command calls them).
THEOREM CommandsKeepTree == Spec => []TreeWellFormed
<1>1. IInv => TreeWellFormed BY DEF IInv, FsOK, Tree, TreeWellFormed
<1>2. QED BY <1>1, CommandInvariance, PTL

\* Whatever a file holds, an image that parse accepts can be loaded: the
\* bounds checks of parse are enough for spawn_elf, for every size of usize.
THEOREM ImagesLoadable == Spec => []LoadInImage
<1>1. IInv => LoadInImage
  <2>1. SUFFICES ASSUME IInv, NEW p \in DOMAIN fs, parse(fs[p].data).res = "Ok"
                 PROVE  LET load == parse(fs[p].data).load
                        IN  /\ load \in Range(fs[p].data)
                            /\ load.offset + load.filesz <= Len(fs[p].data)
                            /\ load.filesz <= load.memsz
    BY DEF LoadInImage
  <2> DEFINE image == fs[p].data
  <2>2. image \in Seq(Unit) BY <2>1 DEF IInv, FsOK, Typed
  <2> HIDE DEF image
  <2>3. PICK i \in 1..Len(image) :
          /\ parse(image).load = image[i]
          /\ image[i].offset + image[i].filesz <= Len(image)
          /\ image[i].filesz <= image[i].memsz
    BY <2>1, <2>2, ParseOk DEF image
  <2>4. image[i] \in Range(image) BY <2>2, LenProperties DEF Range
  <2>5. QED BY <2>3, <2>4 DEF image
<1>2. QED BY <1>1, CommandInvariance, PTL

\* A line other than mv changes one node at most, and the redirection one
\* more; what fails changes nothing (run_command and the methods of RamFs).
THEOREM CommandsAreLocal == Spec => CallsAreLocal
<1>1. IInv /\ [Next]_vars =>
        [last'.words = <<>> \/ last'.words[1] # <<"mv">> =>
           Cardinality(Differ(fs, fs'))
             <= (IF last'.res = "Ok" THEN 1 ELSE 0) + (IF Redirected THEN 1 ELSE 0)]_vars
  BY StepLocal DEF LocalStep
<1>2. QED BY <1>1, CommandInvariance, PTL DEF Spec, CallsAreLocal

\* A mv that succeeds takes the whole subtree to its new name and touches
\* nothing else, for trees of any shape and paths of any depth (rename).
THEOREM RenameMovesTree == Spec => RenameMoves
<1> DEFINE Moves ==
      Ran("mv") /\ ~Redirected =>
        LET old == split_path(last'.words[2])
            new_place == split_path(last'.words[3])
            moved(q) == new_place \o SubSeq(q, Len(old) + 1, Len(q))
        IN  /\ Cardinality(DOMAIN fs') = Cardinality(DOMAIN fs)
            /\ \A q \in Below(fs, old) : moved(q) \in DOMAIN fs' /\ fs'[moved(q)] = fs[q]
            /\ \A q \in DOMAIN fs \ Below(fs, old) : q \in DOMAIN fs' /\ fs'[q] = fs[q]
<1>1. IInv /\ Next => Moves
  <2>1. SUFFICES ASSUME IInv, Next, last'.res = "Ok", last'.words[1] = <<"mv">>, last'.to = <<>>
                 PROVE  Relocates(fs, split_path(last'.words[2]), split_path(last'.words[3]), fs')
    BY DEF Ran, Redirected, Moved, Relocates
  <2>2. last'.words[1] \notin {<<"mkdir">>, <<"write">>}
    <3>1. <<"mkdir">>[1] = "mkdir" /\ <<"write">>[1] = "write" /\ <<"mv">>[1] = "mv" OBVIOUS
    <3>2. QED BY <2>1, <3>1
  <2>a. PICK s, c, r : Success(s, c, r) BY <2>1, <2>2, SuccessfulStep
  <2>3. /\ s \in ScanState
        /\ Behaves(fs, s.rest, c) /\ c.res = "Ok" /\ r.res = "Ok"
        /\ (s.to = <<>> /\ r = c) \/ Filed(c, s, r)
        /\ fs' = r.fs /\ last' = Call(s.rest, s.to, s.append, r.res)
    BY <2>a DEF Success
  <2>4. last'.words = s.rest /\ last'.to = s.to BY <2>3 DEF Call
  <2>5. fs' = c.fs BY <2>1, <2>3, <2>4 DEF Filed
  <2> DEFINE w == s.rest
  <2>6. /\ Len(w) > 2 /\ fs' = rename(fs, w[2], w[3]).fs /\ rename(fs, w[2], w[3]).res = "Ok"
    BY <2>1, <2>3, <2>4, <2>5 DEF Behaves
  <2>7. w \in Seq(Words) BY <2>3 DEF ScanState
  <2> HIDE DEF w
  <2>8. w[2] \in Words /\ w[3] \in Words
    <3>1. Len(w) \in Nat BY <2>7, LenProperties
    <3>2. 2 \in 1..Len(w) /\ 3 \in 1..Len(w) BY <2>6, <3>1
    <3>3. QED BY <2>7, <3>2, ElementOfSeq
  <2>9. FsOK(fs) BY <2>1 DEF IInv
  <2>10. last'.words = w BY <2>4 DEF w
  <2>11. Relocates(fs, split_path(w[2]), split_path(w[3]), rename(fs, w[2], w[3]).fs)
    BY <2>6, <2>8, <2>9, RenamedNodes
  <2>12. QED BY <2>6, <2>10, <2>11
<1>2. IInv /\ [Next]_vars => [Moves]_vars BY <1>1
<1>3. QED BY <1>2, CommandInvariance, PTL DEF Spec, RenameMoves

\* cat reads its operands before the redirection touches the file it names,
\* for any number of operands (run_command).
THEOREM CommandsReadFirst == Spec => RedirectionReadsFirst
<1> DEFINE Reads ==
      Ran("cat") /\ Redirected /\ Len(last'.words) > 1 =>
        LET to == split_path(last'.to[1])
            kept == IF last'.append /\ to \in DOMAIN fs THEN fs[to].data ELSE <<>>
            operands == [i \in 1..(Len(last'.words) - 1) |-> contents(fs, last'.words[i + 1])]
        IN  fs'[to].data = kept \o Flatten(operands)
<1>1. IInv /\ Next => Reads
  <2>1. SUFFICES ASSUME IInv, Next, last'.res = "Ok", last'.words[1] = <<"cat">>,
                        last'.to # <<>>, Len(last'.words) > 1
                 PROVE  Reads
    BY DEF Ran, Redirected
  <2>2. last'.words[1] \notin {<<"mkdir">>, <<"write">>}
    <3>1. <<"mkdir">>[1] = "mkdir" /\ <<"write">>[1] = "write" /\ <<"cat">>[1] = "cat" OBVIOUS
    <3>2. QED BY <2>1, <3>1
  <2>a. PICK s, c, r : Success(s, c, r) BY <2>1, <2>2, SuccessfulStep
  <2>3. /\ s \in ScanState
        /\ Behaves(fs, s.rest, c) /\ c.res = "Ok" /\ r.res = "Ok"
        /\ (s.to = <<>> /\ r = c) \/ Filed(c, s, r)
        /\ fs' = r.fs /\ last' = Call(s.rest, s.to, s.append, r.res)
    BY <2>a DEF Success
  <2>4. last'.words = s.rest /\ last'.to = s.to /\ last'.append = s.append BY <2>3 DEF Call
  <2>5. Filed(c, s, r) BY <2>1, <2>3, <2>4
  <2> DEFINE out == Flatten([i \in 1..(Len(s.rest) - 1) |-> contents(fs, s.rest[i + 1])])
             to == s.to[1]
             p == split_path(to)
             old == IF p \in DOMAIN fs THEN fs[p].data ELSE <<>>
  <2>6. c.fs = fs /\ c.out = out /\ c.out \in Seq(Unit)
    BY <2>1, <2>3, <2>4 DEF Behaves
  <2> HIDE DEF out
  <2>7. s.to \in Seq(Words) BY <2>3 DEF ScanState
  <2>8. fs' = Redirects(c, s).fs /\ Redirects(c, s).res = "Ok"
    BY <2>3, <2>5, <2>7, FiledAnswer, Zenon
  <2> HIDE DEF to
  <2>9. Redirects(c, s) = IF s.append THEN append(fs, to, out) ELSE write(fs, to, out)
    BY <2>6 DEF Redirects, to
  <2>10. /\ write(fs, to, out).res = "Ok" => write(fs, to, out).fs[p].data = out
         /\ append(fs, to, out).res = "Ok" => append(fs, to, out).fs[p].data = old \o out
    <3>1. Files(fs, to, out) BY WrittenData, Zenon
    <3>2. QED BY <3>1, Zenon DEF Files
  <2>11. s.append \in BOOLEAN BY <2>3 DEF ScanState
  <2> HIDE DEF p
  <2>12. fs'[p].data = (IF s.append /\ p \in DOMAIN fs THEN fs[p].data ELSE <<>>) \o out
    <3>1. CASE s.append = TRUE BY <2>8, <2>9, <2>10, <3>1, Zenon
    <3>2. CASE s.append = FALSE
      <4>1. fs'[p].data = out BY <2>8, <2>9, <2>10, <3>2
      <4>2. <<>> \o out = out BY <2>6, ConcatEmptySeq
      <4>3. QED BY <3>2, <4>1, <4>2, Zenon
    <3>3. QED BY <2>11, <3>1, <3>2, ZenonT(30)
  <2>13. QED BY <2>4, <2>12 DEF out, p, to
<1>2. IInv /\ [Next]_vars => [Reads]_vars BY <1>1
<1>3. QED BY <1>2, CommandInvariance, PTL DEF Spec, RedirectionReadsFirst

\* A command runs only from an image of its own, whatever was copied, moved
\* or written over the files of /bin (load_program and parse).
THEOREM CommandsRunAsNamed == Spec => ProgramsRunAsNamed
<1> DEFINE Named ==
      last'.res = "Ok" =>
        LET ran == last'.words[1][1]
            image == fs[<<"bin", ran>>].data
        IN  ran \in ProgramId =>
              /\ image[1].unit = "header" /\ image[1].entry = ran
              /\ \E i \in DOMAIN image :
                   image[i].unit = "segment" /\ image[i].offset + image[i].filesz <= Len(image)
<1>1. IInv /\ Next => Named
  <2>1. SUFFICES ASSUME IInv, Next, last'.res = "Ok", last'.words[1][1] \in ProgramId
                 PROVE  Named
    BY Zenon
  <2>2. last'.words[1] \notin {<<"mkdir">>, <<"write">>}
    <3>1. <<"mkdir">>[1] = "mkdir" /\ <<"write">>[1] = "write" OBVIOUS
    <3>2. QED BY <2>1, <3>1, ProgramsAssumption, ZenonT(30)
  <2>a. PICK s, c, r : Success(s, c, r) BY <2>1, <2>2, SuccessfulStep
  <2>3. /\ s \in ScanState
        /\ Behaves(fs, s.rest, c) /\ c.res = "Ok" /\ r.res = "Ok"
        /\ (s.to = <<>> /\ r = c) \/ Filed(c, s, r)
        /\ fs' = r.fs /\ last' = Call(s.rest, s.to, s.append, r.res)
    BY <2>a DEF Success
  <2>4. last'.words = s.rest BY <2>3 DEF Call
  <2>5. Loaded(fs, last'.words[1]) BY <2>3, <2>4 DEF Behaves
  <2>6. PICK program \in ProgramId :
          /\ last'.words[1] = <<program>> /\ <<"bin", program>> \in DOMAIN fs
          /\ parse(fs[<<"bin", program>>].data).res = "Ok"
          /\ parse(fs[<<"bin", program>>].data).program = program
    BY <2>5 DEF Loaded
  <2>7. last'.words[1][1] = program BY <2>6
  <2> DEFINE image == fs[<<"bin", program>>].data
  <2>8. image \in Seq(Unit) BY <2>1, <2>6 DEF IInv, FsOK, Typed
  <2>9. parse(image).res = "Ok" /\ parse(image).program = program BY <2>6
  <2> HIDE DEF image
  <2>10. /\ image[1].unit = "header" /\ image[1].entry = program
         /\ \E i \in 1..Len(image) :
              image[i].unit = "segment" /\ image[i].offset + image[i].filesz <= Len(image)
    BY <2>8, <2>9, ParseOk
  <2>11. DOMAIN image = 1..Len(image) BY <2>8, LenProperties
  <2>12. QED BY <2>7, <2>10, <2>11 DEF image
<1>2. IInv /\ [Next]_vars => [Named]_vars BY <1>1, Zenon
<1>3. QED BY <1>2, CommandInvariance, PTL DEF Spec, ProgramsRunAsNamed
=============================================================================
