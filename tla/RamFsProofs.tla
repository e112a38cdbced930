---------------------------- MODULE RamFsProofs ----------------------------
(***************************************************************************)
(* Lemmas about the operators of RamFs: what the walk from the root finds, *)
(* and that every method takes a tree to a tree.                           *)
(***************************************************************************)
EXTENDS RamFs, SeqProofs, SequenceTheorems

\* What split_path leaves: no empty name and no ".".
Name == STRING \ {"", "."}

Kinds == {"dir", "file"}

\* f is a tree of directories and files.
Tree(f) ==
  /\ f = [p \in DOMAIN f |-> f[p]]
  /\ DOMAIN f \subseteq Seq(Name)
  /\ \A p \in DOMAIN f : f[p].kind \in Kinds
  /\ IsDir(f, <<>>)
  /\ \A p \in DOMAIN f : p # <<>> => IsDir(f, Front(p))

(***************************************************************************)
(* Sequences of names.                                                     *)
(***************************************************************************)
\* split_path of any text between slashes gives names.
LEMMA SplitPath ==
  ASSUME NEW path \in Seq(STRING)
  PROVE  split_path(path) \in Seq(Name)
<1> DEFINE w == Without(path, {"", "."})
           n == Len(w)
<1>1. w \in Seq(STRING) /\ \E h : Picks(h, w, path, Len(path), {"", "."})
  BY WithoutPicks, Zenon
<1>2. n \in Nat /\ w \in [1..n -> STRING] BY <1>1, LenProperties, Zenon
<1>3. \A i \in 1..n : w[i] \notin {"", "."} BY <1>1, Zenon DEF Picks
<1> HIDE DEF n, w
<1>4. w \in [1..n -> Name] BY <1>2, <1>3, Zenon DEF Name
<1>5. w \in Seq(Name) BY <1>2, <1>4, SeqDef
<1>6. QED BY <1>5, Zenon DEF split_path, w

\* The first i elements of a sequence.
LEMMA Upto ==
  ASSUME NEW S, NEW p \in Seq(S), NEW i \in 0..Len(p)
  PROVE  /\ SubSeq(p, 1, i) \in Seq(S) /\ Len(SubSeq(p, 1, i)) = i
         /\ \A j \in 1..i : SubSeq(p, 1, i)[j] = p[j]
<1>1. Len(p) \in Nat /\ p \in [1..Len(p) -> S] BY LenProperties
<1>2. i \in Int /\ 1 \in Int /\ \A j \in 1..i : p[j] \in S BY <1>1
<1>3. /\ SubSeq(p, 1, i) \in Seq(S)
      /\ Len(SubSeq(p, 1, i)) = IF 1 <= i THEN i - 1 + 1 ELSE 0
      /\ \A j \in 1..(i - 1 + 1) : SubSeq(p, 1, i)[j] = p[1 + j - 1]
  BY <1>2, SubSeqProperties
<1>4. \A j \in 1..i : j \in 1..(i - 1 + 1) /\ 1 + j - 1 = j BY <1>1
<1>5. QED BY <1>1, <1>3, <1>4

\* Front drops the last element.
LEMMA FrontProperties ==
  ASSUME NEW S, NEW p \in Seq(S), p # <<>>
  PROVE  /\ Front(p) \in Seq(S) /\ Len(p) \in Nat \ {0} /\ Len(Front(p)) = Len(p) - 1
         /\ \A j \in 1..(Len(p) - 1) : Front(p)[j] = p[j]
<1>1. Len(p) \in Nat \ {0} BY EmptySeq
<1>2. Len(p) - 1 \in 0..Len(p) BY <1>1
<1>3. QED BY <1>1, <1>2, Upto, Zenon DEF Front

\* A prefix agrees with what it is a prefix of.
LEMMA PrefixMeans ==
  ASSUME NEW S, NEW p \in Seq(S), NEW q \in Seq(S)
  PROVE  IsPrefix(p, q) <=> Len(p) <= Len(q) /\ \A i \in 1..Len(p) : p[i] = q[i]
<1>1. Len(p) \in Nat /\ Len(q) \in Nat BY LenProperties
<1>2. ASSUME Len(p) <= Len(q)
      PROVE  SubSeq(p, 1, Len(p)) = SubSeq(q, 1, Len(p)) <=> \A i \in 1..Len(p) : p[i] = q[i]
  <2> DEFINE a == SubSeq(p, 1, Len(p))
             b == SubSeq(q, 1, Len(p))
             k == Len(p)
  <2>1. k \in 0..Len(p) /\ k \in 0..Len(q) BY <1>1, <1>2
  <2>2. a \in Seq(S) /\ Len(a) = k /\ \A j \in 1..k : a[j] = p[j] BY <2>1, Upto
  <2>3. b \in Seq(S) /\ Len(b) = k /\ \A j \in 1..k : b[j] = q[j] BY <2>1, Upto
  <2> HIDE DEF a, b
  <2>4. ASSUME \A i \in 1..k : p[i] = q[i] PROVE a = b
    BY <2>2, <2>3, <2>4, SeqEqual
  <2>5. QED BY <2>2, <2>3, <2>4 DEF a, b
<1>3. QED BY <1>1, <1>2 DEF IsPrefix

(***************************************************************************)
(* The walk.                                                               *)
(***************************************************************************)
\* A walk that ends well ends at a node.
LEMMA NodeOk ==
  ASSUME NEW f, <<>> \in DOMAIN f, NEW S, NEW parts \in Seq(S), node(f, parts) = "Ok"
  PROVE  parts \in DOMAIN f
<1> DEFINE n == Len(parts)
           known == {i \in 0..n : \A j \in 0..i : SubSeq(parts, 1, j) \in DOMAIN f}
           k == CHOOSE i \in known : \A j \in known : j <= i
<1>1. n \in Nat BY LenProperties
<1>2. 0 \in known
  <2>1. SubSeq(parts, 1, 0) = <<>> BY SubSeqEmpty
  <2>2. 0 \in 0..n /\ \A j \in 0..0 : j = 0 BY <1>1
  <2> HIDE DEF n
  <2>3. QED BY <2>1, <2>2, Zenon
<1>3. \E i \in known : \A j \in known : j <= i
  <2>1. known \subseteq 0..n /\ known # {} BY <1>2
  <2> HIDE DEF known
  <2>2. QED BY <1>1, <2>1, Greatest, Zenon
<1>4. k \in known BY <1>3, Zenon
<1>5. SubSeq(parts, 1, k) \in DOMAIN f
  <2>1. k \in 0..n /\ k \in 0..k BY <1>1, <1>4
  <2> HIDE DEF k
  <2>2. QED BY <1>4, <2>1
<1>6. node(f, parts) = IF SubSeq(parts, 1, k) = parts THEN "Ok"
                       ELSE IF IsFile(f, SubSeq(parts, 1, k)) THEN "NotDirectory" ELSE "NotFound"
  BY DEF node
<1> HIDE DEF k
<1>7. SubSeq(parts, 1, k) = parts BY <1>6
<1>8. QED BY <1>5, <1>7, Zenon

\* A method whose path has a parent finds that parent to be a directory.
LEMMA ParentOk ==
  ASSUME NEW f, Tree(f), NEW path \in Seq(STRING), parent(f, path) = "Ok"
  PROVE  /\ split_path(path) \in Seq(Name) /\ split_path(path) # <<>>
         /\ IsDir(f, Front(split_path(path)))
<1> DEFINE p == split_path(path)
<1>1. p \in Seq(Name) BY SplitPath
<1>2. p # <<>> /\ dir_mut(f, Front(p)) = "Ok" BY DEF parent
<1>3. Front(p) \in Seq(Name) BY <1>1, <1>2, FrontProperties
<1>4. node(f, Front(p)) = "Ok" /\ ~IsFile(f, Front(p)) BY <1>2 DEF dir_mut
<1>5. <<>> \in DOMAIN f BY DEF Tree, IsDir
<1>6. Front(p) \in DOMAIN f BY <1>3, <1>4, <1>5, NodeOk
<1>7. IsDir(f, Front(p)) BY <1>4, <1>6 DEF Tree, IsDir, IsFile, Kinds
<1>8. QED BY <1>1, <1>2, <1>7

(***************************************************************************)
(* Trees.                                                                  *)
(***************************************************************************)
\* A node of a tree comes with all nodes on its way.
LEMMA PrefixClosed ==
  ASSUME NEW f, Tree(f), NEW p \in Seq(Name), NEW q \in DOMAIN f, IsPrefix(p, q)
  PROVE  p \in DOMAIN f
<1> DEFINE Near(k) == \A r \in DOMAIN f : IsPrefix(p, r) /\ Len(r) = Len(p) + k => p \in DOMAIN f
           U == {k \in Nat : Near(k)}
<1>1. Len(p) \in Nat /\ \A r \in DOMAIN f : r \in Seq(Name) /\ Len(r) \in Nat
  BY LenProperties DEF Tree
<1>2. 0 \in U
  <2>1. SUFFICES ASSUME NEW r \in DOMAIN f, IsPrefix(p, r), Len(r) = Len(p) + 0
                 PROVE  p \in DOMAIN f
    OBVIOUS
  <2>2. Len(r) = Len(p) /\ \A i \in 1..Len(p) : p[i] = r[i] BY <1>1, <2>1, PrefixMeans
  <2>3. p = r BY <1>1, <2>2, SeqEqual
  <2>4. QED BY <2>3
<1>3. ASSUME NEW k \in Nat, k \in U PROVE k + 1 \in U
  <2>1. SUFFICES ASSUME NEW r \in DOMAIN f, IsPrefix(p, r), Len(r) = Len(p) + (k + 1)
                 PROVE  p \in DOMAIN f
    OBVIOUS
  <2>2. r \in Seq(Name) /\ r # <<>> BY <1>1, <2>1, EmptySeq
  <2>3. /\ Front(r) \in Seq(Name) /\ Len(Front(r)) = Len(p) + k
        /\ \A j \in 1..(Len(r) - 1) : Front(r)[j] = r[j]
    <3>1. Len(r) - 1 = Len(p) + k BY <1>1, <2>1
    <3>2. QED BY <2>2, <3>1, FrontProperties
  <2>4. \A i \in 1..Len(p) : p[i] = r[i] BY <2>1, <2>2, PrefixMeans
  <2>5. \A i \in 1..Len(p) : i \in 1..(Len(r) - 1) BY <1>1, <2>1
  <2>6. IsPrefix(p, Front(r)) BY <1>1, <2>3, <2>4, <2>5, PrefixMeans, SMTT(30)
  <2>7. Front(r) \in DOMAIN f BY <2>2 DEF Tree, IsDir
  <2>8. QED BY <1>3, <2>3, <2>6, <2>7
<1> HIDE DEF U
<1>4. Nat \subseteq U BY <1>2, <1>3, SetInduction
<1>5. Len(p) <= Len(q) /\ q \in Seq(Name) BY <1>1, PrefixMeans
<1>6. Len(q) - Len(p) \in Nat /\ Len(q) = Len(p) + (Len(q) - Len(p)) BY <1>1, <1>5
<1>7. QED BY <1>4, <1>6, Zenon DEF U

\* What is under a node is not above it, and stays under it further down.
LEMMA FrontPrefix ==
  ASSUME NEW p \in Seq(Name), NEW q \in Seq(Name), q # <<>>
  PROVE  /\ IsPrefix(p, Front(q)) => IsPrefix(p, q)
         /\ IsPrefix(p, q) /\ p # q => IsPrefix(p, Front(q))
         /\ Front(q) # q
<1>1. /\ Front(q) \in Seq(Name) /\ Len(q) \in Nat \ {0} /\ Len(Front(q)) = Len(q) - 1
      /\ \A j \in 1..(Len(q) - 1) : Front(q)[j] = q[j]
  BY FrontProperties
<1>2. Len(p) \in Nat BY LenProperties
<1>3. ASSUME IsPrefix(p, Front(q)) PROVE IsPrefix(p, q)
  <2>1. Len(p) <= Len(q) - 1 /\ \A i \in 1..Len(p) : p[i] = Front(q)[i]
    BY <1>1, <1>3, PrefixMeans
  <2>2. \A i \in 1..Len(p) : i \in 1..(Len(q) - 1) BY <1>1, <1>2, <2>1
  <2>3. Len(p) <= Len(q) BY <1>1, <1>2, <2>1
  <2>4. QED BY <1>1, <2>1, <2>2, <2>3, PrefixMeans
<1>4. ASSUME IsPrefix(p, q), p # q PROVE IsPrefix(p, Front(q))
  <2>1. Len(p) <= Len(q) /\ \A i \in 1..Len(p) : p[i] = q[i] BY <1>4, PrefixMeans
  <2>2. Len(p) # Len(q) BY <1>4, <2>1, SeqEqual
  <2>3. Len(p) <= Len(q) - 1 BY <1>1, <1>2, <2>1, <2>2
  <2>4. \A i \in 1..Len(p) : i \in 1..(Len(q) - 1) BY <1>1, <1>2, <2>3
  <2>5. QED BY <1>1, <2>1, <2>3, <2>4, PrefixMeans
<1>5. Front(q) # q BY <1>1
<1>6. QED BY <1>3, <1>4, <1>5

\* A node put into a directory, not a file over a directory.
LEMMA PutTree ==
  ASSUME NEW f, Tree(f), NEW p \in Seq(Name), p # <<>>, IsDir(f, Front(p)),
         NEW n, n.kind \in Kinds, IsDir(f, p) => n.kind = "dir"
  PROVE  Tree(Put(f, p, n))
<1> DEFINE g == Put(f, p, n)
<1>1. /\ g = [q \in DOMAIN f \cup {p} |-> IF q = p THEN n ELSE f[q]]
      /\ DOMAIN g = DOMAIN f \cup {p}
      /\ g[p] = n /\ \A q \in DOMAIN f : q # p => g[q] = f[q]
  BY DEF Put
<1> HIDE DEF g
<1>2. \A q \in DOMAIN f : IsDir(f, q) => IsDir(g, q) BY <1>1 DEF IsDir
<1>3. g = [q \in DOMAIN g |-> g[q]] BY <1>1
<1>4. DOMAIN g \subseteq Seq(Name) BY <1>1 DEF Tree
<1>5. \A q \in DOMAIN g : g[q].kind \in Kinds BY <1>1 DEF Tree
<1>6. IsDir(g, <<>>) BY <1>2 DEF Tree, IsDir
<1>7. ASSUME NEW q \in DOMAIN g, q # <<>> PROVE IsDir(g, Front(q))
  <2>1. IsDir(f, Front(q)) BY <1>1, <1>7 DEF Tree
  <2>2. QED BY <1>2, <2>1 DEF IsDir
<1>8. Tree(g) BY <1>3, <1>4, <1>5, <1>6, <1>7 DEF Tree
<1>9. QED BY <1>8 DEF g

\* A node taken out with what is under it.
LEMMA DropTree ==
  ASSUME NEW f, Tree(f), NEW o \in Seq(Name), o # <<>>
  PROVE  Tree(Drop(f, o))
<1> DEFINE g == Drop(f, o)
<1>1. /\ g = [q \in DOMAIN f \ Below(f, o) |-> f[q]]
      /\ DOMAIN g = {q \in DOMAIN f : ~IsPrefix(o, q)}
      /\ \A q \in DOMAIN g : g[q] = f[q]
  BY DEF Drop, Below
<1> HIDE DEF g
<1>2. g = [q \in DOMAIN g |-> g[q]] BY <1>1
<1>3. DOMAIN g \subseteq Seq(Name) BY <1>1 DEF Tree
<1>4. \A q \in DOMAIN g : g[q].kind \in Kinds BY <1>1 DEF Tree
<1>5. IsDir(g, <<>>)
  <2>1. <<>> \in Seq(Name) /\ Len(<<>>) = 0 /\ Len(o) \in Nat \ {0} BY EmptySeq
  <2>2. ~IsPrefix(o, <<>>) BY <2>1 DEF IsPrefix
  <2>3. QED BY <1>1, <2>2 DEF Tree, IsDir
<1>6. ASSUME NEW q \in DOMAIN g, q # <<>> PROVE IsDir(g, Front(q))
  <2>1. IsDir(f, Front(q)) BY <1>1, <1>6 DEF Tree
  <2>2. ~IsPrefix(o, Front(q)) BY <1>1, <1>3, <1>6, FrontPrefix
  <2>3. QED BY <1>1, <2>1, <2>2 DEF IsDir
<1>7. Tree(g) BY <1>2, <1>3, <1>4, <1>5, <1>6 DEF Tree
<1>8. QED BY <1>7 DEF g

\* Where a node q under o comes to be when o is moved to n.
Moved(o, n, q) == n \o SubSeq(q, Len(o) + 1, Len(q))

LEMMA MovedProperties ==
  ASSUME NEW o \in Seq(Name), NEW n \in Seq(Name), NEW q \in Seq(Name), IsPrefix(o, q)
  PROVE  /\ Moved(o, n, q) \in Seq(Name)
         /\ Len(Moved(o, n, q)) = Len(n) + (Len(q) - Len(o))
         /\ \A i \in 1..Len(n) : Moved(o, n, q)[i] = n[i]
         /\ \A i \in 1..(Len(q) - Len(o)) : Moved(o, n, q)[Len(n) + i] = q[Len(o) + i]
         /\ IsPrefix(n, Moved(o, n, q))
<1> DEFINE a == Len(o)
           b == Len(q)
           c == Len(n)
           t == SubSeq(q, a + 1, b)
           m == Moved(o, n, q)
<1>1. a \in Nat /\ b \in Nat /\ c \in Nat /\ q \in [1..b -> Name] BY LenProperties
<1>2. a <= b BY PrefixMeans
<1> HIDE DEF a, b, c
<1>3. a + 1 \in Int /\ b \in Int /\ \A i \in (a + 1)..b : q[i] \in Name BY <1>1
<1>4. /\ t \in Seq(Name)
      /\ Len(t) = IF a + 1 <= b THEN b - (a + 1) + 1 ELSE 0
      /\ \A i \in 1..(b - (a + 1) + 1) : t[i] = q[(a + 1) + i - 1]
  BY <1>3, SubSeqProperties
<1> HIDE DEF t
<1>5. Len(t) = b - a /\ b - a \in Nat BY <1>1, <1>2, <1>4
<1>6. \A i \in 1..(b - a) : t[i] = q[a + i]
  <2>1. TAKE i \in 1..(b - a)
  <2>2. i \in 1..(b - (a + 1) + 1) /\ (a + 1) + i - 1 = a + i BY <1>1
  <2>3. QED BY <1>4, <2>2
<1>7. m = n \o t BY DEF Moved, a, b, t
<1>8. /\ m \in Seq(Name) /\ Len(m) = c + (b - a)
      /\ \A i \in 1..(c + (b - a)) : m[i] = IF i <= c THEN n[i] ELSE t[i - c]
  <2>1. /\ n \o t \in Seq(Name) /\ Len(n \o t) = Len(n) + Len(t)
        /\ \A i \in 1..(Len(n) + Len(t)) :
             (n \o t)[i] = IF i <= Len(n) THEN n[i] ELSE t[i - Len(n)]
    BY <1>4, ConcatProperties, Zenon
  <2> HIDE DEF m
  <2>2. QED BY <1>5, <1>7, <2>1 DEF c
<1> HIDE DEF m
<1>9. \A i \in 1..c : m[i] = n[i] BY <1>1, <1>5, <1>8
<1>10. \A i \in 1..(b - a) : m[c + i] = q[a + i]
  <2>1. TAKE i \in 1..(b - a)
  <2>2. c + i \in 1..(c + (b - a)) /\ ~(c + i <= c) /\ (c + i) - c = i BY <1>1, <1>5
  <2>3. QED BY <1>6, <1>8, <2>2
<1>11. IsPrefix(n, m)
  <2>1. Len(n) <= Len(m) BY <1>1, <1>5, <1>8 DEF c
  <2>2. QED BY <1>8, <1>9, <2>1, PrefixMeans DEF c
<1>12. QED BY <1>8, <1>9, <1>10, <1>11 DEF a, b, c, m

\* Moving there and back.
LEMMA MovedBack ==
  ASSUME NEW o \in Seq(Name), NEW n \in Seq(Name), NEW q \in Seq(Name), IsPrefix(o, q)
  PROVE  Moved(n, o, Moved(o, n, q)) = q
<1> DEFINE a == Len(o)
           b == Len(q)
           c == Len(n)
           m == Moved(o, n, q)
           r == Moved(n, o, m)
<1>1. a \in Nat /\ b \in Nat /\ c \in Nat BY LenProperties
<1>2. a <= b /\ \A i \in 1..a : o[i] = q[i] BY PrefixMeans
<1>3. /\ m \in Seq(Name) /\ Len(m) = c + (b - a) /\ IsPrefix(n, m)
      /\ \A i \in 1..(b - a) : m[c + i] = q[a + i]
  BY MovedProperties, Zenon
<1> HIDE DEF m
<1>4. /\ r \in Seq(Name) /\ Len(r) = a + (Len(m) - c)
      /\ \A i \in 1..a : r[i] = o[i]
      /\ \A i \in 1..(Len(m) - c) : r[a + i] = m[c + i]
  BY <1>3, MovedProperties, ZenonT(60)
<1> HIDE DEF a, b, c, r
<1>5. Len(m) - c = b - a /\ Len(r) = b BY <1>1, <1>2, <1>3, <1>4
<1>6. ASSUME NEW i \in 1..b PROVE r[i] = q[i]
  <2>1. CASE i \in 1..a BY <1>2, <1>4, <2>1
  <2>2. CASE i \notin 1..a
    <3>1. i - a \in 1..(b - a) /\ a + (i - a) = i BY <1>1, <1>2, <2>2
    <3>2. QED BY <1>3, <1>4, <1>5, <3>1, Zenon
  <2>3. QED BY <2>1, <2>2
<1>7. r = q BY <1>4, <1>5, <1>6, SeqEqual DEF b
<1>8. QED BY <1>7 DEF r, m

\* The parent of what moved is where the parent moved.
LEMMA MovedFront ==
  ASSUME NEW o \in Seq(Name), NEW n \in Seq(Name), NEW q \in Seq(Name),
         IsPrefix(o, q), o # q
  PROVE  /\ q # <<>> /\ Moved(o, n, q) # <<>> /\ IsPrefix(o, Front(q))
         /\ Front(Moved(o, n, q)) = Moved(o, n, Front(q))
<1> DEFINE a == Len(o)
           b == Len(q)
           c == Len(n)
           m == Moved(o, n, q)
           d == Moved(o, n, Front(q))
<1>1. a \in Nat /\ b \in Nat /\ c \in Nat BY LenProperties
<1>2. a <= b /\ \A i \in 1..a : o[i] = q[i] BY PrefixMeans
<1>3. a < b
  <2>1. a # b BY <1>2, SeqEqual
  <2>2. QED BY <1>1, <1>2, <2>1
<1>4. q # <<>> BY <1>1, <1>3, EmptySeq
<1>5. IsPrefix(o, Front(q)) BY <1>4, FrontPrefix
<1>6. /\ Front(q) \in Seq(Name) /\ Len(Front(q)) = b - 1
      /\ \A j \in 1..(b - 1) : Front(q)[j] = q[j]
  BY <1>4, FrontProperties
<1>7. /\ m \in Seq(Name) /\ Len(m) = c + (b - a)
      /\ \A i \in 1..c : m[i] = n[i]
      /\ \A i \in 1..(b - a) : m[c + i] = q[a + i]
  BY MovedProperties, ZenonT(30)
<1>8. /\ d \in Seq(Name) /\ Len(d) = c + (Len(Front(q)) - a)
      /\ \A i \in 1..c : d[i] = n[i]
      /\ \A i \in 1..(Len(Front(q)) - a) : d[c + i] = Front(q)[a + i]
  BY <1>5, <1>6, MovedProperties, ZenonT(60)
<1> HIDE DEF a, b, c, m, d
<1>9. m # <<>> BY <1>1, <1>3, <1>7, EmptySeq
<1>10. /\ Front(m) \in Seq(Name) /\ Len(Front(m)) = Len(m) - 1
       /\ \A j \in 1..(Len(m) - 1) : Front(m)[j] = m[j]
  BY <1>7, <1>9, FrontProperties, Zenon
<1> DEFINE k == c + (b - 1 - a)
<1>11. k \in Nat /\ Len(d) = k /\ Len(Front(m)) = k /\ Len(m) - 1 = k
  BY <1>1, <1>3, <1>6, <1>7, <1>8, <1>10
<1>12. ASSUME NEW i \in 1..k PROVE Front(m)[i] = d[i]
  <2>1. Front(m)[i] = m[i] BY <1>10, <1>11, Zenon
  <2>2. CASE i \in 1..c BY <1>7, <1>8, <2>1, <2>2
  <2>3. CASE i \notin 1..c
    <3> DEFINE j == i - c
    <3>1. j \in 1..(b - 1 - a) /\ c + j = i BY <1>1, <1>3, <2>3
    <3>2. j \in 1..(b - a) /\ a + j \in 1..(b - 1) BY <1>1, <1>3, <3>1
    <3> HIDE DEF j
    <3>3. m[i] = q[a + j] BY <1>7, <3>1, <3>2
    <3>4. d[i] = Front(q)[a + j] BY <1>6, <1>8, <3>1
    <3>5. QED BY <1>6, <2>1, <3>2, <3>3, <3>4
  <2>4. QED BY <2>2, <2>3
<1> HIDE DEF k
<1>13. Front(m) = d BY <1>8, <1>10, <1>11, <1>12, SeqEqual
<1>14. QED BY <1>4, <1>5, <1>9, <1>13 DEF m, d

\* h holds the nodes of f under o at their new places under n, and the nodes
\* of g elsewhere.
Grafted(h, g, f, o, n) ==
  LET H == {Moved(o, n, q) : q \in Below(f, o)}
  IN  /\ h = [q \in DOMAIN g \cup H |-> h[q]]
      /\ DOMAIN h = DOMAIN g \cup H
      /\ \A q \in Below(f, o) : h[Moved(o, n, q)] = f[q]
      /\ \A q \in DOMAIN g : q \notin H => h[q] = g[q]
      /\ \A m \in H : IsPrefix(n, m) /\ m \in Seq(Name)

LEMMA GraftProperties ==
  ASSUME NEW f, NEW g, DOMAIN f \subseteq Seq(Name),
         NEW o \in Seq(Name), NEW n \in Seq(Name)
  PROVE  Grafted(Graft(g, f, o, n), g, f, o, n)
<1> DEFINE h == Graft(g, f, o, n)
           H == {Moved(o, n, q) : q \in Below(f, o)}
           home == [m \in H |-> f[Moved(n, o, m)]]
<1>1. h = [q \in DOMAIN g \cup DOMAIN home |-> IF q \in DOMAIN home THEN home[q] ELSE g[q]]
  BY DEF Graft, Moved
<1>2. DOMAIN home = H OBVIOUS
<1>3. \A q \in Below(f, o) : q \in DOMAIN f /\ q \in Seq(Name) /\ IsPrefix(o, q) BY DEF Below
<1>4. \A q \in Below(f, o) : Moved(n, o, Moved(o, n, q)) = q BY <1>3, MovedBack
<1>5. \A q \in Below(f, o) : home[Moved(o, n, q)] = f[q] BY <1>4
<1>6. \A m \in H : IsPrefix(n, m) /\ m \in Seq(Name) BY <1>3, MovedProperties
<1>7. \A q \in Below(f, o) : Moved(o, n, q) \in H OBVIOUS
<1> HIDE DEF home, H, h
<1>8. \A q \in DOMAIN g \cup H : h[q] = IF q \in H THEN home[q] ELSE g[q] BY <1>1, <1>2
<1>9. h = [q \in DOMAIN g \cup H |-> h[q]] /\ DOMAIN h = DOMAIN g \cup H BY <1>1, <1>2
<1>10. \A q \in Below(f, o) : h[Moved(o, n, q)] = f[q] BY <1>5, <1>7, <1>8
<1>11. Grafted(h, g, f, o, n) BY <1>6, <1>8, <1>9, <1>10, Zenon DEF Grafted, H
<1>12. QED BY <1>11 DEF h

\* A subtree put into a directory at a place where there is nothing.
LEMMA GraftTree ==
  ASSUME NEW f, NEW g, Tree(f), Tree(g), NEW o \in DOMAIN f, NEW n \in Seq(Name),
         n # <<>>, n \notin DOMAIN g, IsDir(g, Front(n))
  PROVE  Tree(Graft(g, f, o, n))
<1> DEFINE h == Graft(g, f, o, n)
           H == {Moved(o, n, q) : q \in Below(f, o)}
<1>1. /\ DOMAIN f \subseteq Seq(Name) /\ DOMAIN g \subseteq Seq(Name) /\ o \in Seq(Name)
      /\ \A q \in Below(f, o) : q \in DOMAIN f /\ q \in Seq(Name) /\ IsPrefix(o, q)
  BY DEF Tree, Below
<1>2. /\ h = [q \in DOMAIN g \cup H |-> h[q]]
      /\ DOMAIN h = DOMAIN g \cup H
      /\ \A q \in Below(f, o) : h[Moved(o, n, q)] = f[q]
      /\ \A q \in DOMAIN g : q \notin H => h[q] = g[q]
      /\ \A m \in H : IsPrefix(n, m) /\ m \in Seq(Name)
  <2>1. Grafted(h, g, f, o, n) BY <1>1, GraftProperties
  <2> HIDE DEF h
  <2>2. QED BY <2>1, Zenon DEF Grafted
<1>3. \A m \in H : \E q \in Below(f, o) : m = Moved(o, n, q) OBVIOUS
<1>4. \A q \in Below(f, o) : Moved(o, n, q) \in H OBVIOUS
<1>5. \A q \in DOMAIN g : q \notin H BY <1>1, <1>2, PrefixClosed
<1> HIDE DEF h, H
<1>6. \A q \in DOMAIN g : h[q] = g[q] BY <1>2, <1>5
<1>7. \A q \in DOMAIN g : IsDir(g, q) => IsDir(h, q) BY <1>2, <1>6 DEF IsDir
<1>8. h = [q \in DOMAIN h |-> h[q]] BY <1>2
<1>9. DOMAIN h \subseteq Seq(Name) BY <1>1, <1>2
<1>10. ASSUME NEW q \in DOMAIN h PROVE h[q].kind \in Kinds
  <2>1. CASE q \in DOMAIN g BY <1>6, <2>1 DEF Tree
  <2>2. CASE q \in H
    <3>1. PICK r \in Below(f, o) : q = Moved(o, n, r) BY <1>3, <2>2
    <3>2. h[q] = f[r] /\ r \in DOMAIN f BY <1>1, <1>2, <3>1, Zenon
    <3>3. QED BY <3>2 DEF Tree
  <2>3. QED BY <1>2, <2>1, <2>2
<1>11. IsDir(h, <<>>) BY <1>7 DEF Tree, IsDir
<1>12. ASSUME NEW m \in DOMAIN h, m # <<>> PROVE IsDir(h, Front(m))
  <2>1. CASE m \in DOMAIN g
    <3>1. IsDir(g, Front(m)) BY <1>12, <2>1 DEF Tree
    <3>2. QED BY <1>7, <3>1 DEF IsDir
  <2>2. CASE m \in H
    <3>1. PICK q \in Below(f, o) : m = Moved(o, n, q) BY <1>3, <2>2
    <3>2. CASE q = o
      <4>1. m = n
        <5>1. /\ m \in Seq(Name) /\ Len(m) = Len(n) + (Len(o) - Len(o))
              /\ \A i \in 1..Len(n) : m[i] = n[i]
          <6>1. IsPrefix(o, o) /\ m = Moved(o, n, o) BY <1>1, <3>1, <3>2
          <6>2. /\ Moved(o, n, o) \in Seq(Name)
                /\ Len(Moved(o, n, o)) = Len(n) + (Len(o) - Len(o))
                /\ \A i \in 1..Len(n) : Moved(o, n, o)[i] = n[i]
            BY <1>1, <6>1, MovedProperties, ZenonT(60)
          <6>3. QED BY <6>1, <6>2
        <5>2. Len(n) \in Nat /\ Len(o) \in Nat BY <1>1, LenProperties
        <5>3. Len(m) = Len(n) BY <5>1, <5>2
        <5>4. QED BY <5>1, <5>3, SeqEqual
      <4>2. QED BY <1>7, <4>1 DEF IsDir
    <3>3. CASE q # o
      <4>1. q # <<>> /\ IsPrefix(o, Front(q)) /\ Front(m) = Moved(o, n, Front(q))
        BY <1>1, <3>1, <3>3, MovedFront
      <4>2. IsDir(f, Front(q)) BY <1>1, <4>1 DEF Tree
      <4>3. Front(q) \in Below(f, o) BY <4>1, <4>2 DEF Below, IsDir
      <4>4. h[Front(m)] = f[Front(q)] /\ Front(m) \in DOMAIN h BY <1>2, <1>4, <4>1, <4>3, Zenon
      <4>5. QED BY <4>2, <4>4 DEF IsDir
    <3>4. QED BY <3>2, <3>3
  <2>3. QED BY <1>2, <2>1, <2>2
<1>13. Tree(h) BY <1>8, <1>9, <1>10, <1>11, <1>12 DEF Tree
<1>14. QED BY <1>13 DEF h

(***************************************************************************)
(* The methods take trees to trees.                                        *)
(***************************************************************************)
LEMMA MkdirTree ==
  ASSUME NEW f, Tree(f), NEW path \in Seq(STRING)
  PROVE  Tree(mkdir(f, path).fs)
<1> DEFINE p == split_path(path)
           err == mkdir(f, path).res
<1>1. mkdir(f, path).fs = IF err = "Ok" THEN Put(f, p, Dir) ELSE f BY DEF mkdir, Try
<1>2. ASSUME err = "Ok" PROVE Tree(Put(f, p, Dir))
  <2>1. parent(f, path) = "Ok" /\ p \notin DOMAIN f BY <1>2 DEF mkdir, Try
  <2>2. p \in Seq(Name) /\ p # <<>> /\ IsDir(f, Front(p)) BY <2>1, ParentOk
  <2>3. Dir.kind = "dir" BY DEF Dir
  <2> HIDE DEF p, err
  <2>4. QED BY <2>2, <2>3, PutTree DEF Kinds
<1> HIDE DEF p, err
<1>3. QED BY <1>1, <1>2

\* What the checks of touch, write and append establish.
LEMMA WritableOk ==
  ASSUME NEW f, Tree(f), NEW path \in Seq(STRING), writable(f, path) = "Ok"
  PROVE  LET p == split_path(path)
         IN  p \in Seq(Name) /\ p # <<>> /\ IsDir(f, Front(p)) /\ ~IsDir(f, p)
<1>1. parent(f, path) = "Ok" /\ ~IsDir(f, split_path(path)) BY DEF writable
<1>2. QED BY <1>1, ParentOk

LEMMA FileTree ==
  ASSUME NEW f, Tree(f), NEW path \in Seq(STRING), writable(f, path) = "Ok", NEW data
  PROVE  Tree(Put(f, split_path(path), File(data)))
<1> DEFINE p == split_path(path)
<1>1. p \in Seq(Name) /\ p # <<>> /\ IsDir(f, Front(p)) /\ ~IsDir(f, p) BY WritableOk
<1>2. File(data).kind = "file" BY DEF File
<1> HIDE DEF p
<1>3. Tree(Put(f, p, File(data))) BY <1>1, <1>2, PutTree DEF Kinds
<1>4. QED BY <1>3 DEF p

LEMMA WriteTree ==
  ASSUME NEW f, Tree(f), NEW path \in Seq(STRING), NEW data
  PROVE  /\ Tree(touch(f, path).fs)
         /\ Tree(write(f, path, data).fs)
         /\ Tree(append(f, path, data).fs)
<1> DEFINE p == split_path(path)
<1>1. ASSUME NEW d, writable(f, path) = "Ok" PROVE Tree(Put(f, p, File(d))) BY <1>1, FileTree
<1> HIDE DEF p
<1>2. Tree(touch(f, path).fs) BY <1>1 DEF touch, Try, p
<1>3. Tree(write(f, path, data).fs) BY <1>1 DEF write, Try, p
<1>4. Tree(append(f, path, data).fs)
  <2> DEFINE old == IF p \in DOMAIN f THEN f[p].data ELSE <<>>
  <2>1. append(f, path, data) = Try(f, writable(f, path), Put(f, p, File(old \o data)))
    BY DEF append, p
  <2> HIDE DEF old
  <2>2. QED BY <1>1, <2>1 DEF Try
<1>5. QED BY <1>2, <1>3, <1>4

LEMMA RemoveTree ==
  ASSUME NEW f, Tree(f), NEW path \in Seq(STRING)
  PROVE  Tree(remove(f, path).fs)
<1> DEFINE p == split_path(path)
<1>1. remove(f, path).fs = f \/ (parent(f, path) = "Ok" /\ remove(f, path).fs = Drop(f, p))
  BY DEF remove, Try
<1>2. ASSUME parent(f, path) = "Ok" PROVE Tree(Drop(f, p))
  <2>1. p \in Seq(Name) /\ p # <<>> BY <1>2, ParentOk
  <2> HIDE DEF p
  <2>2. QED BY <2>1, DropTree
<1>3. QED BY <1>1, <1>2

\* What a rename r leaves: the tree f, the tree g without the node o, or that
\* tree with the node at its new place n.
RenameEnds(f, o, n, g, r) ==
  \/ r.fs = f /\ r.res # "Ok"
  \/ /\ o \in DOMAIN f /\ o \in Seq(Name) /\ o # <<>> /\ Tree(g)
     /\ \/ r.fs = g /\ r.res # "Ok"
        \/ /\ n \in Seq(Name) /\ n # <<>> /\ n \notin DOMAIN g /\ IsDir(g, Front(n))
           /\ r.fs = Graft(g, f, o, n) /\ r.res = "Ok"

\* rename ends in one of these ways.
LEMMA RenameOutcome ==
  ASSUME NEW f, Tree(f), NEW old \in Seq(STRING), NEW to \in Seq(STRING)
  PROVE  RenameEnds(f, split_path(old), split_path(to), Drop(f, split_path(old)),
                    rename(f, old, to))
<1> DEFINE o == split_path(old)
           n == split_path(to)
           g == Drop(f, o)
           r == rename(f, old, to)
           syntax == \A p \in {old, to} : IsAbsolute(p) /\ split_path(p) # <<>>
           taken == IF ~syntax THEN "InvalidPath"
                    ELSE IF parent(f, old) = "Ok" /\ o \notin DOMAIN f THEN "NotFound"
                    ELSE parent(f, old)
           placed == IF parent(g, to) = "Ok" /\ n \in DOMAIN g THEN "AlreadyExists"
                     ELSE parent(g, to)
<1>1. r = IF taken # "Ok" THEN Try(f, taken, f) ELSE Try(g, placed, Graft(g, f, o, n))
  BY DEF rename
<1>2. ASSUME taken = "Ok"
      PROVE  o \in DOMAIN f /\ o \in Seq(Name) /\ o # <<>> /\ Tree(g)
  <2>1. parent(f, old) = "Ok" /\ o \in DOMAIN f BY <1>2
  <2>2. o \in Seq(Name) /\ o # <<>> BY <2>1, ParentOk
  <2> HIDE DEF o
  <2>3. QED BY <2>1, <2>2, DropTree
<1>3. ASSUME taken = "Ok", placed = "Ok"
      PROVE  n \in Seq(Name) /\ n # <<>> /\ n \notin DOMAIN g /\ IsDir(g, Front(n))
  <2>1. parent(g, to) = "Ok" /\ n \notin DOMAIN g BY <1>3
  <2>2. Tree(g) BY <1>2, <1>3
  <2> HIDE DEF g
  <2>3. QED BY <2>1, <2>2, ParentOk
<1> HIDE DEF taken, placed, r, g, o, n
<1>4. RenameEnds(f, o, n, g, r)
  <2>1. CASE taken # "Ok"
    <3>1. r.fs = f /\ r.res # "Ok" BY <1>1, <2>1 DEF Try
    <3>2. QED BY <3>1 DEF RenameEnds
  <2>2. CASE taken = "Ok" /\ placed # "Ok"
    <3>1. r.fs = g /\ r.res # "Ok" BY <1>1, <2>2 DEF Try
    <3>2. QED BY <1>2, <2>2, <3>1 DEF RenameEnds
  <2>3. CASE taken = "Ok" /\ placed = "Ok"
    <3>1. r.fs = Graft(g, f, o, n) /\ r.res = "Ok" BY <1>1, <2>3 DEF Try
    <3>2. QED BY <1>2, <1>3, <2>3, <3>1 DEF RenameEnds
  <2>4. QED BY <2>1, <2>2, <2>3
<1>5. QED BY <1>4, Zenon DEF r, g, o, n

\* rename leaves a tree.
LEMMA RenameTree ==
  ASSUME NEW f, Tree(f), NEW old \in Seq(STRING), NEW to \in Seq(STRING)
  PROVE  Tree(rename(f, old, to).fs)
<1> DEFINE o == split_path(old)
           n == split_path(to)
           g == Drop(f, o)
           r == rename(f, old, to)
<1>1. RenameEnds(f, o, n, g, r) BY RenameOutcome, Zenon
<1> HIDE DEF o, n, g, r
<1>2. QED BY <1>1, GraftTree DEF r, RenameEnds

\* What is in a tree is found.
LEMMA NodeFound ==
  ASSUME NEW f, Tree(f), NEW parts \in DOMAIN f
  PROVE  node(f, parts) = "Ok"
<1> DEFINE n == Len(parts)
           known == {i \in 0..n : \A j \in 0..i : SubSeq(parts, 1, j) \in DOMAIN f}
           k == CHOOSE i \in known : \A j \in known : j <= i
<1>1. parts \in Seq(Name) /\ n \in Nat BY LenProperties DEF Tree
<1>2. ASSUME NEW j \in 0..n PROVE SubSeq(parts, 1, j) \in DOMAIN f
  <2> DEFINE p == SubSeq(parts, 1, j)
  <2>1. p \in Seq(Name) /\ Len(p) = j /\ \A i \in 1..j : p[i] = parts[i] BY <1>1, Upto
  <2> HIDE DEF p
  <2>2. IsPrefix(p, parts) BY <1>1, <2>1, PrefixMeans
  <2>3. p \in DOMAIN f BY <2>1, <2>2, PrefixClosed
  <2>4. QED BY <2>3 DEF p
<1>3. n \in known /\ \A j \in known : j <= n /\ j \in Nat
  <2>1. \A j \in 0..n : j <= n /\ j \in Nat BY <1>1
  <2>2. n \in 0..n BY <1>1
  <2> HIDE DEF n
  <2>3. QED BY <1>2, <2>1, <2>2
<1>4. \E i \in known : \A j \in known : j <= i BY <1>3
<1>5. k \in known /\ n <= k
  <2> HIDE DEF known
  <2>1. k \in known /\ \A j \in known : j <= k BY <1>4
  <2>2. QED BY <1>3, <2>1
<1>6. k = n
  <2> HIDE DEF k, known
  <2>1. QED BY <1>1, <1>3, <1>5
<1>7. node(f, parts) = IF SubSeq(parts, 1, k) = parts THEN "Ok"
                       ELSE IF IsFile(f, SubSeq(parts, 1, k)) THEN "NotDirectory" ELSE "NotFound"
  BY DEF node
<1>8. SubSeq(parts, 1, n) = parts BY <1>1, SubSeqFull
<1> HIDE DEF k
<1>9. QED BY <1>6, <1>7, <1>8

\* A subtree that moves covers no node that stays: what the new tree holds at
\* a place of the old one is what was there.
LEMMA RenameKeeps ==
  ASSUME NEW f, Tree(f), NEW old \in Seq(STRING), NEW to \in Seq(STRING),
         NEW p \in DOMAIN f, p \in DOMAIN rename(f, old, to).fs
  PROVE  rename(f, old, to).fs[p] = f[p]
<1> DEFINE o == split_path(old)
           n == split_path(to)
           g == Drop(f, o)
           r == rename(f, old, to)
           H == {Moved(o, n, q) : q \in Below(f, o)}
<1>0. RenameEnds(f, o, n, g, r) BY RenameOutcome, Zenon
<1>2. DOMAIN g = {q \in DOMAIN f : ~IsPrefix(o, q)} /\ \A q \in DOMAIN g : g[q] = f[q]
  BY DEF Drop, Below
<1> HIDE DEF o, n, g, r
<1>1. \/ r.fs = f
      \/ /\ o \in DOMAIN f /\ o \in Seq(Name) /\ o # <<>> /\ Tree(g)
         /\ \/ r.fs = g
            \/ /\ n \in Seq(Name) /\ n # <<>> /\ n \notin DOMAIN g /\ IsDir(g, Front(n))
               /\ r.fs = Graft(g, f, o, n)
  BY <1>0, Zenon DEF RenameEnds
<1>3. CASE r.fs = f BY <1>3 DEF r
<1>4. CASE r.fs = g BY <1>2, <1>4 DEF r
<1>5. ASSUME o \in DOMAIN f, o \in Seq(Name), o # <<>>, Tree(g),
             n \in Seq(Name), n # <<>>, n \notin DOMAIN g, IsDir(g, Front(n)),
             r.fs = Graft(g, f, o, n)
      PROVE  r.fs[p] = f[p]
  <2> DEFINE h == Graft(g, f, o, n)
  <2>1. p \in Seq(Name) /\ DOMAIN f \subseteq Seq(Name) BY DEF Tree
  <2>2. Grafted(h, g, f, o, n) BY <1>5, <2>1, GraftProperties
  <2> HIDE DEF h
  <2>3. /\ DOMAIN h = DOMAIN g \cup H
        /\ \A q \in Below(f, o) : h[Moved(o, n, q)] = f[q]
        /\ \A q \in DOMAIN g : q \notin H => h[q] = g[q]
        /\ \A m \in H : IsPrefix(n, m) /\ m \in Seq(Name)
    BY <2>2, Zenon DEF Grafted
  <2>4. \A m \in H : \E q \in Below(f, o) : m = Moved(o, n, q) OBVIOUS
  <2> HIDE DEF H
  <2>5. p \in DOMAIN h BY <1>5 DEF h, r
  <2>6. CASE p \notin H BY <1>2, <1>5, <2>3, <2>5, <2>6 DEF h
  <2>7. CASE p \in H
    <3>1. PICK q \in Below(f, o) : p = Moved(o, n, q) BY <2>4, <2>7
    <3>2. q \in DOMAIN f /\ q \in Seq(Name) /\ IsPrefix(o, q) BY <2>1 DEF Below
    <3>3. IsPrefix(n, p) BY <2>3, <2>7
    <3>4. p \notin DOMAIN g BY <1>5, <3>3, PrefixClosed
    <3>5. IsPrefix(o, p) BY <1>2, <3>4
    <3>6. Len(o) \in Nat /\ Len(n) \in Nat /\ Len(p) \in Nat BY <1>5, <2>1, LenProperties
    <3>7. /\ Len(o) <= Len(p) /\ \A i \in 1..Len(o) : o[i] = p[i]
          /\ Len(n) <= Len(p) /\ \A i \in 1..Len(n) : n[i] = p[i]
      BY <1>5, <2>1, <3>3, <3>5, PrefixMeans
    <3>8. n = o
      <4>1. CASE Len(o) <= Len(n)
        <5>1. IsPrefix(o, n)
          <6>1. \A i \in 1..Len(o) : i \in 1..Len(n) BY <3>6, <4>1
          <6>2. QED BY <1>5, <3>7, <4>1, <6>1, PrefixMeans
        <5>2. ~IsPrefix(o, Front(n)) BY <1>2, <1>5 DEF IsDir
        <5>3. QED BY <1>5, <5>1, <5>2, FrontPrefix
      <4>2. CASE ~(Len(o) <= Len(n))
        <5>1. n \in DOMAIN f BY <1>5, <3>3, PrefixClosed
        <5>2. ~IsPrefix(o, n) BY <4>2 DEF IsPrefix
        <5>3. QED BY <1>2, <1>5, <5>1, <5>2
      <4>3. QED BY <4>1, <4>2
    <3>9. p = q
      <4>1. /\ Len(Moved(o, o, q)) = Len(o) + (Len(q) - Len(o))
            /\ \A i \in 1..Len(o) : Moved(o, o, q)[i] = o[i]
            /\ \A i \in 1..(Len(q) - Len(o)) : Moved(o, o, q)[Len(o) + i] = q[Len(o) + i]
        BY <1>5, <3>2, MovedProperties, ZenonT(60)
      <4>2. Len(q) \in Nat /\ Len(o) <= Len(q) /\ \A i \in 1..Len(o) : o[i] = q[i]
        BY <1>5, <3>2, LenProperties, PrefixMeans
      <4>3. Len(p) = Len(q) BY <3>1, <3>6, <3>8, <4>1, <4>2
      <4>4. ASSUME NEW i \in 1..Len(q) PROVE p[i] = q[i]
        <5>1. CASE i \in 1..Len(o) BY <3>7, <4>2, <5>1
        <5>2. CASE i \notin 1..Len(o)
          <6>1. i - Len(o) \in 1..(Len(q) - Len(o)) /\ Len(o) + (i - Len(o)) = i
            BY <3>6, <4>2, <5>2
          <6>2. QED BY <3>1, <3>8, <4>1, <6>1
        <5>3. QED BY <5>1, <5>2
      <4>5. QED BY <2>1, <3>2, <4>3, <4>4, SeqEqual
    <3>10. QED BY <1>5, <2>3, <3>1, <3>9, Zenon DEF h
  <2>8. QED BY <2>6, <2>7
<1>6. QED BY <1>1, <1>3, <1>4, <1>5 DEF r

(***************************************************************************)
(* What files hold.                                                        *)
(***************************************************************************)
\* The files of f hold elements of B.
Typed(f, B) == \A p \in DOMAIN f : f[p].data \in Seq(B)

LEMMA PutTyped ==
  ASSUME NEW B, NEW f, Typed(f, B), NEW p, NEW n, n.data \in Seq(B)
  PROVE  Typed(Put(f, p, n), B)
BY DEF Typed, Put

\* Every method leaves files of bytes.
LEMMA MethodsTyped ==
  ASSUME NEW B, NEW f, Tree(f), Typed(f, B), NEW path \in Seq(STRING),
         NEW to \in Seq(STRING), NEW data \in Seq(B)
  PROVE  /\ Typed(mkdir(f, path).fs, B)
         /\ Typed(touch(f, path).fs, B)
         /\ Typed(write(f, path, data).fs, B)
         /\ Typed(append(f, path, data).fs, B)
         /\ Typed(remove(f, path).fs, B)
         /\ Typed(rename(f, path, to).fs, B)
<1> DEFINE p == split_path(path)
<1>1. <<>> \in Seq(B) BY EmptySeq
<1>2. Dir.data = <<>> /\ \A d : File(d).data = d BY DEF Dir, File
<1> HIDE DEF p
<1>3. Typed(mkdir(f, path).fs, B)
  <2>1. Typed(Put(f, p, Dir), B) BY <1>1, <1>2, PutTyped, Zenon
  <2>2. QED BY <2>1 DEF mkdir, Try, p
<1>4. Typed(touch(f, path).fs, B)
  <2>1. Typed(Put(f, p, File(<<>>)), B) BY <1>1, <1>2, PutTyped, Zenon
  <2>2. QED BY <2>1 DEF touch, Try, p
<1>5. Typed(write(f, path, data).fs, B)
  <2>1. Typed(Put(f, p, File(data)), B) BY <1>1, <1>2, PutTyped
  <2>2. QED BY <2>1 DEF write, Try, p
<1>6. Typed(append(f, path, data).fs, B)
  <2> DEFINE old == IF p \in DOMAIN f THEN f[p].data ELSE <<>>
  <2>1. old \in Seq(B) BY <1>1 DEF Typed
  <2>2. append(f, path, data) = Try(f, writable(f, path), Put(f, p, File(old \o data)))
    BY DEF append, p
  <2> HIDE DEF old
  <2>3. old \o data \in Seq(B) BY <2>1, ConcatProperties
  <2>4. Typed(Put(f, p, File(old \o data)), B) BY <1>2, <2>3, PutTyped, Zenon
  <2>5. QED BY <2>2, <2>4 DEF Try
<1>7. ASSUME NEW q PROVE Typed(Drop(f, q), B) BY DEF Typed, Drop
<1>8. Typed(remove(f, path).fs, B) BY <1>7 DEF remove, Try
<1>9. Typed(rename(f, path, to).fs, B)
  <2> DEFINE o == split_path(path)
             n == split_path(to)
             g == Drop(f, o)
             r == rename(f, path, to)
  <2>0. RenameEnds(f, o, n, g, r) BY <1>1, RenameOutcome, Zenon
  <2>2. Typed(g, B) BY <1>7
  <2> HIDE DEF o, n, g, r
  <2>1. \/ r.fs = f \/ r.fs = g
        \/ n \in Seq(Name) /\ o \in Seq(Name) /\ r.fs = Graft(g, f, o, n)
    BY <2>0, Zenon DEF RenameEnds
  <2>3. ASSUME n \in Seq(Name), o \in Seq(Name) PROVE Typed(Graft(g, f, o, n), B)
    <3> DEFINE h == Graft(g, f, o, n)
               H == {Moved(o, n, q) : q \in Below(f, o)}
    <3>1. Grafted(h, g, f, o, n) BY <2>3, GraftProperties DEF Tree
    <3> HIDE DEF h
    <3>2. /\ DOMAIN h = DOMAIN g \cup H
          /\ \A q \in Below(f, o) : h[Moved(o, n, q)] = f[q] /\ q \in DOMAIN f
          /\ \A q \in DOMAIN g : q \notin H => h[q] = g[q]
      BY <3>1 DEF Grafted, Below
    <3>3. \A m \in H : \E q \in Below(f, o) : m = Moved(o, n, q) OBVIOUS
    <3> HIDE DEF H
    <3>4. ASSUME NEW m \in DOMAIN h PROVE h[m].data \in Seq(B)
      <4>1. CASE m \in H
        <5>1. PICK q \in Below(f, o) : m = Moved(o, n, q) BY <3>3, <4>1
        <5>2. h[m] = f[q] /\ q \in DOMAIN f BY <3>2, <5>1
        <5>3. QED BY <5>2 DEF Typed
      <4>2. CASE m \notin H BY <2>2, <3>2, <4>2 DEF Typed
      <4>3. QED BY <4>1, <4>2
    <3>5. Typed(h, B) BY <3>4 DEF Typed
    <3>6. QED BY <3>5 DEF h
  <2>4. QED BY <2>1, <2>2, <2>3 DEF r
<1>10. QED BY <1>3, <1>4, <1>5, <1>6, <1>8, <1>9

\* RamFs::new makes a tree of empty directories.
LEMMA NewTree == Tree(new) /\ \A p \in DOMAIN new : new[p].data = <<>>
<1> DEFINE D == {<<>>} \cup {<<name>> : name \in Seed}
<1>1. new = [p \in D |-> Dir] BY DEF new
<1>2. Dir.kind = "dir" /\ Dir.data = <<>> BY DEF Dir
<1>3. DOMAIN new = D /\ \A p \in D : new[p] = Dir BY <1>1
<1>4. <<>> \in Seq(Name) /\ Len(<<>>) = 0 BY EmptySeq
<1>5. ASSUME NEW name \in Seed
      PROVE  <<name>> \in Seq(Name) /\ Front(<<name>>) = <<>>
  <2>1. name \in Name BY SeedAssumption, Zenon DEF Name
  <2>2. <<name>> \in Seq(Name) /\ Len(<<name>>) = 1 BY <2>1
  <2>3. Front(<<name>>) = SubSeq(<<name>>, 1, 0) BY <2>2 DEF Front
  <2>4. QED BY <2>2, <2>3, SubSeqEmpty
<1>6. \A p \in D : p \in Seq(Name) /\ (p # <<>> => Front(p) = <<>>) BY <1>4, <1>5, Zenon
<1>7. <<>> \in D OBVIOUS
<1> HIDE DEF D
<1>8. IsDir(new, <<>>) BY <1>2, <1>3, <1>7 DEF IsDir
<1>9. \A p \in DOMAIN new : p # <<>> => IsDir(new, Front(p)) BY <1>3, <1>6, <1>8
<1>10. new = [p \in DOMAIN new |-> new[p]] BY <1>1, <1>3
<1>11. \A p \in DOMAIN new : new[p].kind \in Kinds BY <1>2, <1>3 DEF Kinds
<1>12. DOMAIN new \subseteq Seq(Name) BY <1>3, <1>6
<1>13. Tree(new) BY <1>8, <1>9, <1>10, <1>11, <1>12 DEF Tree
<1>14. QED BY <1>2, <1>3, <1>13
=============================================================================
