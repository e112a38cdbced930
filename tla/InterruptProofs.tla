-------------------------- MODULE InterruptProofs ---------------------------
(***************************************************************************)
(* Proofs about the code that shares state with the interrupt handlers:    *)
(* the shell's jobs, the serial input and the spin lock.                   *)
(*                                                                         *)
(* The jobs, for any words, numbers and bounds: the inductive invariant    *)
(* IInv, one lemma per action, and the properties of Shell that follow     *)
(* from it.  IInv says of both lists of jobs what Shell says of the jobs,  *)
(* and that ids differ from place to place and between the lists.          *)
(*                                                                         *)
(* The input, for every capacity of the ring, size of the UART's queue and *)
(* threshold: no interrupt is lost, and the ring of src/stdio.rs is a      *)
(* queue that gives up its oldest byte when it is full, across every wrap  *)
(* of head and tail.                                                       *)
(*                                                                         *)
(* The lock, for any tasks, locks and nesting order in which no path takes *)
(* a lock that it holds.  The properties of SpinLock lean on each other: a *)
(* lock is free when it is wanted because its owner would be off the       *)
(* processor, which cannot be because IF is off while a guard lives, which *)
(* holds because guards save and restore IF in the order they nest.        *)
(* LockInv states all of it.                                               *)
(***************************************************************************)
EXTENDS Shell, SerialInput, SpinLock, SeqProofs, SequenceTheorems

Jobs == [id : Nat, remaining : Nat, total : Nat, background : BOOLEAN, age : Nat, late : Nat]

\* A list of jobs under way, all in the background or none: ids below n that
\* differ, and every second counted when the poll is l seconds behind.
Sound(s, inBackground, n, l) ==
  /\ s \in Seq(Jobs)
  /\ \A i, j \in 1..Len(s) : s[i].id = s[j].id => i = j
  /\ \A i \in 1..Len(s) :
       /\ s[i].id < n /\ s[i].background = inBackground /\ s[i].remaining > 0
       /\ s[i].remaining + (s[i].age + s[i].late - l) = s[i].total

Has(s, id) == \E i \in 1..Len(s) : s[i].id = id

TypeInv ==
  /\ phase \in {"halt", "poll", "input"}
  /\ line \in Seq(Words)
  /\ nextId \in Nat /\ lag \in 0..MaxLag /\ due \in 0..lag

IInv ==
  /\ TypeInv
  /\ Len(active) <= 1
  /\ Sound(active, FALSE, nextId, lag)
  /\ Sound(jobs, TRUE, nextId, lag)
  /\ \A i \in 1..Len(active) : ~Has(jobs, active[i].id)

\* What NoJobLost says of a list and what a turn of the poll makes of it.
Leave(s, t) == \A i \in 1..Len(s) : \/ Has(t, s[i].id)
                                    \/ s[i].total <= s[i].age + s[i].late

(***************************************************************************)
(* The lists of jobs.                                                      *)
(***************************************************************************)
\* What Sound says of one job of the list.
LEMMA SoundJob ==
  ASSUME NEW s, NEW b, NEW n, NEW l, Sound(s, b, n, l)
  PROVE  /\ s \in Seq(Jobs) /\ Len(s) \in Nat /\ DOMAIN s = 1..Len(s)
         /\ \A i \in 1..Len(s) : s[i] \in Jobs
<1>1. s \in Seq(Jobs) BY DEF Sound
<1>2. QED BY <1>1, LenProperties, ElementOfSeq

\* A job with another age differs in nothing else.
LEMMA WithAge ==
  ASSUME NEW x \in Jobs, NEW a \in Nat, NEW y, y = [x EXCEPT !.age = a]
  PROVE  /\ y \in Jobs /\ y.age = a
         /\ y.id = x.id /\ y.remaining = x.remaining /\ y.total = x.total
         /\ y.background = x.background /\ y.late = x.late
<1>1. y \in Jobs BY DEF Jobs
<1>2. y.age = a BY DEF Jobs
<1>3. y.id = x.id /\ y.remaining = x.remaining /\ y.total = x.total /\ y.late = x.late BY DEF Jobs
<1>4. y.background = x.background BY DEF Jobs
<1>5. QED BY <1>1, <1>2, <1>3, <1>4

\* The same for the seconds it still has to go,
LEMMA WithRemaining ==
  ASSUME NEW x \in Jobs, NEW r \in Nat, NEW y, y = [x EXCEPT !.remaining = r]
  PROVE  /\ y \in Jobs /\ y.remaining = r
         /\ y.id = x.id /\ y.total = x.total /\ y.background = x.background
         /\ y.age = x.age /\ y.late = x.late
<1>1. y \in Jobs BY DEF Jobs
<1>2. y.remaining = r BY DEF Jobs
<1>3. y.id = x.id /\ y.total = x.total /\ y.age = x.age /\ y.late = x.late BY DEF Jobs
<1>4. y.background = x.background BY DEF Jobs
<1>5. QED BY <1>1, <1>2, <1>3, <1>4

\* and for the place it is marked for.
LEMMA WithBackground ==
  ASSUME NEW x \in Jobs, NEW b \in BOOLEAN, NEW y, y = [x EXCEPT !.background = b]
  PROVE  /\ y \in Jobs /\ y.background = b
         /\ y.id = x.id /\ y.remaining = x.remaining /\ y.total = x.total
         /\ y.age = x.age /\ y.late = x.late
<1>1. y \in Jobs BY DEF Jobs
<1>2. y.background = b BY DEF Jobs
<1>3. /\ y.id = x.id /\ y.remaining = x.remaining /\ y.total = x.total
      /\ y.age = x.age /\ y.late = x.late
  BY DEF Jobs
<1>4. QED BY <1>1, <1>2, <1>3

\* A second of the timer: every job is older, the poll is further behind, and
\* the bound on the age is never reached.
LEMMA OlderSound ==
  ASSUME NEW s, NEW b, NEW n \in Nat, NEW l \in Nat, l < MaxLag,
         Sound(s, b, n, l)
  PROVE  /\ Sound(Older(s), b, n, l + 1)
         /\ Len(Older(s)) = Len(s)
         /\ \A i \in 1..Len(s) : Older(s)[i].id = s[i].id
<1> DEFINE t == Older(s)
<1>1. /\ s \in Seq(Jobs) /\ Len(s) \in Nat /\ DOMAIN s = 1..Len(s)
      /\ \A i \in 1..Len(s) : s[i] \in Jobs
  BY SoundJob
<1>2. \A i \in 1..Len(s) :
        /\ t[i] = [s[i] EXCEPT !.age = IF @ < s[i].total + MaxLag THEN @ + 1 ELSE @]
  BY <1>1 DEF Older
<1>3. \A i \in 1..Len(s) :
        /\ t[i] \in Jobs /\ t[i].id = s[i].id /\ t[i].background = s[i].background
        /\ t[i].remaining = s[i].remaining /\ t[i].total = s[i].total /\ t[i].late = s[i].late
        /\ t[i].age = IF s[i].age < s[i].total + MaxLag THEN s[i].age + 1 ELSE s[i].age
  <2>1. TAKE i \in 1..Len(s)
  <2> DEFINE x == s[i]
  <2>2. t[i] = [x EXCEPT !.age = IF x.age < x.total + MaxLag THEN x.age + 1 ELSE x.age]
    BY <1>2
  <2>3. x \in Jobs BY <1>1
  <2> DEFINE a == IF x.age < x.total + MaxLag THEN x.age + 1 ELSE x.age
  <2>4. a \in Nat BY <2>3 DEF Jobs
  <2> HIDE DEF x, t, a
  <2>5. t[i] = [x EXCEPT !.age = a] BY <2>2 DEF a
  <2>6. QED BY <2>3, <2>4, <2>5, WithAge DEF x, a
<1>4. t \in Seq(Jobs) /\ Len(t) = Len(s)
  <2>1. t = [i \in 1..Len(s) |-> t[i]] BY <1>1 DEF Older
  <2> HIDE DEF t
  <2>2. QED BY <1>1, <1>3, <2>1
<1> HIDE DEF t
<1>5. ASSUME NEW i \in 1..Len(s)
      PROVE  /\ t[i].id < n /\ t[i].background = b /\ t[i].remaining > 0
             /\ t[i].remaining + (t[i].age + t[i].late - (l + 1)) = t[i].total
  <2>a. s[i].background = b BY DEF Sound
  <2>1. /\ s[i].id < n /\ s[i].remaining > 0
        /\ s[i].remaining + (s[i].age + s[i].late - l) = s[i].total
    BY DEF Sound
  <2>2. /\ s[i].remaining \in Nat /\ s[i].age \in Nat /\ s[i].late \in Nat
        /\ s[i].total \in Nat
    BY <1>1, Zenon DEF Jobs
  <2>b. MaxLag \in Nat BY ShellBoundsAssumption
  <2>c. /\ \A m \in Nat : l < m => s[i].age < s[i].total + m
        /\ s[i].remaining + ((s[i].age + 1) + s[i].late - (l + 1)) = s[i].total
    <3> DEFINE r == s[i].remaining
               a == s[i].age
               late == s[i].late
               total == s[i].total
    <3>1. r > 0 /\ r + (a + late - l) = total BY <2>1
    <3>2. r \in Nat /\ a \in Nat /\ late \in Nat /\ total \in Nat BY <2>2
    <3> HIDE DEF r, a, late, total
    <3>3. (\A m \in Nat : l < m => a < total + m) /\ r + ((a + 1) + late - (l + 1)) = total
      BY <3>1, <3>2
    <3>4. QED BY <3>3 DEF r, a, late, total
  <2>3. s[i].age < s[i].total + MaxLag BY <2>b, <2>c
  <2>4. /\ t[i].id < n /\ t[i].remaining > 0
        /\ t[i].remaining + (t[i].age + t[i].late - (l + 1)) = t[i].total
    <3>1. /\ t[i].id = s[i].id /\ t[i].remaining = s[i].remaining
          /\ t[i].total = s[i].total /\ t[i].late = s[i].late /\ t[i].age = s[i].age + 1
      BY <1>3, <2>3
    <3>2. QED BY <2>1, <2>c, <3>1
  <2>5. QED BY <1>3, <2>a, <2>4
<1>6. \A i, j \in 1..Len(s) : t[i].id = t[j].id => i = j BY <1>3 DEF Sound
<1>7. QED BY <1>3, <1>4, <1>5, <1>6 DEF Sound, t

\* A second of the poll: the jobs that stay keep their ids and have one
\* second less to go, and only a job in its last second leaves.
LEMMA TickSound ==
  ASSUME NEW s, NEW b, NEW n \in Nat, NEW l \in Nat \ {0},
         Sound(s, b, n, l)
  PROVE  /\ Sound(tick_all(s), b, n, l - 1)
         /\ Len(s) <= 1 => Len(tick_all(s)) <= 1
         /\ \A i \in 1..Len(tick_all(s)) : Has(s, tick_all(s)[i].id)
         /\ Leave(s, tick_all(s))
<1> DEFINE u == [i \in DOMAIN s |-> tick_job(s[i])]
           T == {job \in ToSet(u) : job.remaining = 0}
           t == tick_all(s)
<1>1. /\ s \in Seq(Jobs) /\ Len(s) \in Nat /\ DOMAIN s = 1..Len(s)
      /\ \A i \in 1..Len(s) : s[i] \in Jobs
  BY SoundJob
<1>2. \A i \in 1..Len(s) : s[i].remaining > 0 BY DEF Sound
<1>3. \A i \in 1..Len(s) :
        /\ u[i] \in Jobs /\ u[i].id = s[i].id /\ u[i].background = s[i].background
        /\ u[i].remaining = s[i].remaining - 1 /\ u[i].total = s[i].total
        /\ u[i].late = s[i].late /\ u[i].age = s[i].age
  <2>1. TAKE i \in 1..Len(s)
  <2> DEFINE x == s[i]
  <2>2. u[i] = [x EXCEPT !.remaining = x.remaining - 1]
    <3>1. u[i] = tick_job(x) /\ x.remaining # 0 BY <1>1, <1>2
    <3>2. QED BY <3>1 DEF tick_job
  <2>3. x \in Jobs /\ x.remaining > 0 BY <1>1, <1>2
  <2>4. x.remaining - 1 \in Nat BY <2>3 DEF Jobs
  <2> HIDE DEF x, u
  <2>5. QED BY <2>2, <2>3, <2>4, WithRemaining DEF x
<1>4. u \in Seq(Jobs) /\ Len(u) = Len(s) /\ DOMAIN u = 1..Len(s) BY <1>1, <1>3
<1>5. \A i \in 1..Len(s) : u[i] \in T <=> u[i].remaining = 0 BY <1>4 DEF ToSet
<1>6. t = Without(u, T) BY DEF tick_all
<1> HIDE DEF u, T, t
<1>7. t \in Seq(Jobs) /\ \E h : Picks(h, t, u, Len(u), T) BY <1>4, <1>6, WithoutPicks
<1>8. PICK h : Picks(h, t, u, Len(u), T) BY <1>7
<1>9. /\ Len(t) \in Nat
      /\ h \in [1..Len(t) -> 1..Len(s)]
      /\ \A i, j \in 1..Len(t) : i < j => h[i] < h[j]
      /\ \A i \in 1..Len(t) : t[i] = u[h[i]] /\ t[i] \notin T
      /\ \A k \in 1..Len(s) : u[k] \notin T => \E i \in 1..Len(t) : h[i] = k
  BY <1>4, <1>7, <1>8, LenProperties DEF Picks
<1>10. \A i \in 1..Len(t) : t[i].id = s[h[i]].id BY <1>3, <1>9
<1>11. ASSUME NEW i \in 1..Len(t), NEW j \in 1..Len(t), t[i].id = t[j].id PROVE i = j
  <2>1. h[i] \in 1..Len(s) /\ h[j] \in 1..Len(s) BY <1>9
  <2>2. h[i] = h[j] BY <1>10, <1>11, <2>1 DEF Sound
  <2>3. i \in Nat /\ j \in Nat /\ ~(i < j) /\ ~(j < i) BY <1>1, <1>9, <2>1, <2>2
  <2>4. QED BY <2>3
<1>12. ASSUME NEW i \in 1..Len(t)
       PROVE  /\ t[i].id < n /\ t[i].background = b /\ t[i].remaining > 0
              /\ t[i].remaining + (t[i].age + t[i].late - (l - 1)) = t[i].total
  <2> DEFINE k == h[i]
  <2>1. k \in 1..Len(s) /\ t[i] = u[k] /\ u[k] \notin T BY <1>9
  <2> HIDE DEF k
  <2>a. s[k].background = b BY <2>1 DEF Sound
  <2>2. /\ s[k].id < n /\ s[k].remaining > 0
        /\ s[k].remaining + (s[k].age + s[k].late - l) = s[k].total
    BY <2>1 DEF Sound
  <2>3. /\ s[k].remaining \in Nat /\ s[k].age \in Nat /\ s[k].late \in Nat
        /\ s[k].total \in Nat
    BY <1>1, <2>1, Zenon DEF Jobs
  <2>4. u[k].remaining # 0 BY <1>5, <2>1
  <2>5. /\ t[i].id < n /\ t[i].remaining > 0
        /\ t[i].remaining + (t[i].age + t[i].late - (l - 1)) = t[i].total
    <3>1. /\ t[i].id = s[k].id /\ t[i].remaining = s[k].remaining - 1
          /\ t[i].total = s[k].total /\ t[i].late = s[k].late /\ t[i].age = s[k].age
      BY <1>3, <2>1
    <3>2. t[i].remaining # 0 BY <2>1, <2>4
    <3>3. (s[k].remaining - 1) + (s[k].age + s[k].late - (l - 1)) = s[k].total
      <4> DEFINE r == s[k].remaining
                 a == s[k].age
                 late == s[k].late
                 total == s[k].total
      <4>1. r + (a + late - l) = total BY <2>2
      <4>2. r \in Nat /\ a \in Nat /\ late \in Nat /\ total \in Nat BY <2>3
      <4> HIDE DEF r, a, late, total
      <4>3. (r - 1) + (a + late - (l - 1)) = total BY <4>1, <4>2
      <4>4. QED BY <4>3 DEF r, a, late, total
    <3>4. t[i].remaining > 0 BY <2>3, <3>1, <3>2, <2>2
    <3>5. QED BY <2>2, <3>1, <3>3, <3>4
  <2>6. QED BY <1>3, <2>1, <2>a, <2>5
<1>13. Sound(t, b, n, l - 1) BY <1>7, <1>11, <1>12 DEF Sound
<1>14. ASSUME Len(s) <= 1 PROVE Len(t) <= 1
  <2>1. SUFFICES ASSUME 2 <= Len(t) PROVE FALSE BY <1>9
  <2>2. 1 \in 1..Len(t) /\ 2 \in 1..Len(t) BY <1>9, <2>1
  <2>3. h[1] \in 1..Len(s) /\ h[2] \in 1..Len(s) /\ h[1] < h[2] BY <1>9, <2>2
  <2>4. QED BY <1>1, <1>14, <2>3
<1>15. \A i \in 1..Len(t) : Has(s, t[i].id) BY <1>9, <1>10 DEF Has
<1>16. ASSUME NEW k \in 1..Len(s)
       PROVE  Has(t, s[k].id) \/ s[k].total <= s[k].age + s[k].late
  <2>1. CASE u[k] \in T
    <3>1. s[k].remaining = 1
      <4>1. u[k].remaining = 0 /\ s[k].remaining \in Nat BY <1>1, <1>5, <2>1, Zenon DEF Jobs
      <4>2. QED BY <1>3, <4>1
    <3>2. s[k].remaining + (s[k].age + s[k].late - l) = s[k].total BY DEF Sound
    <3>3. s[k].age \in Nat /\ s[k].late \in Nat /\ s[k].total \in Nat BY <1>1, Zenon DEF Jobs
    <3>4. QED BY <3>1, <3>2, <3>3
  <2>2. CASE u[k] \notin T
    <3>1. PICK i \in 1..Len(t) : h[i] = k BY <1>9, <2>2
    <3>2. QED BY <1>10, <3>1 DEF Has
  <2>3. QED BY <2>1, <2>2
<1>17. QED BY <1>13, <1>14, <1>15, <1>16 DEF t, Leave

\* start_long_job and Ctrl-Z put a job at the end of a list.
LEMMA AppendSound ==
  ASSUME NEW s, NEW b, NEW n, NEW l, Sound(s, b, n, l),
         NEW job \in Jobs, ~Has(s, job.id), job.id < n, job.background = b, job.remaining > 0,
         job.remaining + (job.age + job.late - l) = job.total
  PROVE  /\ Sound(Append(s, job), b, n, l)
         /\ \A id : Has(Append(s, job), id) <=> Has(s, id) \/ id = job.id
<1> DEFINE t == Append(s, job)
           L == Len(s)
<1>1. s \in Seq(Jobs) /\ L \in Nat BY SoundJob
<1>2. /\ t \in Seq(Jobs) /\ Len(t) = L + 1 /\ t[L + 1] = job
      /\ \A i \in 1..L : t[i] = s[i]
  BY <1>1, AppendProperties
<1> HIDE DEF t, L
<1>3. \A i \in 1..(L + 1) : i \in 1..L \/ i = L + 1 BY <1>1
<1>4. L + 1 \in 1..(L + 1) /\ \A i \in 1..L : i \in 1..(L + 1) BY <1>1
<1>5. \A i \in 1..L : s[i].id # job.id BY DEF Has, L
<1>6. \A i, j \in 1..(L + 1) : t[i].id = t[j].id => i = j
  <2>1. \A i, j \in 1..L : s[i].id = s[j].id => i = j BY DEF Sound, L
  <2>2. QED BY <1>2, <1>3, <1>5, <2>1
<1>7. ASSUME NEW i \in 1..(L + 1)
      PROVE  /\ t[i].id < n /\ t[i].background = b /\ t[i].remaining > 0
             /\ t[i].remaining + (t[i].age + t[i].late - l) = t[i].total
  <2>1. CASE i = L + 1 BY <1>2, <2>1
  <2>2. CASE i \in 1..L
    <3>1. t[i] = s[i] BY <1>2, <2>2
    <3>2. /\ s[i].id < n /\ s[i].background = b /\ s[i].remaining > 0
          /\ s[i].remaining + (s[i].age + s[i].late - l) = s[i].total
      BY <2>2 DEF Sound, L
    <3>3. QED BY <3>1, <3>2
  <2>3. QED BY <1>3, <2>1, <2>2
<1>8. Sound(t, b, n, l) BY <1>2, <1>6, <1>7 DEF Sound
<1>9. \A id : Has(t, id) <=> Has(s, id) \/ id = job.id
  BY <1>2, <1>3, <1>4 DEF Has, L
<1>10. QED BY <1>8, <1>9 DEF t

\* fg takes a job out of the list: the others stay, and its id is gone.
LEMMA RemoveSound ==
  ASSUME NEW s, NEW b, NEW n, NEW l, Sound(s, b, n, l), NEW k \in 1..Len(s)
  PROVE  /\ Sound(RemoveAt(s, k), b, n, l)
         /\ \A id : Has(RemoveAt(s, k), id) <=> Has(s, id) /\ id # s[k].id
<1> DEFINE t == RemoveAt(s, k)
           L == Len(s)
           Place(i) == IF i < k THEN i ELSE i + 1
<1> HIDE DEF t, L, Place
<1>1. s \in Seq(Jobs) /\ L \in Nat /\ \A i \in 1..L : s[i] \in Jobs BY SoundJob DEF L
<1>2. /\ t \in Seq(Jobs) /\ Len(t) = L - 1
      /\ \A i \in 1..(L - 1) : t[i] = s[Place(i)]
  <2> DEFINE p == SubSeq(s, 1, k - 1)
             q == SubSeq(s, k + 1, L)
  <2> HIDE DEF p, q
  <2>1. /\ p \in Seq(Jobs) /\ Len(p) = k - 1 /\ \A i \in 1..(k - 1) : p[i] = s[i]
    <3>1. \A i \in 1..(k - 1) : s[i] \in Jobs BY <1>1
    <3>2. /\ p \in Seq(Jobs) /\ Len(p) = IF 1 <= k - 1 THEN (k - 1) - 1 + 1 ELSE 0
          /\ \A i \in 1..((k - 1) - 1 + 1) : p[i] = s[1 + i - 1]
      BY <3>1, SubSeqProperties DEF p
    <3>3. QED BY <3>2
  <2>2. /\ q \in Seq(Jobs) /\ Len(q) = L - k /\ \A i \in 1..(L - k) : q[i] = s[k + i]
    <3>1. k + 1 \in Int /\ L \in Int /\ \A i \in (k + 1)..L : s[i] \in Jobs BY <1>1
    <3>2. /\ q \in Seq(Jobs) /\ Len(q) = IF k + 1 <= L THEN L - (k + 1) + 1 ELSE 0
          /\ \A i \in 1..(L - (k + 1) + 1) : q[i] = s[(k + 1) + i - 1]
      BY <3>1, SubSeqProperties DEF L, q
    <3>3. L - (k + 1) + 1 = L - k /\ \A i \in 1..(L - k) : (k + 1) + i - 1 = k + i BY <1>1
    <3>4. k <= L BY <1>1 DEF L
    <3>5. QED BY <1>1, <3>2, <3>3, <3>4
  <2>3. t = p \o q BY DEF RemoveAt, t, p, q, L
  <2>4. /\ t \in Seq(Jobs) /\ Len(t) = (k - 1) + (L - k)
        /\ \A i \in 1..((k - 1) + (L - k)) : t[i] = IF i <= k - 1 THEN p[i] ELSE q[i - (k - 1)]
    BY <2>1, <2>2, <2>3, ConcatProperties
  <2>5. (k - 1) + (L - k) = L - 1 /\ k \in 1..L BY <1>1 DEF L
  <2>6. ASSUME NEW i \in 1..(L - 1) PROVE t[i] = s[Place(i)]
    <3>1. CASE i < k BY <1>1, <2>1, <2>4, <2>5, <3>1 DEF Place
    <3>2. CASE ~(i < k)
      <4>1. i - (k - 1) \in 1..(L - k) /\ k + (i - (k - 1)) = i + 1 BY <1>1, <2>5, <3>2
      <4>2. t[i] = q[i - (k - 1)] BY <1>1, <2>4, <2>5, <3>2
      <4>3. QED BY <2>2, <3>2, <4>1, <4>2 DEF Place
    <3>3. QED BY <3>1, <3>2
  <2>7. QED BY <2>4, <2>5, <2>6
<1>3. k \in 1..L BY DEF L
<1>4. \A i \in 1..(L - 1) : Place(i) \in 1..L /\ Place(i) # k BY <1>1, <1>3 DEF Place
<1>5. \A i, j \in 1..(L - 1) : Place(i) = Place(j) => i = j BY <1>1, <1>3 DEF Place
<1>6. ASSUME NEW m \in 1..L, m # k PROVE \E i \in 1..(L - 1) : Place(i) = m
  <2>1. CASE m < k
    <3>1. m \in 1..(L - 1) /\ Place(m) = m BY <1>1, <1>3, <2>1 DEF Place
    <3>2. QED BY <3>1
  <2>2. CASE ~(m < k)
    <3>1. m - 1 \in 1..(L - 1) /\ Place(m - 1) = m BY <1>1, <1>3, <1>6, <2>2 DEF Place
    <3>2. QED BY <3>1
  <2>3. QED BY <2>1, <2>2
<1>7. \A i, j \in 1..L : s[i].id = s[j].id => i = j BY DEF Sound, L
<1>8. \A i, j \in 1..(L - 1) : t[i].id = t[j].id => i = j BY <1>2, <1>4, <1>5, <1>7
<1>9. ASSUME NEW i \in 1..(L - 1)
      PROVE  /\ t[i].id < n /\ t[i].background = b /\ t[i].remaining > 0
             /\ t[i].remaining + (t[i].age + t[i].late - l) = t[i].total
  <2> DEFINE m == Place(i)
  <2> HIDE DEF m
  <2>1. t[i] = s[m] /\ m \in 1..L BY <1>2, <1>4 DEF m
  <2>2. /\ s[m].id < n /\ s[m].background = b /\ s[m].remaining > 0
        /\ s[m].remaining + (s[m].age + s[m].late - l) = s[m].total
    BY <2>1 DEF Sound, L
  <2>3. QED BY <2>1, <2>2
<1>10. Sound(t, b, n, l) BY <1>2, <1>8, <1>9 DEF Sound
<1>11. ASSUME NEW id PROVE Has(t, id) <=> Has(s, id) /\ id # s[k].id
  <2>1. ASSUME Has(t, id) PROVE Has(s, id) /\ id # s[k].id
    <3>1. PICK i \in 1..(L - 1) : t[i].id = id BY <1>2, <2>1 DEF Has
    <3>2. Place(i) \in 1..L /\ Place(i) # k /\ s[Place(i)].id = id BY <1>2, <1>4, <3>1
    <3>3. QED BY <1>3, <1>7, <3>2 DEF Has, L
  <2>2. ASSUME Has(s, id), id # s[k].id PROVE Has(t, id)
    <3>1. PICK m \in 1..L : s[m].id = id BY <2>2 DEF Has, L
    <3>2. PICK i \in 1..(L - 1) : Place(i) = m BY <1>6, <2>2, <3>1
    <3>3. QED BY <1>2, <3>1, <3>2 DEF Has
  <2>3. QED BY <2>1, <2>2
<1>12. QED BY <1>10, <1>11 DEF t

\* A larger bound on the ids, when start_long_job has used one.
LEMMA SoundBelow ==
  ASSUME NEW s, NEW b, NEW n \in Nat, NEW l, Sound(s, b, n, l)
  PROVE  Sound(s, b, n + 1, l)
<1>a. \A i \in 1..Len(s) : s[i] \in Jobs BY SoundJob
<1>b. \A i \in 1..Len(s) : s[i].id \in Nat BY <1>a DEF Jobs
<1>c. \A i \in 1..Len(s) : s[i].id < n BY DEF Sound
<1>1. \A i \in 1..Len(s) : s[i].id < n /\ s[i].id \in Nat BY <1>b, <1>c
<1>2. \A i \in 1..Len(s) : s[i].id < n + 1 BY <1>1
<1>3. QED BY <1>2 DEF Sound

\* The empty list, and a list of one job: what fg and a start leave in active.
LEMMA OneSound ==
  ASSUME NEW n, NEW l
  PROVE  /\ \A b : Sound(<<>>, b, n, l)
         /\ \A id : ~Has(<<>>, id)
         /\ Len(<<>>) = 0
         /\ \A job \in Jobs : /\ job.id < n /\ ~job.background /\ job.remaining > 0
                              /\ job.remaining + (job.age + job.late - l) = job.total
                              => Sound(<<job>>, FALSE, n, l)
         /\ \A job : Len(<<job>>) = 1 /\ <<job>>[1] = job
         /\ \A job, id : Has(<<job>>, id) <=> id = job.id
<1>1. <<>> \in Seq(Jobs) /\ Len(<<>>) = 0 /\ 1..0 = {} BY EmptySeq
<1>2. (\A b : Sound(<<>>, b, n, l)) /\ (\A id : ~Has(<<>>, id)) BY <1>1 DEF Sound, Has
<1>3. \A job : Len(<<job>>) = 1 /\ <<job>>[1] = job OBVIOUS
<1>4. \A job, id : Has(<<job>>, id) <=> id = job.id
  <2>1. 1..1 = {1} OBVIOUS
  <2>2. QED BY <1>3, <2>1 DEF Has
<1>5. ASSUME NEW job \in Jobs, job.id < n, ~job.background, job.remaining > 0,
             job.remaining + (job.age + job.late - l) = job.total
      PROVE  Sound(<<job>>, FALSE, n, l)
  <2> DEFINE t == <<job>>
  <2>1. t \in Seq(Jobs) /\ Len(t) = 1 /\ t[1] = job OBVIOUS
  <2> HIDE DEF t
  <2>2. \A i \in 1..1 : i = 1 OBVIOUS
  <2>3. job.background = FALSE BY <1>5 DEF Jobs
  <2>4. QED BY <1>5, <2>1, <2>2, <2>3 DEF Sound, t
<1>6. QED BY <1>1, <1>2, <1>3, <1>4, <1>5, Zenon

(***************************************************************************)
(* One lemma per action: IInv is preserved, and a job that leaves both     *)
(* lists has had its time.                                                 *)
(***************************************************************************)
Stays(s) == \A i \in 1..Len(s) : \/ Has(active', s[i].id) \/ Has(jobs', s[i].id)
                                 \/ /\ s[i].total <= s[i].age + s[i].late
                                    /\ lag' = lag - 1
StepOK == IInv' /\ Stays(active) /\ Stays(jobs)

\* Steps that leave the jobs and the clock alone.
LEMMA SameJobs ==
  ASSUME IInv, UNCHANGED <<active, jobs, nextId, lag>>, TypeInv'
  PROVE  StepOK
<1>1. IInv' BY Zenon DEF IInv
<1>2. Stays(active) /\ Stays(jobs) BY DEF Stays, Has
<1>3. QED BY <1>1, <1>2 DEF StepOK

\* The shell's first state.
LEMMA InitInv == Init => IInv
<1>1. SUFFICES ASSUME Init PROVE IInv OBVIOUS
<1>2. TypeInv
  <2>1. line \in Seq(Words) BY <1>1, EmptySeq DEF Init
  <2>2. QED BY <1>1, <2>1, ShellBoundsAssumption DEF Init, TypeInv
<1>3. active = <<>> /\ jobs = <<>> BY <1>1 DEF Init
<1>4. Sound(<<>>, FALSE, nextId, lag) /\ Sound(<<>>, TRUE, nextId, lag)
  BY OneSound, Zenon
<1>5. Len(active) = 0 /\ 1..0 = {} BY <1>3, OneSound
<1>6. Sound(active, FALSE, nextId, lag) /\ Sound(jobs, TRUE, nextId, lag) BY <1>3, <1>4, Zenon
<1>7. Len(active) <= 1 /\ \A i \in 1..Len(active) : ~Has(jobs, active[i].id) BY <1>5
<1>8. QED BY <1>2, <1>6, <1>7, Zenon DEF IInv

\* The timer's interrupt: every job is a second older.
LEMMA TimerSecondStep == ASSUME IInv, TimerSecond PROVE StepOK
<1>1. /\ lag \in Nat /\ lag < MaxLag /\ nextId \in Nat /\ lag' = lag + 1
      /\ active' = Older(active) /\ jobs' = Older(jobs)
      /\ UNCHANGED <<phase, line, nextId, due>>
  BY DEF IInv, TypeInv, TimerSecond
<1>2. TypeInv'
  <2>1. due \in 0..lag BY DEF IInv, TypeInv
  <2>2. lag' \in 0..MaxLag /\ due' \in 0..lag'
    BY <1>1, <2>1, ShellBoundsAssumption
  <2>3. QED BY <1>1, <2>2 DEF IInv, TypeInv
<1>3. /\ Sound(active', FALSE, nextId, lag + 1) /\ Len(active') = Len(active)
      /\ \A i \in 1..Len(active) : active'[i].id = active[i].id
  BY <1>1, OlderSound, Zenon DEF IInv
<1>4. /\ Sound(jobs', TRUE, nextId, lag + 1) /\ Len(jobs') = Len(jobs)
      /\ \A i \in 1..Len(jobs) : jobs'[i].id = jobs[i].id
  BY <1>1, OlderSound, Zenon DEF IInv
<1>5. \A id : (Has(active, id) => Has(active', id)) /\ (Has(jobs, id) <=> Has(jobs', id))
  BY <1>3, <1>4 DEF Has
<1>6. \A i \in 1..Len(active') : ~Has(jobs', active'[i].id) BY <1>3, <1>5 DEF IInv
<1>7. IInv' BY <1>1, <1>2, <1>3, <1>4, <1>6, Zenon DEF IInv
<1>8. Stays(active) /\ Stays(jobs) BY <1>5, Zenon DEF Stays, Has
<1>9. QED BY <1>7, <1>8 DEF StepOK

\* A turn of poll_jobs's loop.
LEMMA PollSecondStep == ASSUME IInv, PollSecond PROVE StepOK
<1>1. /\ due > 0 /\ due' = due - 1 /\ lag' = lag - 1 /\ nextId \in Nat
      /\ active' = tick_all(active) /\ jobs' = tick_all(jobs)
      /\ UNCHANGED <<phase, line, nextId>>
  BY DEF IInv, TypeInv, PollSecond, tick_one_second
<1>2. lag \in 0..MaxLag /\ due \in 0..lag /\ MaxLag \in Nat
  BY ShellBoundsAssumption DEF IInv, TypeInv
<1>3. lag \in Nat \ {0} BY <1>1, <1>2
<1>4. TypeInv'
  <2>1. lag' \in 0..MaxLag /\ due' \in 0..lag' BY <1>1, <1>2
  <2>2. QED BY <1>1, <2>1 DEF IInv, TypeInv
<1>5. /\ Sound(active', FALSE, nextId, lag - 1) /\ Len(active') <= 1
      /\ \A i \in 1..Len(active') : Has(active, active'[i].id)
      /\ Leave(active, active')
  BY <1>1, <1>3, TickSound, Zenon DEF IInv
<1>6. /\ Sound(jobs', TRUE, nextId, lag - 1)
      /\ \A i \in 1..Len(jobs') : Has(jobs, jobs'[i].id)
      /\ Leave(jobs, jobs')
  BY <1>1, <1>3, TickSound, Zenon DEF IInv
<1>7. \A i \in 1..Len(active') : ~Has(jobs', active'[i].id)
  <2>1. \A id : Has(active, id) => ~Has(jobs, id) BY DEF IInv, Has
  <2>2. \A id : Has(jobs', id) => Has(jobs, id) BY <1>6 DEF Has
  <2>3. QED BY <1>5, <2>1, <2>2
<1>8. IInv' BY <1>1, <1>4, <1>5, <1>6, <1>7, Zenon DEF IInv
<1>9. Stays(active) /\ Stays(jobs) BY <1>1, <1>5, <1>6 DEF Stays, Leave
<1>10. QED BY <1>8, <1>9 DEF StepOK

\* The other steps of the main loop, typing, and the lines that start and move
\* no job.
LEMMA LoopStep ==
  ASSUME IInv, PollJobs \/ PollEnds \/ InputEmpty
  PROVE  StepOK
<1>1. UNCHANGED <<active, jobs, nextId, lag, line>> BY DEF PollJobs, PollEnds, InputEmpty
<1>2. phase' \in {"halt", "poll", "input"} BY DEF PollJobs, PollEnds, InputEmpty
<1>3. due' \in 0..lag
  <2>1. lag \in 0..MaxLag /\ due \in 0..lag /\ MaxLag \in Nat
    BY ShellBoundsAssumption DEF IInv, TypeInv
  <2>2. due' = lag \/ due' = due BY DEF PollJobs, PollEnds, InputEmpty
  <2>3. QED BY <2>1, <2>2
<1>4. TypeInv' BY <1>1, <1>2, <1>3 DEF IInv, TypeInv
<1>5. QED BY <1>1, <1>4, SameJobs

\* handle_byte changes the line only.
LEMMA LineStep ==
  ASSUME IInv, (\E w \in Words : TypeWord(w)) \/ Backspace \/ OtherLine
  PROVE  StepOK
<1>1. UNCHANGED <<phase, active, jobs, nextId, lag, due>> BY DEF TypeWord, Backspace, OtherLine
<1>2. line \in Seq(Words) BY DEF IInv, TypeInv
<1>3. line' \in Seq(Words)
  <2>1. CASE \E w \in Words : TypeWord(w)
    <3>1. PICK w \in Words : line' = Append(line, w) BY <2>1 DEF TypeWord
    <3>2. QED BY <1>2, <3>1, AppendProperties
  <2>2. CASE Backspace
    <3>1. line' = SubSeq(line, 1, Len(line) - 1) BY <2>2 DEF Backspace, Front
    <3>2. Len(line) - 1 \in Int /\ \A i \in 1..(Len(line) - 1) : line[i] \in Words
      <4>1. Len(line) \in Nat /\ \A i \in 1..Len(line) : line[i] \in Words
        BY <1>2, LenProperties, ElementOfSeq
      <4>2. QED BY <4>1
    <3>3. QED BY <3>1, <3>2, SubSeqProperties
  <2>3. CASE OtherLine BY <2>3, EmptySeq DEF OtherLine
  <2>4. QED BY <2>1, <2>2, <2>3
<1>4. TypeInv' BY <1>1, <1>3 DEF IInv, TypeInv
<1>5. QED BY <1>1, <1>4, SameJobs

\* Ctrl-Z: the job in the foreground goes to the end of the list.
LEMMA SuspendStep == ASSUME IInv, Suspend PROVE StepOK
<1> DEFINE x == active[1]
           y == [x EXCEPT !.background = TRUE]
<1> HIDE DEF x, y
<1>1. /\ active # <<>> /\ active' = <<>> /\ jobs' = Append(jobs, y)
      /\ UNCHANGED <<phase, line, nextId, lag, due>>
  BY DEF Suspend, y, x
<1>2. Len(active) = 1 /\ \A i \in 1..Len(active) : i = 1
  <2>1. active \in Seq(Jobs) BY SoundJob, Zenon DEF IInv
  <2>2. Len(active) \in Nat /\ Len(active) # 0 BY <1>1, <2>1, EmptySeq
  <2>a. Len(active) <= 1 BY DEF IInv
  <2> DEFINE L == Len(active)
  <2> HIDE DEF L
  <2>b. L \in Nat /\ L # 0 /\ L <= 1 BY <2>2, <2>a DEF L
  <2>c. L = 1 BY <2>b
  <2>3. Len(active) = 1 BY <2>c DEF L
  <2>4. QED BY <2>3
<1>3. 1 \in 1..Len(active) BY <1>2
<1>4. x \in Jobs BY <1>3, SoundJob, Zenon DEF IInv, x
<1>5. /\ x.id < nextId /\ x.remaining > 0
      /\ x.remaining + (x.age + x.late - lag) = x.total
  BY <1>3 DEF IInv, Sound, x
<1>6. ~Has(jobs, x.id) BY <1>3 DEF IInv, x
<1>7. /\ y \in Jobs /\ y.background = TRUE
      /\ y.id = x.id /\ y.remaining = x.remaining /\ y.total = x.total
      /\ y.age = x.age /\ y.late = x.late
  BY <1>4, WithBackground, Zenon DEF y
<1>8. /\ y.id < nextId /\ y.remaining > 0 /\ ~Has(jobs, y.id)
      /\ y.remaining + (y.age + y.late - lag) = y.total
  BY <1>5, <1>6, <1>7
<1>9. /\ Sound(jobs', TRUE, nextId, lag)
      /\ \A id : Has(jobs', id) <=> Has(jobs, id) \/ id = y.id
  <2>1. Sound(jobs, TRUE, nextId, lag) BY Zenon DEF IInv
  <2>2. QED BY <1>1, <1>7, <1>8, <2>1, AppendSound, Zenon
<1>10. TypeInv' BY <1>1 DEF IInv, TypeInv
<1>11. /\ Len(active') = 0 /\ Sound(active', FALSE, nextId, lag) BY <1>1, OneSound, Zenon
<1>12. IInv'
  <2>1. Len(active') <= 1 /\ 1..0 = {} BY <1>11
  <2>2. QED BY <1>1, <1>9, <1>10, <1>11, <2>1, Zenon DEF IInv
<1>13. Stays(active)
  <2>1. \A i \in 1..Len(active) : active[i].id = y.id BY <1>2, <1>7 DEF x
  <2>2. QED BY <1>9, <2>1 DEF Stays
<1>14. Stays(jobs)
  <2>1. \A i \in 1..Len(jobs) : Has(jobs, jobs[i].id) BY DEF Has
  <2>2. QED BY <1>9, <2>1 DEF Stays
<1>15. QED BY <1>12, <1>13, <1>14 DEF StepOK

\* While a line is edited there is no job in the foreground.
LEMMA EditingFree ==
  ASSUME IInv, Editing
  PROVE  Len(active) = 0 /\ Stays(active)
<1>1. Len(active) = 0 BY OneSound DEF Editing
<1>2. QED BY <1>1 DEF Stays

\* sleep and count: a job under a fresh id, which starts with the seconds the
\* poll still owes.
LEMMA StartLongJobStep == ASSUME IInv, StartLongJob PROVE StepOK
<1> DEFINE seconds == Number(Command, Default)
           r == IF seconds = 0 THEN 1 ELSE seconds
           bg == Background
           job == Job(nextId, r, bg)
<1> HIDE DEF seconds, r, bg, job
<1>1. /\ nextId' = nextId + 1 /\ line' = <<>> /\ UNCHANGED <<phase, lag, due>>
      /\ \/ bg /\ jobs' = Append(jobs, job) /\ UNCHANGED active
         \/ ~bg /\ active' = <<job>> /\ UNCHANGED jobs
      /\ Editing
  BY DEF StartLongJob, bg, job, r, seconds
<1>2. r \in Nat \ {0}
  <2>1. seconds \in Nat BY ValueAssumption, ShellBoundsAssumption DEF Number, seconds
  <2>2. QED BY <2>1 DEF r, bg, job
<1>3. bg \in BOOLEAN BY DEF Background, bg
<1>4. lag \in Nat /\ nextId \in Nat BY DEF IInv, TypeInv
<1>5. /\ job \in Jobs /\ job.id = nextId /\ job.remaining = r /\ job.total = r
      /\ job.background = bg /\ job.age = 0 /\ job.late = lag
  BY <1>2, <1>3, <1>4 DEF Job, Jobs, job
<1>6. /\ job.id < nextId + 1 /\ job.remaining > 0
      /\ job.remaining + (job.age + job.late - lag) = job.total
  BY <1>2, <1>4, <1>5
<1>7. Sound(active, FALSE, nextId + 1, lag) /\ Sound(jobs, TRUE, nextId + 1, lag)
  BY <1>4, SoundBelow, Zenon DEF IInv
<1>8. ~Has(jobs, job.id)
  <2>1. \A i \in 1..Len(jobs) : jobs[i].id < nextId BY DEF IInv, Sound
  <2>2. QED BY <1>4, <1>5, <2>1 DEF Has
<1>9. TypeInv' BY <1>1, <1>4, EmptySeq DEF IInv, TypeInv
<1>10. Len(active) = 0 /\ Stays(active) BY <1>1, EditingFree
<1>11. \A i \in 1..Len(jobs) : Has(jobs, jobs[i].id) BY DEF Has
<1>12. CASE bg /\ jobs' = Append(jobs, job) /\ UNCHANGED active
  <2>1. job.background = TRUE BY <1>3, <1>5, <1>12
  <2>2. /\ Sound(jobs', TRUE, nextId + 1, lag)
        /\ \A id : Has(jobs', id) <=> Has(jobs, id) \/ id = job.id
    <3>1. job \in Jobs /\ Sound(jobs, TRUE, nextId + 1, lag) BY <1>5, <1>7, Zenon
    <3>2. jobs' = Append(jobs, job) BY <1>12
    <3>3. QED BY <1>6, <1>8, <2>1, <3>1, <3>2, AppendSound, Zenon
  <2>3. IInv'
    <3>1. active' = active /\ Len(active) <= 1 /\ 1..0 = {} BY <1>10, <1>12
    <3>2. \A i \in 1..Len(active') : ~Has(jobs', active'[i].id) BY <1>10, <3>1
    <3>3. Sound(active', FALSE, nextId', lag') /\ Sound(jobs', TRUE, nextId', lag')
      BY <1>1, <1>7, <2>2, <3>1, Zenon
    <3>4. QED BY <1>9, <3>1, <3>2, <3>3, Zenon DEF IInv
  <2>4. Stays(jobs) BY <1>11, <2>2 DEF Stays
  <2>5. QED BY <1>10, <2>3, <2>4 DEF StepOK
<1>13. CASE ~bg /\ active' = <<job>> /\ UNCHANGED jobs
  <2>1. ~job.background BY <1>3, <1>5, <1>13
  <2>2. Sound(active', FALSE, nextId + 1, lag) BY <1>5, <1>6, <1>13, <2>1, OneSound, Zenon
  <2>3. Len(active') = 1 /\ active'[1] = job BY <1>13, OneSound
  <2>4. \A i \in 1..Len(active') : active'[i] = job BY <2>3
  <2>5. IInv'
    <3>1. Len(active') <= 1 BY <2>3
    <3>2. jobs' = jobs BY <1>13
    <3>3. QED BY <1>1, <1>7, <1>8, <1>9, <2>2, <2>4, <3>1, <3>2, Zenon DEF IInv
  <2>6. Stays(jobs) BY <1>11, <1>13 DEF Stays
  <2>7. QED BY <1>10, <2>5, <2>6 DEF StepOK
<1>14. QED BY <1>1, <1>12, <1>13

\* fg: the first job with the id comes to the foreground, which is free.
LEMMA ForegroundJobStep == ASSUME IInv, ForegroundJob PROVE StepOK
<1> DEFINE id == Number(Command, 0)
           matches == {i \in DOMAIN jobs : jobs[i].id = id}
           index == CHOOSE i \in matches : \A j \in matches : i <= j
<1> HIDE DEF id, matches, index
<1>1. /\ Editing /\ line' = <<>> /\ UNCHANGED <<phase, nextId, lag, due>>
      /\ \/ UNCHANGED <<active, jobs>>
         \/ /\ matches # {}
            /\ active' = <<[jobs[index] EXCEPT !.background = FALSE]>>
            /\ jobs' = RemoveAt(jobs, index)
  BY DEF ForegroundJob, matches, index, id
<1>2. TypeInv' BY <1>1, EmptySeq DEF IInv, TypeInv
<1>3. CASE UNCHANGED <<active, jobs>> BY <1>1, <1>2, <1>3, SameJobs
<1>4. CASE /\ matches # {}
           /\ active' = <<[jobs[index] EXCEPT !.background = FALSE]>>
           /\ jobs' = RemoveAt(jobs, index)
  <2>1. jobs \in Seq(Jobs) /\ Len(jobs) \in Nat /\ DOMAIN jobs = 1..Len(jobs)
    BY SoundJob, Zenon DEF IInv
  <2>2. index \in matches
    <3>1. matches \in SUBSET Nat BY <2>1 DEF matches
    <3>2. \E i \in matches : \A j \in matches : i <= j BY <1>4, <3>1, Least
    <3>3. QED BY <3>2 DEF id, index
  <2>3. index \in 1..Len(jobs) BY <2>1, <2>2 DEF index, matches, id
  <2> DEFINE x == jobs[index]
             y == [x EXCEPT !.background = FALSE]
  <2> HIDE DEF x, y
  <2>4. x \in Jobs BY <2>3, SoundJob, Zenon DEF IInv, x
  <2>5. /\ x.id < nextId /\ x.remaining > 0
        /\ x.remaining + (x.age + x.late - lag) = x.total
    BY <2>3 DEF IInv, Sound, x
  <2>6. /\ Sound(jobs', TRUE, nextId, lag)
        /\ \A k : Has(jobs', k) <=> Has(jobs, k) /\ k # x.id
    <3>1. Sound(jobs, TRUE, nextId, lag) BY Zenon DEF IInv
    <3>2. QED BY <1>4, <2>3, <3>1, RemoveSound, Zenon DEF x, y
  <2>7. active' = <<y>> BY <1>4 DEF y, x
  <2>8. /\ y \in Jobs /\ y.background = FALSE
        /\ y.id = x.id /\ y.remaining = x.remaining /\ y.total = x.total
        /\ y.age = x.age /\ y.late = x.late
    BY <2>4, WithBackground, Zenon DEF y
  <2>9. ~y.background BY <2>8
  <2>10. /\ y.id < nextId /\ y.remaining > 0
         /\ y.remaining + (y.age + y.late - lag) = y.total
    BY <2>5, <2>8
  <2>11. Sound(active', FALSE, nextId, lag) BY <2>7, <2>8, <2>9, <2>10, OneSound, Zenon
  <2>12. /\ Len(active') = 1 /\ active'[1] = y
         /\ \A k : Has(active', k) <=> k = y.id
    BY <2>7, OneSound, Zenon
  <2>13. IInv'
    <3>1. Len(active') <= 1 /\ \A i \in 1..Len(active') : active'[i] = y BY <2>12
    <3>2. ~Has(jobs', y.id) BY <2>6, <2>8
    <3>3. Sound(active', FALSE, nextId', lag') /\ Sound(jobs', TRUE, nextId', lag')
      BY <1>1, <2>6, <2>11, Zenon
    <3>4. QED BY <1>2, <3>1, <3>2, <3>3, Zenon DEF IInv
  <2>14. Stays(jobs)
    <3>1. \A i \in 1..Len(jobs) : Has(jobs, jobs[i].id) BY DEF Has
    <3>2. QED BY <2>6, <2>8, <2>12, <3>1, Zenon DEF Stays
  <2>15. Stays(active) BY <1>1, EditingFree
  <2>16. QED BY <2>13, <2>14, <2>15 DEF StepOK
<1>5. QED BY <1>1, <1>3, <1>4

\* Every step keeps the invariant and loses no job.
LEMMA NextStep == ASSUME IInv, [Next]_vars PROVE StepOK
<1>1. CASE TimerSecond BY <1>1, TimerSecondStep
<1>2. CASE PollSecond BY <1>2, PollSecondStep
<1>3. CASE PollJobs \/ PollEnds \/ InputEmpty BY <1>3, LoopStep
<1>4. CASE (\E w \in Words : TypeWord(w)) \/ Backspace \/ OtherLine BY <1>4, LineStep
<1>5. CASE Suspend BY <1>5, SuspendStep
<1>6. CASE StartLongJob BY <1>6, StartLongJobStep
<1>7. CASE ForegroundJob BY <1>7, ForegroundJobStep
<1>8. CASE UNCHANGED vars
  <2>1. TypeInv' BY <1>8 DEF IInv, TypeInv, vars
  <2>2. QED BY <1>8, <2>1, SameJobs DEF vars
<1>9. QED BY <1>1, <1>2, <1>3, <1>4, <1>5, <1>6, <1>7, <1>8 DEF Next

-----------------------------------------------------------------------------
\* The inductive invariant holds throughout, whatever is typed and however far
\* poll_jobs falls behind the timer.
THEOREM ShellInvariance == Spec => []IInv
<1>1. IInv /\ [Next]_vars => IInv' BY NextStep DEF StepOK
<1>2. QED BY <1>1, InitInv, PTL DEF Spec

\* The ids of the live jobs, by their places in the two lists.
LEMMA LivePlaces ==
  ASSUME IInv
  PROVE  /\ \A job \in Live : \/ \E i \in 1..Len(active) : job = active[i]
                              \/ \E i \in 1..Len(jobs) : job = jobs[i]
         /\ \A id : id \in Ids <=> Has(active, id) \/ Has(jobs, id)
<1>1. DOMAIN active = 1..Len(active) /\ DOMAIN jobs = 1..Len(jobs) BY SoundJob DEF IInv
<1>2. /\ ToSet(active) = {active[i] : i \in 1..Len(active)}
      /\ ToSet(jobs) = {jobs[i] : i \in 1..Len(jobs)}
  BY <1>1 DEF ToSet
<1>3. QED BY <1>2 DEF Live, Ids, Has

\* No two jobs of the two lists together have the same id.
LEMMA IdsDiffer ==
  ASSUME IInv, NEW all, all = active \o jobs
  PROVE  \A i, j \in DOMAIN all : all[i].id = all[j].id => i = j
<1> DEFINE A == Len(active)
           B == Len(jobs)
<1>1. A \in Nat /\ B \in Nat BY SoundJob DEF IInv
<1>2. /\ \A i, j \in 1..A : active[i].id = active[j].id => i = j
      /\ \A i, j \in 1..B : jobs[i].id = jobs[j].id => i = j
      /\ \A i \in 1..A, j \in 1..B : active[i].id # jobs[j].id
  BY DEF IInv, Sound, Has
<1>3. active \in Seq(Jobs) /\ jobs \in Seq(Jobs) BY DEF IInv, Sound
<1>4. /\ DOMAIN all = 1..(A + B)
      /\ \A i \in 1..(A + B) : all[i] = IF i <= A THEN active[i] ELSE jobs[i - A]
  BY <1>3, ConcatProperties, LenProperties
<1> HIDE DEF A, B
<1>5. ASSUME NEW i \in 1..(A + B)
      PROVE  \/ i \in 1..A /\ all[i] = active[i]
             \/ i \notin 1..A /\ i - A \in 1..B /\ all[i] = jobs[i - A]
  BY <1>1, <1>4
<1>6. ASSUME NEW i \in 1..(A + B), NEW j \in 1..(A + B), all[i].id = all[j].id PROVE i = j
  <2>1. i \in Int /\ j \in Int /\ A \in Int BY <1>1
  <2>2. CASE i \in 1..A /\ j \in 1..A BY <1>2, <1>5, <1>6, <2>2, Zenon
  <2>3. CASE i \notin 1..A /\ j \notin 1..A
    <3>1. i - A \in 1..B /\ j - A \in 1..B /\ jobs[i - A].id = jobs[j - A].id
      BY <1>5, <1>6, <2>3, Zenon
    <3>2. i - A = j - A BY <1>2, <3>1
    <3>3. QED BY <2>1, <3>2
  <2>4. CASE i \in 1..A /\ j \notin 1..A
    <3>1. j - A \in 1..B /\ active[i].id = jobs[j - A].id BY <1>5, <1>6, <2>4, Zenon
    <3>2. QED BY <1>2, <2>4, <3>1
  <2>5. CASE i \notin 1..A /\ j \in 1..A
    <3>1. i - A \in 1..B /\ active[j].id = jobs[i - A].id BY <1>5, <1>6, <2>5, Zenon
    <3>2. QED BY <1>2, <2>5, <3>1
  <2>6. QED BY <2>2, <2>3, <2>4, <2>5
<1>7. QED BY <1>4, <1>6, Zenon

\* For every sequence of lines, interrupts, Ctrl-Z and fg, a job is in one
\* place, under an id of its own, and marked for where it is.
THEOREM JobsStayConsistent == Spec => []JobsConsistent
<1>1. IInv => JobsConsistent
  <2>1. SUFFICES ASSUME IInv PROVE JobsConsistent OBVIOUS
  <2>2. \A i, j \in DOMAIN (active \o jobs) :
          (active \o jobs)[i].id = (active \o jobs)[j].id => i = j
    BY <2>1, IdsDiffer, Zenon
  <2>3. DOMAIN active = 1..Len(active) /\ DOMAIN jobs = 1..Len(jobs) BY <2>1, SoundJob DEF IInv
  <2>4. \A i \in 1..Len(active) : active[i].id < nextId BY <2>1 DEF IInv, Sound
  <2>5. \A i \in 1..Len(jobs) : jobs[i].id < nextId BY <2>1 DEF IInv, Sound
  <2>6. \A i \in 1..Len(active) : ~active[i].background BY <2>1 DEF IInv, Sound
  <2>7. \A i \in 1..Len(jobs) : jobs[i].background BY <2>1 DEF IInv, Sound
  <2>8. \A job \in Live : job.id < nextId BY <2>1, <2>4, <2>5, LivePlaces
  <2>9. (\A job \in ToSet(jobs) : job.background) /\ (\A job \in ToSet(active) : ~job.background)
    BY <2>3, <2>6, <2>7 DEF ToSet
  <2>10. QED BY <2>2, <2>8, <2>9 DEF JobsConsistent
<1>2. QED BY <1>1, ShellInvariance, PTL

\* Every second of the timer counts once for every job, for any number of jobs
\* and any delay of the poll; poll_jobs never leaves a job behind whose time
\* is up.
THEOREM SecondsCount == Spec => []EverySecondCounts
<1>1. IInv => EverySecondCounts
  <2>1. SUFFICES ASSUME IInv, NEW job \in Live
                 PROVE  job.remaining + (job.age + job.late - lag) = job.total /\ job.remaining > 0
    BY DEF EverySecondCounts
  <2>2. CASE \E i \in 1..Len(active) : job = active[i]
    <3>1. PICK i \in 1..Len(active) : job = active[i] BY <2>2
    <3>2. QED BY <2>1, <3>1 DEF IInv, Sound
  <2>3. CASE \E i \in 1..Len(jobs) : job = jobs[i]
    <3>1. PICK i \in 1..Len(jobs) : job = jobs[i] BY <2>3
    <3>2. QED BY <2>1, <3>1 DEF IInv, Sound
  <2>4. QED BY <2>1, <2>2, <2>3, LivePlaces
<1>2. QED BY <1>1, ShellInvariance, PTL

\* No step of the shell loses a job: tick_one_second, Ctrl-Z, fg and the start
\* of another job keep every job whose time the timer has not counted, and only
\* tick_one_second lets one go.
THEOREM JobsAreKept == Spec => NoJobLost
<1> DEFINE A == \A job \in Live :
                  job.id \notin Ids' => job.total <= job.age + job.late /\ lag' = lag - 1
<1>1. ASSUME IInv, [Next]_vars PROVE A
  <2>1. IInv' /\ Stays(active) /\ Stays(jobs) BY <1>1, NextStep DEF StepOK
  <2>2. \A id : Has(active', id) \/ Has(jobs', id) => id \in Ids'
    <3>1. DOMAIN active' = 1..Len(active') /\ DOMAIN jobs' = 1..Len(jobs')
      BY <2>1, SoundJob DEF IInv
    <3>2. QED BY <3>1 DEF Live, Ids, ToSet, Has
  <2>3. SUFFICES ASSUME NEW job \in Live, job.id \notin Ids'
                 PROVE  job.total <= job.age + job.late /\ lag' = lag - 1
    OBVIOUS
  <2>4. ~Has(active', job.id) /\ ~Has(jobs', job.id) BY <2>2, <2>3
  <2>5. CASE \E i \in 1..Len(active) : job = active[i] BY <2>1, <2>4, <2>5 DEF Stays
  <2>6. CASE \E i \in 1..Len(jobs) : job = jobs[i] BY <2>1, <2>4, <2>6 DEF Stays
  <2>7. QED BY <1>1, <2>5, <2>6, LivePlaces
<1>2. IInv /\ [Next]_vars => [A]_vars BY <1>1
<1>3. QED BY <1>2, ShellInvariance, PTL DEF Spec, NoJobLost

(***************************************************************************)
(* Serial input.                                                           *)
(***************************************************************************)
SerialTypeOK ==
  /\ buf \in [Slots -> Bytes]
  /\ head \in Slots /\ tail \in Slots
  /\ fifo \in Seq(Bytes)
  /\ timeout \in BOOLEAN /\ irq \in BOOLEAN /\ handler \in BOOLEAN
  /\ main \in {"sleep", "halt", "poll", "read", "handle"}

\* The timeout is only pending while there is something to read, so that the
\* line is down when the handler returns.
SerialInv == SerialTypeOK /\ LineAnswered /\ (timeout => fifo # <<>>)

USE CapacityAssumption, FifoAssumption DEF ring, serialVars

\* Initially the ring and the UART are empty.
LEMMA SerialInitInv == SerialInit => SerialInv
<1>1. SUFFICES ASSUME SerialInit PROVE SerialInv OBVIOUS
<1>2. SerialTypeOK
  <2>1. buf \in [Slots -> Bytes] /\ head \in Slots /\ tail \in Slots
    BY <1>1 DEF SerialInit, Slots
  <2>2. fifo \in Seq(Bytes) BY <1>1, EmptySeq DEF SerialInit
  <2>3. QED BY <1>1, <2>1, <2>2, Zenon DEF SerialInit, SerialTypeOK
<1>3. ~Raised(fifo, timeout)
  <2>1. fifo = <<>> /\ timeout = FALSE BY <1>1 DEF SerialInit
  <2>2. ~(Len(<<>>) >= Threshold) BY EmptySeq
  <2>3. QED BY <2>1, <2>2 DEF Raised
<1>4. QED BY <1>1, <1>2, <1>3 DEF SerialInv, LineAnswered, SerialInit

\* An index that runs at most once past the end of the ring.
LEMMA Wrap ==
  ASSUME NEW x \in Nat, x < 2 * Capacity
  PROVE  x % Capacity = IF x < Capacity THEN x ELSE x - Capacity
<1>1. CASE x < Capacity BY <1>1
<1>2. CASE ~(x < Capacity) BY <1>2
<1>3. QED BY <1>1, <1>2

\* Inc of a slot is the next slot, or the first one.
LEMMA IncSlot ==
  ASSUME NEW i \in Slots
  PROVE  Inc(i) \in Slots /\ Inc(i) = IF i + 1 = Capacity THEN 0 ELSE i + 1
<1>1. i + 1 \in Nat /\ i + 1 < 2 * Capacity BY DEF Slots
<1>2. QED BY <1>1, Wrap DEF Inc, Slots

\* How many bytes the ring holds, and the slot of the i-th byte.
Count == IF head <= tail THEN tail - head ELSE tail + Capacity - head
SlotOf(h, i) == IF h + i - 1 < Capacity THEN h + i - 1 ELSE h + i - 1 - Capacity

\* Contents without the remainders.
LEMMA ContentsForm ==
  ASSUME SerialTypeOK
  PROVE  /\ Count \in 0..(Capacity - 1)
         /\ \A i \in 1..Count : SlotOf(head, i) \in Slots
         /\ Contents = [i \in 1..Count |-> buf[SlotOf(head, i)]]
         /\ Contents \in Seq(Bytes) /\ Len(Contents) = Count
<1>1. head \in Slots /\ tail \in Slots /\ buf \in [Slots -> Bytes] BY DEF SerialTypeOK
<1>2. Count \in 0..(Capacity - 1) BY <1>1 DEF Slots, Count
<1>3. (tail + Capacity - head) % Capacity = Count
  <2> DEFINE x == tail + Capacity - head
  <2>1. x \in Nat /\ x < 2 * Capacity BY <1>1 DEF Slots
  <2>2. (IF x < Capacity THEN x ELSE x - Capacity) = Count BY <1>1 DEF Count, Slots
  <2>3. HIDE DEF x
  <2>4. x % Capacity = IF x < Capacity THEN x ELSE x - Capacity BY <2>1, Wrap
  <2>5. x % Capacity = Count BY <2>2, <2>4
  <2>6. QED BY <2>5 DEF x
<1>4. \A i \in 1..Count : SlotOf(head, i) \in Slots /\ (head + i - 1) % Capacity = SlotOf(head, i)
  <2>1. TAKE i \in 1..Count
  <2> DEFINE x == head + i - 1
  <2>2. x \in Nat /\ x < 2 * Capacity BY <1>1, <1>2 DEF Slots
  <2>3. SlotOf(head, i) \in Slots BY <2>2, <1>1 DEF SlotOf, Slots
  <2>4. SlotOf(head, i) = IF x < Capacity THEN x ELSE x - Capacity
    BY <2>2, <1>1, <1>2 DEF SlotOf, Slots
  <2>5. HIDE DEF x
  <2>6. x % Capacity = SlotOf(head, i) BY <2>2, <2>4, Wrap
  <2>7. QED BY <2>3, <2>6 DEF x
<1>5. Contents = [i \in 1..Count |-> buf[SlotOf(head, i)]] BY <1>3, <1>4 DEF Contents
<1>6. Contents \in Seq(Bytes) /\ Len(Contents) = Count
  <2>1. Contents \in [1..Count -> Bytes] BY <1>1, <1>4, <1>5
  <2>2. QED BY <2>1, <1>2, LenProperties, SeqDef
<1>7. QED BY <1>2, <1>4, <1>5, <1>6

\* A rise of the line is kept, and nothing else changes the request.
LEMMA RiseKept ==
  ASSUME NEW bytes, NEW expired, irq \in BOOLEAN, LatchRise(bytes, expired)
  PROVE  /\ irq' \in BOOLEAN
         /\ irq => irq'
         /\ Raised(bytes, expired) => Raised(fifo, timeout) \/ irq'
BY Zenon DEF LatchRise

\* The handler reads until the UART has nothing left, so the line is up only
\* while the interrupt is requested or the handler is at work.
LEMMA SerialStepInv == SerialInv /\ [SerialNext]_serialVars => SerialInv'
<1>1. SUFFICES ASSUME SerialInv, [SerialNext]_serialVars PROVE SerialInv' OBVIOUS
<1>a. /\ fifo \in Seq(Bytes) /\ timeout \in BOOLEAN /\ irq \in BOOLEAN /\ handler \in BOOLEAN
      /\ Raised(fifo, timeout) => irq \/ handler
      /\ timeout => fifo # <<>>
  BY <1>1, Zenon DEF SerialInv, SerialTypeOK, LineAnswered
<1>2. ASSUME NEW b \in Bytes, Receive(b) PROVE SerialInv'
  <2>1. /\ fifo' = Append(fifo, b) /\ LatchRise(fifo', timeout)
        /\ buf' = buf /\ head' = head /\ tail' = tail
        /\ timeout' = timeout /\ handler' = handler /\ main' = main
    BY <1>2 DEF Receive
  <2>2. fifo' \in Seq(Bytes) /\ fifo' # <<>> BY <1>a, <2>1, AppendProperties
  <2>3. /\ irq' \in BOOLEAN /\ (irq => irq')
        /\ Raised(fifo', timeout) => Raised(fifo, timeout) \/ irq'
    BY <1>a, <2>1, RiseKept, Zenon
  <2>4. SerialTypeOK' BY <1>1, <2>1, <2>2, <2>3, Zenon DEF SerialInv, SerialTypeOK
  <2>5. LineAnswered' BY <1>a, <2>1, <2>3, Zenon DEF LineAnswered
  <2>6. QED BY <2>2, <2>4, <2>5, Zenon DEF SerialInv
<1>b. CASE CharTimeout
  <2>1. /\ fifo # <<>> /\ timeout' = TRUE /\ LatchRise(fifo, TRUE)
        /\ buf' = buf /\ head' = head /\ tail' = tail
        /\ fifo' = fifo /\ handler' = handler /\ main' = main
    BY <1>b DEF CharTimeout
  <2>2. /\ irq' \in BOOLEAN /\ (irq => irq')
        /\ Raised(fifo, TRUE) => Raised(fifo, timeout) \/ irq'
    BY <1>a, <2>1, RiseKept, Zenon
  <2>3. SerialTypeOK' BY <1>1, <2>1, <2>2, Zenon DEF SerialInv, SerialTypeOK
  <2>4. LineAnswered' BY <1>a, <2>1, <2>2, Zenon DEF LineAnswered
  <2>5. QED BY <2>1, <2>3, <2>4, Zenon DEF SerialInv
<1>3. CASE SerialIrq
  BY <1>1, <1>3, Zenon DEF SerialInv, SerialTypeOK, LineAnswered, SerialIrq, Woken
<1>4. CASE TimerIrq
  BY <1>1, <1>4, Zenon DEF SerialInv, SerialTypeOK, LineAnswered, TimerIrq, Woken
<1>5. CASE Push
  <2>1. /\ handler /\ fifo # <<>> /\ ReadData
        /\ head' = (IF Inc(tail) = head THEN Inc(head) ELSE head)
        /\ buf' = [buf EXCEPT ![tail] = Head(fifo)] /\ tail' = Inc(tail)
        /\ UNCHANGED <<handler, main>>
    BY <1>5 DEF Push
  <2>2. Head(fifo) \in Bytes /\ Tail(fifo) \in Seq(Bytes) BY <1>a, <2>1, HeadTailProperties
  <2>3. Inc(tail) \in Slots /\ Inc(head) \in Slots BY <1>1, IncSlot DEF SerialInv, SerialTypeOK
  <2>4. fifo' = Tail(fifo) /\ timeout' = FALSE /\ irq' \in BOOLEAN
    BY <1>a, <2>1, Zenon DEF ReadData
  <2>5. buf' \in [Slots -> Bytes] /\ head' \in Slots /\ tail' \in Slots
    BY <1>1, <2>1, <2>2, <2>3 DEF SerialInv, SerialTypeOK
  <2>6. SerialTypeOK' BY <1>1, <2>1, <2>2, <2>4, <2>5, Zenon DEF SerialInv, SerialTypeOK
  <2>7. QED BY <2>1, <2>4, <2>6, Zenon DEF SerialInv, LineAnswered
<1>6. CASE HandlerReturns
  <2>1. fifo = <<>> /\ UNCHANGED <<ring, fifo, timeout, irq, main>> /\ handler' = FALSE
    BY <1>6 DEF HandlerReturns
  <2>2. ~Raised(fifo, timeout)
    <3>1. ~timeout BY <1>a, <2>1
    <3>2. ~(Len(fifo) >= Threshold) BY <2>1, EmptySeq
    <3>3. QED BY <3>1, <3>2, Zenon DEF Raised
  <2>3. SerialTypeOK' BY <1>1, <2>1, Zenon DEF SerialInv, SerialTypeOK
  <2>4. QED BY <1>a, <2>1, <2>2, <2>3, Zenon DEF SerialInv, LineAnswered
<1>7. CASE Hlt \/ Poll \/ HandleByte
  <2>1. /\ buf' = buf /\ head' = head /\ tail' = tail /\ fifo' = fifo
        /\ timeout' = timeout /\ irq' = irq /\ handler' = handler
        /\ main' \in {"halt", "read"}
    BY <1>7 DEF Hlt, Poll, HandleByte
  <2>2. SerialTypeOK' BY <1>1, <2>1, Zenon DEF SerialInv, SerialTypeOK
  <2>3. QED BY <1>a, <2>1, <2>2, Zenon DEF SerialInv, LineAnswered
<1>8. CASE Pop
  <2>1. Inc(head) \in Slots BY <1>1, IncSlot DEF SerialInv, SerialTypeOK
  <2>2. QED BY <1>1, <1>8, <2>1, Zenon DEF SerialInv, SerialTypeOK, LineAnswered, Pop
<1>9. CASE UNCHANGED serialVars
  BY <1>1, <1>9, Zenon DEF SerialInv, SerialTypeOK, LineAnswered
<1>10. QED
  BY <1>1, <1>2, <1>b, <1>3, <1>4, <1>5, <1>6, <1>7, <1>8, <1>9 DEF SerialNext, MainLoop

\* No receive interrupt is lost, for any threshold of the UART: while its line
\* is up the PIC has the request or the handler of IRQ 4 is at work.
THEOREM NoRiseLost == SerialSpec => []LineAnswered
<1>1. SerialInv => LineAnswered BY DEF SerialInv
<1>2. QED BY <1>1, SerialInitInv, SerialStepInv, PTL DEF SerialSpec

-----------------------------------------------------------------------------
\* A push into a ring with room appends the byte.
LEMMA PushRoom ==
  ASSUME SerialInv, Push, Inc(tail) # head
  PROVE  Contents' = Append(Contents, Head(fifo)) /\ Len(Contents) # Capacity - 1
<1>1. SerialInv' BY SerialStepInv DEF SerialNext
<1>2. /\ head \in Slots /\ tail \in Slots /\ buf \in [Slots -> Bytes]
      /\ head' = head /\ tail' = Inc(tail) /\ buf' = [buf EXCEPT ![tail] = Head(fifo)]
      /\ Head(fifo) \in Bytes
  BY HeadTailProperties DEF SerialInv, SerialTypeOK, Push
<1>3. /\ Count \in 0..(Capacity - 1)
      /\ \A i \in 1..Count : SlotOf(head, i) \in Slots
      /\ Contents = [i \in 1..Count |-> buf[SlotOf(head, i)]]
      /\ Contents \in Seq(Bytes) /\ Len(Contents) = Count
  BY ContentsForm DEF SerialInv
<1>4. /\ \A i \in 1..Count' : SlotOf(head', i) \in Slots
      /\ Contents' = [i \in 1..Count' |-> buf'[SlotOf(head', i)]]
      /\ Contents' \in Seq(Bytes) /\ Len(Contents') = Count'
  <2>1. SerialTypeOK' BY <1>1 DEF SerialInv
  <2>2. (/\ \A i \in 1..Count : SlotOf(head, i) \in Slots
         /\ Contents = [i \in 1..Count |-> buf[SlotOf(head, i)]]
         /\ Contents \in Seq(Bytes) /\ Len(Contents) = Count)'
    BY <2>1, ContentsForm, PTL
  <2>3. QED BY <2>2, Zenon DEF Slots
<1>5. Count' = Count + 1 /\ Count # Capacity - 1
  <2>1. Inc(tail) = IF tail + 1 = Capacity THEN 0 ELSE tail + 1 BY <1>2, IncSlot
  <2>2. QED BY <2>1, <1>2 DEF Count, Slots
<1>6. SlotOf(head, Count + 1) = tail /\ \A i \in 1..Count : SlotOf(head, i) # tail
  BY <1>2, <1>3 DEF Count, SlotOf, Slots
<1>7. /\ Contents'[Count + 1] = Head(fifo)
      /\ \A i \in 1..Count : Contents'[i] = Contents[i]
  BY <1>2, <1>3, <1>4, <1>5, <1>6
<1>8. /\ Append(Contents, Head(fifo)) \in Seq(Bytes)
      /\ Len(Append(Contents, Head(fifo))) = Count + 1
      /\ \A i \in 1..Count : Append(Contents, Head(fifo))[i] = Contents[i]
      /\ Append(Contents, Head(fifo))[Count + 1] = Head(fifo)
  BY <1>2, <1>3, AppendProperties
<1>9. \A i \in 1..(Count + 1) : Contents'[i] = Append(Contents, Head(fifo))[i]
  BY <1>3, <1>7, <1>8
<1>10. QED BY <1>3, <1>4, <1>5, <1>8, <1>9, SeqEqual

\* A push into a full ring gives up the oldest byte.
LEMMA PushFullRing ==
  ASSUME SerialInv, Push, Inc(tail) = head
  PROVE  Contents' = Append(Tail(Contents), Head(fifo)) /\ Len(Contents) = Capacity - 1
<1> DEFINE b == Head(fifo)
           n == Capacity - 1
<1> HIDE DEF b, n
<1>1. SerialTypeOK' BY SerialStepInv DEF SerialNext, SerialInv
<1>2. /\ head \in Slots /\ tail \in Slots /\ buf \in [Slots -> Bytes]
      /\ head' = Inc(head) /\ tail' = Inc(tail) /\ buf' = [buf EXCEPT ![tail] = b]
      /\ b \in Bytes
  BY HeadTailProperties DEF SerialInv, SerialTypeOK, Push, b
<1>3. /\ \A i \in 1..Count : SlotOf(head, i) \in Slots
      /\ Contents = [i \in 1..Count |-> buf[SlotOf(head, i)]]
      /\ Contents \in Seq(Bytes) /\ Len(Contents) = Count
  BY ContentsForm DEF SerialInv
<1>4. /\ \A i \in 1..Count' : SlotOf(head', i) \in Slots
      /\ Contents' = [i \in 1..Count' |-> buf'[SlotOf(head', i)]]
      /\ Contents' \in Seq(Bytes) /\ Len(Contents') = Count'
  <2>1. (/\ \A i \in 1..Count : SlotOf(head, i) \in Slots
         /\ Contents = [i \in 1..Count |-> buf[SlotOf(head, i)]]
         /\ Contents \in Seq(Bytes) /\ Len(Contents) = Count)'
    BY <1>1, ContentsForm, PTL
  <2>2. QED BY <2>1, Zenon DEF Slots
<1>5. /\ Inc(tail) = IF tail + 1 = Capacity THEN 0 ELSE tail + 1
      /\ Inc(head) = IF head + 1 = Capacity THEN 0 ELSE head + 1
  BY <1>2, IncSlot
<1>6. Count' = n /\ Count = n BY <1>2, <1>5 DEF Count, Slots, n
<1>7. /\ SlotOf(head', n) = tail
      /\ \A i \in 1..(n - 1) : SlotOf(head', i) = SlotOf(head, i + 1) /\ SlotOf(head, i + 1) # tail
  BY <1>2, <1>5 DEF SlotOf, Slots, n
<1>8. n \in Nat /\ n > 0 BY DEF n
<1>9. /\ Contents'[n] = b
      /\ \A i \in 1..(n - 1) : Contents'[i] = Contents[i + 1]
  <2>1. n \in 1..n /\ \A i \in 1..(n - 1) : i \in 1..n /\ i + 1 \in 1..n BY <1>8
  <2>2. \A i \in 1..n : Contents'[i] = buf'[SlotOf(head', i)] /\ SlotOf(head', i) \in Slots
    BY <1>4, <1>6
  <2>3. \A i \in 1..n : Contents[i] = buf[SlotOf(head, i)] /\ SlotOf(head, i) \in Slots
    BY <1>3, <1>6
  <2>4. buf'[tail] = b /\ \A j \in Slots : j # tail => buf'[j] = buf[j] BY <1>2
  <2>5. Contents'[n] = b BY <2>1, <2>2, <2>4, <1>7
  <2>6. \A i \in 1..(n - 1) : Contents'[i] = Contents[i + 1]
    BY <2>1, <2>2, <2>3, <2>4, <1>7
  <2>7. QED BY <2>5, <2>6
<1>10. /\ Tail(Contents) \in Seq(Bytes) /\ Len(Tail(Contents)) = n - 1
       /\ \A i \in 1..(n - 1) : Tail(Contents)[i] = Contents[i + 1]
  <2>1. Contents \in Seq(Bytes) /\ Len(Contents) = n BY <1>3, <1>6, Zenon
  <2>2. Contents # <<>> BY <1>8, <2>1
  <2> HIDE DEF Contents
  <2>3. /\ Tail(Contents) \in Seq(Bytes) /\ Len(Tail(Contents)) = Len(Contents) - 1
        /\ \A i \in 1..Len(Tail(Contents)) : Tail(Contents)[i] = Contents[i + 1]
    BY <2>1, <2>2, HeadTailProperties
  <2>4. QED BY <2>1, <2>3
<1>11. /\ Append(Tail(Contents), b) \in Seq(Bytes)
       /\ Len(Append(Tail(Contents), b)) = n
       /\ \A i \in 1..(n - 1) : Append(Tail(Contents), b)[i] = Tail(Contents)[i]
       /\ Append(Tail(Contents), b)[n] = b
  BY <1>2, <1>8, <1>10, AppendProperties
<1>12. \A i \in 1..n : i \in 1..(n - 1) \/ i = n BY <1>8
<1>13. \A i \in 1..n : Contents'[i] = Append(Tail(Contents), b)[i]
  BY <1>9, <1>10, <1>11, <1>12
<1>14. QED BY ZenonT(60), <1>3, <1>4, <1>6, <1>11, <1>13, SeqEqual DEF b, n

\* A pop takes the oldest byte.
LEMMA PopTakesOldest ==
  ASSUME SerialInv, Pop, head # tail
  PROVE  Contents # <<>> /\ Contents' = Tail(Contents)
<1>1. SerialTypeOK' BY SerialStepInv DEF SerialNext, MainLoop, SerialInv
<1>2. /\ head \in Slots /\ tail \in Slots /\ buf \in [Slots -> Bytes]
      /\ head' = Inc(head) /\ tail' = tail /\ buf' = buf
  BY DEF SerialInv, SerialTypeOK, Pop
<1>3. /\ Count \in 0..(Capacity - 1) /\ Contents = [i \in 1..Count |-> buf[SlotOf(head, i)]]
      /\ Contents \in Seq(Bytes) /\ Len(Contents) = Count
  BY ContentsForm DEF SerialInv
<1>4. /\ Contents' = [i \in 1..Count' |-> buf'[SlotOf(head', i)]]
      /\ Contents' \in Seq(Bytes) /\ Len(Contents') = Count'
  <2>1. (/\ Contents = [i \in 1..Count |-> buf[SlotOf(head, i)]]
         /\ Contents \in Seq(Bytes) /\ Len(Contents) = Count)'
    BY <1>1, ContentsForm, PTL
  <2>2. QED BY <2>1, Zenon
<1>5. Inc(head) = IF head + 1 = Capacity THEN 0 ELSE head + 1
  BY <1>2, IncSlot
<1>6. Count > 0 /\ Count' = Count - 1 BY <1>2, <1>5 DEF Count, Slots
<1>7. \A i \in 1..(Count - 1) : SlotOf(head', i) = SlotOf(head, i + 1)
  BY <1>2, <1>3, <1>5 DEF SlotOf, Slots
<1>8. \A i \in 1..(Count - 1) : Contents'[i] = Contents[i + 1]
  BY <1>2, <1>3, <1>4, <1>6, <1>7
<1>9. Contents # <<>> BY <1>3, <1>6, EmptySeq
<1>10. /\ Tail(Contents) \in Seq(Bytes) /\ Len(Tail(Contents)) = Count - 1
       /\ \A i \in 1..(Count - 1) : Tail(Contents)[i] = Contents[i + 1]
  BY <1>3, <1>9, HeadTailProperties
<1>11. QED BY <1>4, <1>6, <1>8, <1>9, <1>10, SeqEqual, Zenon

\* SerialInput implements LossyQueue: a push is an Enqueue, a pop that finds
\* a byte is a Dequeue, and everything else leaves the queue as it is.
THEOREM RingIsLossyQueue == SerialSpec => ImplementsLossyQueue
<1>1. SerialInit => LQ!LQInit
  <2>1. SUFFICES ASSUME SerialInit PROVE Contents = <<>> BY DEF LQ!LQInit
  <2>2. SerialTypeOK BY <2>1, SerialInitInv DEF SerialInv
  <2>3. Count = 0 BY <2>1 DEF SerialInit, Count
  <2>4. Contents \in Seq(Bytes) /\ Len(Contents) = 0 BY <2>2, <2>3, ContentsForm
  <2>5. QED BY <2>4, EmptySeq
<1>2. SerialInv /\ [SerialNext]_serialVars => [LQ!LQNext]_Contents
  <2>1. SUFFICES ASSUME SerialInv, [SerialNext]_serialVars
                 PROVE  LQ!LQNext \/ Contents' = Contents
    OBVIOUS
  <2>2. CASE Push
    <3>1. Head(fifo) \in Bytes BY <2>1, <2>2, HeadTailProperties DEF SerialInv, SerialTypeOK, Push
    <3>2. LQ!Enqueue(Head(fifo))
      <4>1. CASE Inc(tail) = head BY <2>1, <2>2, <4>1, PushFullRing DEF LQ!Enqueue
      <4>2. CASE Inc(tail) # head BY <2>1, <2>2, <4>2, PushRoom DEF LQ!Enqueue
      <4>3. QED BY <4>1, <4>2
    <3>3. QED BY <3>1, <3>2 DEF LQ!LQNext
  <2>3. CASE Pop /\ head # tail
    BY <2>1, <2>3, PopTakesOldest DEF LQ!LQNext, LQ!Dequeue
  <2>4. CASE UNCHANGED ring BY <2>4 DEF Contents
  <2>5. Push \/ (Pop /\ head # tail) \/ UNCHANGED ring
    BY <2>1 DEF SerialNext, MainLoop, Receive, CharTimeout, SerialIrq, TimerIrq,
       HandlerReturns, Hlt, Poll, HandleByte, Pop
  <2>6. QED BY <2>2, <2>3, <2>4, <2>5
<1>3. QED
  BY <1>1, <1>2, SerialInitInv, SerialStepInv, PTL DEF SerialSpec, ImplementsLossyQueue, LQ!LQSpec

HIDE DEF ring, serialVars

(***************************************************************************)
(* The spin lock: guards are exclusive, lock() never waits on this one     *)
(* processor, and IF follows the guards.                                   *)
(***************************************************************************)
Guard == [lock : Locks, was : BOOLEAN]

LockTypeOK ==
  /\ cpu \in Tasks
  /\ mode \in [Tasks -> Modes]
  /\ iflag \in BOOLEAN
  /\ syscall \subseteq Tasks
  /\ held \in [Locks -> Ctx \cup {NoCtx}]
  /\ pc \in [Ctx -> {"run", "cli", "trycli", "cas", "trycas", "sti"}]
  /\ want \in [Ctx -> Locks]
  /\ was \in [Ctx -> BOOLEAN]
  /\ guards \in [Ctx -> Seq(Guard)]

\* c is code of a task that runs with IF set when it owns no guard.
Preemptible(c) == c[2] = "task" /\ c[1] \notin syscall

\* A context off the processor owns nothing and is between two operations,
\* or was interrupted between reading IF (which was set) and cli.
SuspendedInv ==
  \A c \in Ctx : ~Running(c) =>
    /\ guards[c] = <<>>
    /\ c[2] = "task" => c[1] \notin syscall
    /\ \/ pc[c] = "run"
       \/ pc[c] \in {"cli", "trycli"} /\ c[2] = "task" /\ mode[c[1]] = "irq" /\ was[c]

\* IF of the running context, and the copy of it that lock(), try_lock() and
\* drop() work with.
FlagInv ==
  \A c \in Ctx : Running(c) =>
    /\ pc[c] \in {"run", "cli", "trycli"} => (iflag <=> guards[c] = <<>> /\ Preemptible(c))
    /\ pc[c] \in {"cas", "trycas", "sti"} => ~iflag
    /\ pc[c] # "run" => (was[c] <=> guards[c] = <<>> /\ Preemptible(c))

\* Only the outermost guard of preemptible code will set IF again; the guards
\* are of different locks, all of which may be held where lock() is called.
GuardsInv ==
  \A c \in Ctx : \A i \in 1..Len(guards[c]) :
    /\ guards[c][i].was <=> i = 1 /\ Preemptible(c)
    /\ pc[c] \in {"cli", "cas"} => <<guards[c][i].lock, want[c]>> \in Nesting
    /\ \A j \in 1..Len(guards[c]) : guards[c][i].lock = guards[c][j].lock => i = j

LockInv == LockTypeOK /\ SuspendedInv /\ FlagInv /\ GuardsInv /\ MutualExclusion

-----------------------------------------------------------------------------
USE FirstAssumption, NoCtxAssumption, NestingAssumption
    DEF Modes, Ctx, At, Goto, lockVars

\* Initially nothing is locked and every context is between two operations.
LEMMA LockInitInv == LockInit => LockInv
<1>1. SUFFICES ASSUME LockInit PROVE LockInv OBVIOUS
<1>2. \A c \in Ctx : guards[c] = <<>> /\ Len(guards[c]) = 0 /\ pc[c] = "run"
  BY <1>1, EmptySeq DEF LockInit
<1>3. LockTypeOK BY <1>1 DEF LockInit, LockTypeOK, Guard
<1>4. SuspendedInv BY <1>1, <1>2 DEF LockInit, SuspendedInv
<1>5. FlagInv BY <1>1, <1>2 DEF LockInit, FlagInv, Running, Preemptible
<1>6. GuardsInv
  <2>1. \A c \in Ctx : 1..Len(guards[c]) = {} BY <1>2
  <2>2. QED BY <2>1, Zenon DEF GuardsInv
<1>7. MutualExclusion BY <1>1, <1>2 DEF LockInit, MutualExclusion, Owns
<1>8. QED BY <1>3, <1>4, <1>5, <1>6, <1>7 DEF LockInv

\* Steps that change neither lock words nor guards keep every owner.
LEMMA OwnersKept ==
  ASSUME MutualExclusion, held' = held, guards' = guards
  PROVE  MutualExclusion'
<1>1. \A d \in Ctx, l \in Locks : Owns(d, l)' <=> Owns(d, l)
  <2>1. TAKE d \in Ctx, l \in Locks
  <2>2. guards'[d] = guards[d] OBVIOUS
  <2>3. QED BY <2>2, Zenon DEF Owns
<1>2. QED BY <1>1, Zenon DEF MutualExclusion

\* Steps that take and drop no guard.
LEMMA GuardsKept ==
  ASSUME LockInv, UNCHANGED <<held, want, guards>>,
         \A d \in Ctx : pc'[d] \in {"cli", "cas"} => pc[d] \in {"cli", "cas"},
         \A d \in Ctx : guards[d] # <<>> => (d[1] \in syscall' <=> d[1] \in syscall)
  PROVE  GuardsInv' /\ MutualExclusion'
<1>1. guards' = guards /\ want' = want /\ held' = held OBVIOUS
<1>2. \A d \in Ctx : \A i \in 1..Len(guards[d]) : Preemptible(d)' <=> Preemptible(d)
  <2>1. TAKE d \in Ctx
  <2>2. TAKE i \in 1..Len(guards[d])
  <2>3. guards[d] # <<>> BY <2>2, EmptySeq
  <2>4. QED BY <2>3 DEF Preemptible
<1>3. GuardsInv'
  <2>1. SUFFICES ASSUME NEW d \in Ctx, NEW i \in 1..Len(guards'[d])
                 PROVE  /\ guards'[d][i].was <=> i = 1 /\ Preemptible(d)'
                        /\ pc'[d] \in {"cli", "cas"} =>
                             <<guards'[d][i].lock, want'[d]>> \in Nesting
                        /\ \A j \in 1..Len(guards'[d]) :
                             guards'[d][i].lock = guards'[d][j].lock => i = j
    BY ZenonT(30) DEF GuardsInv
  <2>2. guards'[d] = guards[d] /\ want'[d] = want[d] /\ i \in 1..Len(guards[d]) BY <1>1, <2>1
  <2>3. /\ guards[d][i].was <=> i = 1 /\ Preemptible(d)
        /\ pc[d] \in {"cli", "cas"} => <<guards[d][i].lock, want[d]>> \in Nesting
        /\ \A j \in 1..Len(guards[d]) : guards[d][i].lock = guards[d][j].lock => i = j
    BY <2>2, ZenonT(30) DEF LockInv, GuardsInv
  <2>4. QED BY <2>2, <2>3, <1>2, ZenonT(30)
<1>4. MutualExclusion' BY <1>1, OwnersKept, Zenon DEF LockInv
<1>5. QED BY <1>3, <1>4, ZenonT(30)

\* An operation of the running context c leaves the others suspended as they
\* were.
LEMMA SuspendedKept ==
  ASSUME SuspendedInv, NEW c \in Ctx, UNCHANGED <<cpu, mode, syscall>>,
         \A d \in Ctx : Running(d)' <=> d = c,
         \A d \in Ctx : d # c => pc'[d] = pc[d] /\ guards'[d] = guards[d] /\ was'[d] = was[d]
  PROVE  SuspendedInv'
<1>1. SUFFICES ASSUME NEW d \in Ctx, ~Running(d)'
               PROVE  /\ guards'[d] = <<>>
                      /\ d[2] = "task" => d[1] \notin syscall'
                      /\ \/ pc'[d] = "run"
                         \/ /\ pc'[d] \in {"cli", "trycli"} /\ d[2] = "task"
                            /\ mode'[d[1]] = "irq" /\ was'[d]
  BY ZenonT(30) DEF SuspendedInv
<1>2. d # c BY <1>1
<1>3. ~Running(d) BY <1>1 DEF Running
<1>4. /\ guards[d] = <<>>
      /\ d[2] = "task" => d[1] \notin syscall
      /\ \/ pc[d] = "run"
         \/ pc[d] \in {"cli", "trycli"} /\ d[2] = "task" /\ mode[d[1]] = "irq" /\ was[d]
  BY <1>3, Zenon DEF SuspendedInv
<1>5. pc'[d] = pc[d] /\ guards'[d] = guards[d] /\ was'[d] = was[d] BY <1>2, Zenon
<1>6. mode' = mode /\ syscall' = syscall OBVIOUS
<1>7. QED BY <1>4, <1>5, <1>6, Zenon

\* lock() and try_lock() start by saving IF as it is.
LEMMA LockReadStep ==
  ASSUME LockInv, NEW c \in Ctx, NEW l \in Locks, LockRead(c, l)
  PROVE  LockInv'
<1>1. /\ UNCHANGED <<cpu, mode, iflag, syscall, held, guards>>
      /\ Running(c) /\ pc[c] = "run"
      /\ pc' \in {[pc EXCEPT ![c] = "cli"], [pc EXCEPT ![c] = "trycli"]}
      /\ pc'[c] = "cli" => \A i \in 1..Len(guards[c]) : <<guards[c][i].lock, l>> \in Nesting
      /\ want' = [want EXCEPT ![c] = l] /\ was' = [was EXCEPT ![c] = iflag]
  BY DEF LockRead, LockInv, LockTypeOK
<1>2. LockTypeOK' BY <1>1, ZenonT(30) DEF LockInv, LockTypeOK
<1>3. /\ want'[c] = l /\ (was'[c] = iflag) /\ pc'[c] \in {"cli", "trycli"}
      /\ \A d \in Ctx : d # c => pc'[d] = pc[d] /\ want'[d] = want[d] /\ was'[d] = was[d]
  BY <1>1 DEF LockInv, LockTypeOK
<1>4. \A d \in Ctx : Running(d)' <=> d = c
  BY <1>1 DEF Running
<1>5. SuspendedInv'
  <2>1. \A d \in Ctx : d # c => pc'[d] = pc[d] /\ guards'[d] = guards[d] /\ was'[d] = was[d]
    BY <1>1, <1>3
  <2>2. QED BY <1>1, <1>4, <2>1, SuspendedKept, Zenon DEF LockInv
<1>6. FlagInv'
  <2>1. iflag <=> guards[c] = <<>> /\ Preemptible(c) BY <1>1, Zenon DEF LockInv, FlagInv
  <2>2. /\ guards' = guards /\ iflag' = iflag /\ (Preemptible(c)' <=> Preemptible(c))
        /\ pc'[c] \notin {"cas", "trycas", "sti"}
    <3>1. Preemptible(c)' <=> Preemptible(c) BY <1>1, Zenon DEF Preemptible
    <3>2. pc'[c] \notin {"cas", "trycas", "sti"} BY <1>3
    <3>3. QED BY <1>1, <3>1, <3>2, Zenon
  <2>3. QED BY <1>3, <1>4, <2>1, <2>2, Zenon DEF FlagInv
<1>7. GuardsInv'
  <2>1. \A d \in Ctx : \A i \in 1..Len(guards'[d]) :
          /\ guards'[d][i].was <=> i = 1 /\ Preemptible(d)'
          /\ \A j \in 1..Len(guards'[d]) : guards'[d][i].lock = guards'[d][j].lock => i = j
    <3>1. guards' = guards /\ \A d \in Ctx : Preemptible(d)' <=> Preemptible(d)
      BY <1>1, Zenon DEF Preemptible
    <3>2. QED BY ZenonT(60), <3>1 DEF LockInv, GuardsInv
  <2>2. \A d \in Ctx : \A i \in 1..Len(guards'[d]) :
          pc'[d] \in {"cli", "cas"} => <<guards'[d][i].lock, want'[d]>> \in Nesting
    BY <1>1, <1>3, ZenonT(30) DEF LockInv, GuardsInv
  <2>3. QED BY <2>1, <2>2, ZenonT(30) DEF GuardsInv
<1>8. MutualExclusion' BY <1>1, OwnersKept, Zenon DEF LockInv
<1>9. QED BY <1>2, <1>5, <1>6, <1>7, <1>8 DEF LockInv

\* cli: the flag is saved already.
LEMMA LockCliStep ==
  ASSUME LockInv, NEW c \in Ctx, LockCli(c)
  PROVE  LockInv'
<1>1. /\ UNCHANGED <<cpu, mode, syscall, held, want, was, guards>>
      /\ Running(c) /\ pc[c] \in {"cli", "trycli"} /\ iflag' = FALSE
      /\ pc' = [pc EXCEPT ![c] = IF pc[c] = "cli" THEN "cas" ELSE "trycas"]
  BY DEF LockCli
<1>2. LockTypeOK' BY <1>1, Zenon DEF LockInv, LockTypeOK
<1>3. /\ pc'[c] \in {"cas", "trycas"} /\ (pc'[c] = "cas" => pc[c] = "cli")
      /\ \A d \in Ctx : d # c => pc'[d] = pc[d]
  BY <1>1 DEF LockInv, LockTypeOK
<1>4. \A d \in Ctx : Running(d)' <=> d = c
  BY <1>1 DEF Running
<1>5. SuspendedInv'
  <2>1. \A d \in Ctx : d # c => pc'[d] = pc[d] /\ guards'[d] = guards[d] /\ was'[d] = was[d]
    BY <1>1, <1>3
  <2>2. QED BY <1>1, <1>4, <2>1, SuspendedKept, Zenon DEF LockInv
<1>6. FlagInv' BY <1>1, <1>3, <1>4 DEF LockInv, FlagInv, Running, Preemptible
<1>7. GuardsInv' /\ MutualExclusion'
  <2>1. \A d \in Ctx : pc'[d] \in {"cli", "cas"} => pc[d] \in {"cli", "cas"} BY <1>3
  <2>2. QED BY <1>1, <2>1, GuardsKept, ZenonT(30)
<1>8. QED BY <1>2, <1>5, <1>6, <1>7 DEF LockInv

\* Where one context's guards change and it is not inside lock(), the guards
\* of the others stay as they were.
LEMMA GuardsElsewhere ==
  ASSUME GuardsInv, NEW c \in Ctx, pc'[c] \notin {"cli", "cas"},
         \A d \in Ctx : Preemptible(d)' <=> Preemptible(d),
         \A d \in Ctx : d # c => guards'[d] = guards[d] /\ pc'[d] = pc[d] /\ want'[d] = want[d],
         \A i \in 1..Len(guards'[c]) :
           /\ guards'[c][i].was <=> i = 1 /\ Preemptible(c)'
           /\ \A j \in 1..Len(guards'[c]) : guards'[c][i].lock = guards'[c][j].lock => i = j
  PROVE  GuardsInv'
<1>1. SUFFICES ASSUME NEW d \in Ctx, NEW i \in 1..Len(guards'[d])
               PROVE  /\ guards'[d][i].was <=> i = 1 /\ Preemptible(d)'
                      /\ pc'[d] \in {"cli", "cas"} =>
                           <<guards'[d][i].lock, want'[d]>> \in Nesting
                      /\ \A j \in 1..Len(guards'[d]) :
                           guards'[d][i].lock = guards'[d][j].lock => i = j
  BY Zenon DEF GuardsInv
<1>2. CASE d = c BY <1>2, Zenon
<1>3. CASE d # c
  <2>1. guards'[d] = guards[d] /\ pc'[d] = pc[d] /\ want'[d] = want[d] BY <1>3
  <2>2. i \in 1..Len(guards[d]) BY <1>1, <2>1
  <2>3. /\ guards[d][i].was <=> i = 1 /\ Preemptible(d)
        /\ pc[d] \in {"cli", "cas"} => <<guards[d][i].lock, want[d]>> \in Nesting
        /\ \A j \in 1..Len(guards[d]) : guards[d][i].lock = guards[d][j].lock => i = j
    BY <2>2, ZenonT(30) DEF GuardsInv
  <2>4. QED BY <2>1, <2>3, Zenon
<1>4. QED BY <1>2, <1>3

\* A compare-exchange that succeeds makes c the only owner of the lock.
LEMMA LockCasStep ==
  ASSUME LockInv, NEW c \in Ctx, LockCas(c)
  PROVE  LockInv'
<1> DEFINE g == [lock |-> want[c], was |-> was[c]]
           n == Len(guards[c])
<1> HIDE DEF g, n
<1>1. /\ UNCHANGED <<cpu, mode, iflag, syscall, want, was>>
      /\ Running(c) /\ pc[c] \in {"cas", "trycas"} /\ held[want[c]] = NoCtx
      /\ held' = [held EXCEPT ![want[c]] = c]
      /\ guards' = [guards EXCEPT ![c] = Append(guards[c], g)]
      /\ pc' = [pc EXCEPT ![c] = "run"]
  BY Zenon DEF LockCas, g
<1>2. g \in Guard /\ guards[c] \in Seq(Guard) BY ZenonT(30) DEF LockInv, LockTypeOK, Guard, g
<1>3. /\ pc'[c] = "run" /\ guards'[c] = Append(guards[c], g)
      /\ held'[want[c]] = c
      /\ \A d \in Ctx : d # c => pc'[d] = pc[d] /\ guards'[d] = guards[d]
      /\ \A l \in Locks : l # want[c] => held'[l] = held[l]
  BY <1>1 DEF LockInv, LockTypeOK
<1>4. /\ n \in Nat /\ Len(guards'[c]) = n + 1 /\ guards'[c] # <<>>
      /\ \A i \in 1..n : guards'[c][i] = guards[c][i]
      /\ guards'[c][n + 1] = g
      /\ (guards[c] = <<>> <=> n = 0)
  <2>1. n \in Nat /\ (guards[c] = <<>> <=> n = 0) BY <1>2, EmptySeq, LenProperties DEF n
  <2>2. PICK t \in Seq(Guard) : t = guards[c] BY <1>2
  <2>3. /\ Len(Append(t, g)) = n + 1 /\ Append(t, g)[n + 1] = g
        /\ \A i \in 1..n : Append(t, g)[i] = t[i]
    BY <1>2, <2>2, AppendProperties DEF n
  <2>4. Append(t, g) # <<>> BY <1>2, <2>2
  <2>5. QED BY <1>3, <2>1, <2>2, <2>3, <2>4
<1>5. \A d \in Ctx : Running(d)' <=> d = c
  BY <1>1, Zenon DEF Running
<1>6. ~Owns(c, want[c])
  BY <1>1 DEF LockInv, LockTypeOK, MutualExclusion
<1>7. \A l \in Locks : Owns(c, l)' <=> Owns(c, l) \/ l = want[c]
  <2>1. g.lock = want[c] BY DEF g
  <2>2. TAKE l \in Locks
  <2>3. ASSUME Owns(c, l)' PROVE Owns(c, l) \/ l = want[c]
    <3>1. PICK i \in 1..(n + 1) : guards'[c][i].lock = l BY <2>3, <1>4 DEF Owns
    <3>2. i \in 1..n \/ i = n + 1 BY <3>1, <1>4
    <3>3. QED BY <3>1, <3>2, <2>1, <1>4 DEF Owns, g, n
  <2>4. ASSUME Owns(c, l) PROVE Owns(c, l)'
    <3>1. PICK i \in 1..n : guards[c][i].lock = l BY <2>4 DEF Owns, n
    <3>2. i \in 1..(n + 1) BY <3>1, <1>4
    <3>3. QED BY <3>1, <3>2, <1>4 DEF Owns
  <2>5. ASSUME l = want[c] PROVE Owns(c, l)'
    <3>1. n + 1 \in 1..(n + 1) BY <1>4
    <3>2. QED BY <3>1, <2>1, <2>5, <1>4 DEF Owns
  <2>6. QED BY <2>3, <2>4, <2>5
<1>8. \A d \in Ctx, l \in Locks : d # c => (Owns(d, l)' <=> Owns(d, l))
  BY <1>3 DEF Owns
<1>9. LockTypeOK'
  <2>1. Append(guards[c], g) \in Seq(Guard) BY <1>2, AppendProperties
  <2>2. guards' \in [Ctx -> Seq(Guard)] BY <2>1, <1>1 DEF LockInv, LockTypeOK
  <2>3. held' \in [Locks -> Ctx \cup {NoCtx}] BY <1>1 DEF LockInv, LockTypeOK
  <2>4. QED BY <1>1, <2>2, <2>3 DEF LockInv, LockTypeOK
<1>10. SuspendedInv'
  <2>1. \A d \in Ctx : d # c => pc'[d] = pc[d] /\ guards'[d] = guards[d] /\ was'[d] = was[d]
    BY <1>1, <1>3
  <2>2. QED BY <1>1, <1>5, <2>1, SuspendedKept, Zenon DEF LockInv
<1>11. FlagInv' BY <1>1, <1>3, <1>4, <1>5, ZenonT(30) DEF LockInv, FlagInv, Running, Preemptible
<1>12. GuardsInv'
  <2>1. was[c] <=> n = 0 /\ Preemptible(c)
    BY <1>1, <1>4, Zenon DEF LockInv, FlagInv
  <2>2. \A i \in 1..n :
          /\ guards[c][i].lock # want[c]
          /\ guards[c][i].was <=> i = 1 /\ Preemptible(c)
          /\ \A j \in 1..n : guards[c][i].lock = guards[c][j].lock => i = j
    BY <1>6, Zenon DEF Owns, LockInv, GuardsInv, n
  <2>a. n \in Nat BY <1>4
  <2>3. ASSUME NEW i \in 1..(n + 1), NEW j \in 1..(n + 1)
        PROVE  /\ guards'[c][i].was <=> i = 1 /\ Preemptible(c)
               /\ guards'[c][i].lock = guards'[c][j].lock => i = j
    <3>1. /\ i \in 1..n \/ (i = n + 1 /\ i \notin 1..n)
          /\ j \in 1..n \/ (j = n + 1 /\ j \notin 1..n)
      BY <2>a
    <3>2. g.was = was[c] /\ g.lock = want[c] BY DEF g
    <3>3. n = 0 <=> n + 1 = 1 BY <2>a
    <3>4. ASSUME i \in 1..n PROVE guards'[c][i].was <=> i = 1 /\ Preemptible(c)
      BY <3>4, <2>2, <1>4
    <3>5. ASSUME i = n + 1 PROVE guards'[c][i].was <=> i = 1 /\ Preemptible(c)
      BY <3>5, <3>2, <3>3, <1>4, <2>1
    <3>6. guards'[c][i].lock = guards'[c][j].lock => i = j
      <4>1. CASE i \in 1..n /\ j \in 1..n
        <5>1. guards'[c][i] = guards[c][i] /\ guards'[c][j] = guards[c][j] BY <4>1, <1>4
        <5>2. guards[c][i].lock = guards[c][j].lock => i = j BY <4>1, <2>2, Zenon
        <5>3. QED BY <5>1, <5>2, Zenon
      <4>2. CASE i \in 1..n /\ j = n + 1 BY <4>2, <3>2, <2>2, <1>4
      <4>3. CASE i = n + 1 /\ j \in 1..n BY <4>3, <3>2, <2>2, <1>4
      <4>4. QED BY <4>1, <4>2, <4>3, <3>1
    <3>7. QED BY <3>1, <3>4, <3>5, <3>6
  <2>4. \A i \in 1..Len(guards'[c]) :
          /\ guards'[c][i].was <=> i = 1 /\ Preemptible(c)'
          /\ \A j \in 1..Len(guards'[c]) : guards'[c][i].lock = guards'[c][j].lock => i = j
    BY <2>3, <1>1, <1>4 DEF Preemptible
  <2>5. /\ GuardsInv /\ c \in Ctx /\ pc'[c] \notin {"cli", "cas"}
        /\ \A d \in Ctx : Preemptible(d)' <=> Preemptible(d)
    <3>1. \A d \in Ctx : Preemptible(d)' <=> Preemptible(d) BY <1>1, Zenon DEF Preemptible
    <3>2. GuardsInv /\ pc'[c] \notin {"cli", "cas"} BY <1>1, <1>3 DEF LockInv
    <3>3. QED BY <3>1, <3>2
  <2>6. \A d \in Ctx : d # c => guards'[d] = guards[d] /\ pc'[d] = pc[d] /\ want'[d] = want[d]
    BY <1>1, <1>3
  <2>7. QED BY <2>4, <2>5, <2>6, GuardsElsewhere, Zenon
<1>13. MutualExclusion'
  <2>1. \A l \in Locks, d \in Ctx : held'[l] = d <=> Owns(d, l)'
    <3>1. TAKE l \in Locks, d \in Ctx
    <3>2. held[l] = d <=> Owns(d, l) BY DEF LockInv, MutualExclusion
    <3>3. CASE l = want[c]
      <4>1. held'[l] = c /\ held[l] # d BY <1>1, <1>3, <3>3
      <4>2. QED BY <1>7, <1>8, <3>2, <3>3, <4>1, Zenon
    <3>4. CASE l # want[c]
      <4>1. held'[l] = held[l] BY <1>3, <3>4
      <4>2. QED BY <1>7, <1>8, <3>2, <3>4, <4>1, Zenon
    <3>5. QED BY <3>3, <3>4
  <2>2. \A e, d \in Ctx, l \in Locks : Owns(e, l)' /\ Owns(d, l)' => e = d
    <3>1. TAKE e, d \in Ctx, l \in Locks
    <3>2. (held'[l] = e <=> Owns(e, l)') /\ (held'[l] = d <=> Owns(d, l)') BY <2>1, ZenonT(30)
    <3>3. QED BY <3>2, Zenon
  <2>3. QED BY <2>1, <2>2, Zenon DEF MutualExclusion
<1>14. QED BY <1>9, <1>10, <1>11, <1>12, <1>13 DEF LockInv

\* try_lock() gives up: IF is again what it was before the call.
LEMMA TryLockFailsStep ==
  ASSUME LockInv, NEW c \in Ctx, TryLockFails(c)
  PROVE  LockInv'
<1>1. /\ UNCHANGED <<cpu, mode, syscall, held, want, was, guards>>
      /\ Running(c) /\ pc[c] = "trycas"
      /\ iflag' = (iflag \/ was[c]) /\ pc' = [pc EXCEPT ![c] = "run"]
  BY DEF TryLockFails
<1>2. LockTypeOK' BY <1>1 DEF LockInv, LockTypeOK
<1>3. pc'[c] = "run" /\ \A d \in Ctx : d # c => pc'[d] = pc[d]
  BY <1>1 DEF LockInv, LockTypeOK
<1>4. \A d \in Ctx : Running(d)' <=> d = c
  BY <1>1 DEF Running
<1>5. SuspendedInv'
  <2>1. \A d \in Ctx : d # c => pc'[d] = pc[d] /\ guards'[d] = guards[d] /\ was'[d] = was[d]
    BY <1>1, <1>3
  <2>2. QED BY <1>1, <1>4, <2>1, SuspendedKept, Zenon DEF LockInv
<1>6. FlagInv'
  <2>1. iflag' <=> guards[c] = <<>> /\ Preemptible(c)
    BY <1>1, Zenon DEF LockInv, FlagInv
  <2>2. guards' = guards /\ (Preemptible(c)' <=> Preemptible(c))
    BY <1>1, ZenonT(30) DEF Preemptible
  <2>3. QED BY <2>1, <2>2, <1>3, <1>4, Zenon DEF FlagInv
<1>7. GuardsInv' /\ MutualExclusion' BY <1>1, <1>3, GuardsKept, ZenonT(30)
<1>8. QED BY <1>2, <1>5, <1>6, <1>7 DEF LockInv

\* The sti of a drop restores what the guard had saved.
LEMMA DropStiStep ==
  ASSUME LockInv, NEW c \in Ctx, DropSti(c)
  PROVE  LockInv'
<1>1. /\ UNCHANGED <<cpu, mode, syscall, held, want, was, guards>>
      /\ Running(c) /\ pc[c] = "sti"
      /\ iflag' = (iflag \/ was[c]) /\ pc' = [pc EXCEPT ![c] = "run"]
  BY Zenon DEF DropSti
<1>2. LockTypeOK' BY <1>1 DEF LockInv, LockTypeOK
<1>3. pc'[c] = "run" /\ \A d \in Ctx : d # c => pc'[d] = pc[d]
  BY <1>1 DEF LockInv, LockTypeOK
<1>4. \A d \in Ctx : Running(d)' <=> d = c
  BY <1>1 DEF Running
<1>5. SuspendedInv'
  <2>1. \A d \in Ctx : d # c => pc'[d] = pc[d] /\ guards'[d] = guards[d] /\ was'[d] = was[d]
    BY <1>1, <1>3
  <2>2. QED BY <1>1, <1>4, <2>1, SuspendedKept, Zenon DEF LockInv
<1>6. FlagInv'
  <2>1. iflag' <=> guards[c] = <<>> /\ Preemptible(c)
    BY <1>1, Zenon DEF LockInv, FlagInv
  <2>2. guards' = guards /\ (Preemptible(c)' <=> Preemptible(c))
    BY <1>1, ZenonT(30) DEF Preemptible
  <2>3. QED BY <2>1, <2>2, <1>3, <1>4, Zenon DEF FlagInv
<1>7. GuardsInv' /\ MutualExclusion' BY <1>1, <1>3, GuardsKept, ZenonT(30)
<1>8. QED BY <1>2, <1>5, <1>6, <1>7 DEF LockInv

\* The release store: the lock is free, and the newest guard says whether IF
\* is to be set.
LEMMA DropUnlockStep ==
  ASSUME LockInv, NEW c \in Ctx, DropUnlock(c)
  PROVE  LockInv'
<1> DEFINE s == guards[c]
           n == Len(s)
           m == s[n].lock
<1> HIDE DEF s, n, m
<1>1. /\ UNCHANGED <<cpu, mode, iflag, syscall, want>>
      /\ Running(c) /\ pc[c] = "run" /\ s # <<>>
      /\ held' = [held EXCEPT ![m] = NoCtx]
      /\ was' = [was EXCEPT ![c] = s[n].was]
      /\ guards' = [guards EXCEPT ![c] = SubSeq(s, 1, n - 1)]
      /\ pc' = [pc EXCEPT ![c] = "sti"]
  BY DEF DropUnlock, Newest, s, n, m
<1>2. /\ s \in Seq(Guard) /\ n \in Nat /\ n > 0 /\ n \in 1..n
      /\ s[n] \in Guard /\ m \in Locks /\ s[n].was \in BOOLEAN
  <2>1. s \in Seq(Guard) BY DEF LockInv, LockTypeOK, s
  <2>2. n \in Nat /\ n > 0 BY <2>1, <1>1, EmptySeq, LenProperties DEF n
  <2>3. n \in 1..n BY <2>2
  <2>4. s[n] \in Guard BY <2>1, <2>3, ElementOfSeq DEF s, n
  <2>5. QED BY <2>1, <2>2, <2>3, <2>4, ZenonT(30) DEF Guard, s, n, m
<1>3. /\ SubSeq(s, 1, n - 1) \in Seq(Guard) /\ Len(SubSeq(s, 1, n - 1)) = n - 1
      /\ \A i \in 1..(n - 1) : SubSeq(s, 1, n - 1)[i] = s[i]
  <2>1. \A i \in 1..(n - 1) : s[i] \in Guard
    BY <1>2, ElementOfSeq DEF s, n
  <2>2. QED BY <2>1, <1>2, SubSeqProperties
<1>4. /\ pc'[c] = "sti" /\ guards'[c] = SubSeq(s, 1, n - 1)
      /\ (was'[c] = s[n].was) /\ held'[m] = NoCtx
      /\ \A d \in Ctx : d # c => pc'[d] = pc[d] /\ guards'[d] = guards[d] /\ was'[d] = was[d]
      /\ \A l \in Locks : l # m => held'[l] = held[l]
  BY <1>1, <1>2, ZenonT(30) DEF LockInv, LockTypeOK
<1>5. /\ Len(guards'[c]) = n - 1
      /\ \A i \in 1..(n - 1) : guards'[c][i] = s[i] /\ i \in 1..n /\ i # n
      /\ guards'[c] = <<>> <=> n = 1
  <2>1. Len(guards'[c]) = n - 1 /\ \A i \in 1..(n - 1) : guards'[c][i] = s[i]
    BY <1>3, <1>4
  <2>2. \A i \in 1..(n - 1) : i \in 1..n /\ i # n BY <1>2
  <2>3. guards'[c] = <<>> <=> n - 1 = 0
    <3>1. guards'[c] \in Seq(Guard) BY <1>3, <1>4
    <3>2. guards'[c] = <<>> <=> Len(guards'[c]) = 0 BY <3>1, EmptySeq
    <3>3. QED BY <3>2, <2>1
  <2>4. n - 1 = 0 <=> n = 1 BY <1>2
  <2>5. QED BY <2>1, <2>2, <2>3, <2>4
<1>6. \A d \in Ctx : Running(d)' <=> d = c
  BY <1>1 DEF Running
<1>7. \A d \in Ctx : Preemptible(d)' <=> Preemptible(d)
  BY <1>1 DEF Preemptible
<1>8. \A i \in 1..n :
        /\ s[i].was <=> i = 1 /\ Preemptible(c)
        /\ \A j \in 1..n : s[i].lock = s[j].lock => i = j
  BY ZenonT(30) DEF LockInv, GuardsInv, s, n
<1>9. LockTypeOK'
  <2>1. guards' \in [Ctx -> Seq(Guard)] BY <1>1, <1>3 DEF LockInv, LockTypeOK
  <2>2. held' \in [Locks -> Ctx \cup {NoCtx}] BY <1>1, ZenonT(30) DEF LockInv, LockTypeOK
  <2>3. was' \in [Ctx -> BOOLEAN] BY <1>1, <1>2 DEF LockInv, LockTypeOK
  <2>4. QED BY <1>1, <2>1, <2>2, <2>3, Zenon DEF LockInv, LockTypeOK
<1>10. SuspendedInv' BY <1>1, <1>4, <1>6, SuspendedKept, Zenon DEF LockInv
<1>11. FlagInv'
  <2>1. ~iflag' BY <1>1 DEF LockInv, FlagInv, s, n, m
  <2>2. was'[c] <=> guards'[c] = <<>> /\ Preemptible(c)'
    BY <1>2, <1>4, <1>5, <1>7, <1>8, Zenon
  <2>3. QED BY <2>1, <2>2, <1>4, <1>6, ZenonT(30) DEF FlagInv
<1>12. GuardsInv'
  <2>1. \A i \in 1..Len(guards'[c]) :
          /\ guards'[c][i].was <=> i = 1 /\ Preemptible(c)'
          /\ \A j \in 1..Len(guards'[c]) : guards'[c][i].lock = guards'[c][j].lock => i = j
    <3>1. ASSUME NEW i \in 1..(n - 1)
          PROVE  /\ guards'[c][i].was <=> i = 1 /\ Preemptible(c)'
                 /\ \A j \in 1..(n - 1) : guards'[c][i].lock = guards'[c][j].lock => i = j
      <4>1. i \in 1..n /\ guards'[c][i] = s[i] BY <1>5
      <4>2. guards'[c][i].was <=> i = 1 /\ Preemptible(c)' BY <4>1, <1>7, <1>8, Zenon
      <4>3. \A j \in 1..(n - 1) : guards'[c][i].lock = guards'[c][j].lock => i = j
        BY <4>1, <1>5, <1>8, Zenon
      <4>4. QED BY <4>2, <4>3
    <3>2. QED BY <3>1, <1>5, Zenon
  <2>2. GuardsInv /\ c \in Ctx /\ pc'[c] \notin {"cli", "cas"} BY <1>1 DEF LockInv
  <2>3. \A d \in Ctx : d # c => guards'[d] = guards[d] /\ pc'[d] = pc[d] /\ want'[d] = want[d]
    BY <1>1, <1>4
  <2>4. QED BY <2>1, <2>2, <2>3, <1>7, GuardsElsewhere, Zenon
<1>13. MutualExclusion'
  <2>1. ASSUME NEW l \in Locks PROVE Owns(c, l)' <=> Owns(c, l) /\ l # m
    <3>1. ASSUME Owns(c, l)' PROVE Owns(c, l) /\ l # m
      <4>1. PICK i \in 1..(n - 1) : s[i].lock = l BY <3>1, <1>5, Zenon DEF Owns
      <4>2. QED BY <4>1, <1>2, <1>5, <1>8, Zenon DEF Owns, s, n, m
    <3>2. ASSUME Owns(c, l), l # m PROVE Owns(c, l)'
      <4>1. PICK i \in 1..n : s[i].lock = l BY <3>2 DEF Owns, s, n
      <4>a. i # n BY <4>1, <3>2, Zenon DEF m
      <4>2. i \in 1..(n - 1) BY <4>1, <4>a, <1>2
      <4>3. QED BY <4>1, <4>2, <1>5, ZenonT(30) DEF Owns
    <3>3. QED BY <3>1, <3>2, Zenon
  <2>2. \A d \in Ctx, l \in Locks : d # c => (Owns(d, l)' <=> Owns(d, l))
    BY <1>4, ZenonT(30) DEF Owns
  <2>3. Owns(c, m) /\ held[m] = c
    <3>1. Owns(c, m) BY <1>2, Zenon DEF Owns, m, s, n
    <3>2. QED BY <1>2, <3>1, Zenon DEF LockInv, MutualExclusion
  <2>4. \A l \in Locks, d \in Ctx : held'[l] = d <=> Owns(d, l)'
    <3>1. TAKE l \in Locks, d \in Ctx
    <3>2. /\ held[l] = d <=> Owns(d, l)
          /\ \A e \in Ctx : Owns(d, l) /\ Owns(e, l) => d = e
      BY DEF LockInv, MutualExclusion
    <3>3. CASE l = m
      <4>1. held'[l] = NoCtx /\ d # NoCtx BY <1>1, <1>2, <3>3 DEF LockInv, LockTypeOK
      <4>2. d # c => ~Owns(d, l) BY <2>3, <3>2, <3>3
      <4>3. QED BY <2>1, <2>2, <3>3, <4>1, <4>2
    <3>4. CASE l # m
      <4>1. held'[l] = held[l] BY <1>1, <1>2, <3>4 DEF LockInv, LockTypeOK
      <4>2. QED BY <2>1, <2>2, <3>2, <3>4, <4>1
    <3>5. QED BY <3>3, <3>4
  <2>5. \A e, d \in Ctx, l \in Locks : Owns(e, l)' /\ Owns(d, l)' => e = d
    <3>1. TAKE e, d \in Ctx, l \in Locks
    <3>2. (held'[l] = e <=> Owns(e, l)') /\ (held'[l] = d <=> Owns(d, l)') BY <2>4, ZenonT(30)
    <3>3. QED BY <3>2, Zenon
  <2>6. QED BY <2>4, <2>5, Zenon DEF MutualExclusion
<1>14. QED BY <1>9, <1>10, <1>11, <1>12, <1>13 DEF LockInv

\* An interrupt finds the task without guards, at most about to execute cli.
LEMMA InterruptStep ==
  ASSUME LockInv, NEW t \in Tasks, Interrupt(t)
  PROVE  LockInv'
<1> DEFINE c == <<t, "task">>
           h == <<t, "irq">>
<1>1. /\ UNCHANGED <<cpu, syscall, held, pc, want, was, guards>>
      /\ cpu = t /\ mode[t] = "task" /\ iflag /\ iflag' = FALSE
      /\ mode' = [mode EXCEPT ![t] = "irq"]
  BY DEF Interrupt
<1>2. c \in Ctx /\ h \in Ctx /\ c # h /\ c[1] = t /\ c[2] = "task" /\ h[1] = t /\ h[2] = "irq"
  OBVIOUS
<1>3. /\ mode'[t] = "irq"
      /\ \A u \in Tasks : u # t => mode'[u] = mode[u]
      /\ \A d \in Ctx : (Running(d) <=> d = c) /\ (Running(d)' <=> d = h)
  BY <1>1, <1>2 DEF LockInv, LockTypeOK, Running
<1>4. LockTypeOK' BY <1>1, ZenonT(30) DEF LockInv, LockTypeOK
<1>5. /\ guards[c] = <<>> /\ t \notin syscall
      /\ pc[c] = "run" \/ (pc[c] \in {"cli", "trycli"} /\ was[c])
  <2>1. Running(c) BY <1>2, <1>3
  <2>2. pc[c] \in {"run", "cli", "trycli"}
    BY <2>1, <1>1, <1>2 DEF LockInv, FlagInv, LockTypeOK
  <2>3. QED BY <2>1, <2>2, <1>1, <1>2, Zenon DEF LockInv, FlagInv, Preemptible
<1>6. guards[h] = <<>> /\ pc[h] = "run"
  BY <1>2, <1>3 DEF LockInv, SuspendedInv
<1>7. SuspendedInv'
  <2>1. SUFFICES ASSUME NEW d \in Ctx, d # h
                 PROVE  /\ guards[d] = <<>>
                        /\ d[2] = "task" => d[1] \notin syscall
                        /\ \/ pc[d] = "run"
                           \/ pc[d] \in {"cli", "trycli"} /\ d[2] = "task" /\ mode'[d[1]] = "irq" /\ was[d]
    BY <1>1, <1>3 DEF SuspendedInv
  <2>2. CASE d = c BY <2>2, <1>2, <1>3, <1>5
  <2>3. CASE d # c
    <3>1. ~Running(d) BY <2>3, <1>3
    <3>2. /\ guards[d] = <<>>
          /\ d[2] = "task" => d[1] \notin syscall
          /\ \/ pc[d] = "run"
             \/ pc[d] \in {"cli", "trycli"} /\ d[2] = "task" /\ mode[d[1]] = "irq" /\ was[d]
      BY <3>1, Zenon DEF LockInv, SuspendedInv
    <3>3. d[1] \in Tasks /\ d[1] # t BY <2>1, <2>3
    <3>4. mode'[d[1]] = mode[d[1]] BY <3>3, <1>3
    <3>5. QED BY <3>2, <3>4, Zenon
  <2>4. QED BY <2>2, <2>3
<1>8. FlagInv' BY <1>1, <1>2, <1>3, <1>6 DEF FlagInv, Preemptible
<1>9. GuardsInv' /\ MutualExclusion' BY <1>1, GuardsKept, ZenonT(30)
<1>10. QED BY <1>4, <1>7, <1>8, <1>9 DEF LockInv

\* iretq: the interrupted code had IF set.
LEMMA InterruptReturnStep ==
  ASSUME LockInv, NEW t \in Tasks, InterruptReturn(t)
  PROVE  LockInv'
<1> DEFINE c == <<t, "task">>
           h == <<t, "irq">>
<1>1. /\ UNCHANGED <<cpu, syscall, held, pc, want, was, guards>>
      /\ Running(h) /\ pc[h] = "run" /\ guards[h] = <<>>
      /\ iflag' = TRUE /\ mode' = [mode EXCEPT ![t] = "task"]
  BY ZenonT(30) DEF InterruptReturn, Quiet
<1>2. c \in Ctx /\ h \in Ctx /\ c # h /\ c[1] = t /\ c[2] = "task" /\ h[1] = t /\ h[2] = "irq"
  OBVIOUS
<1>3. /\ cpu = t /\ mode[t] = "irq" /\ mode'[t] = "task"
      /\ \A u \in Tasks : u # t => mode'[u] = mode[u]
      /\ \A d \in Ctx : (Running(d) <=> d = h) /\ (Running(d)' <=> d = c)
  BY <1>1, <1>2 DEF LockInv, LockTypeOK, Running
<1>4. LockTypeOK' BY <1>1 DEF LockInv, LockTypeOK
<1>5. /\ guards[c] = <<>> /\ t \notin syscall
      /\ pc[c] = "run" \/ (pc[c] \in {"cli", "trycli"} /\ was[c])
  BY <1>2, <1>3 DEF LockInv, SuspendedInv
<1>6. SuspendedInv'
  <2>1. SUFFICES ASSUME NEW d \in Ctx, d # c
                 PROVE  /\ guards[d] = <<>>
                        /\ d[2] = "task" => d[1] \notin syscall
                        /\ \/ pc[d] = "run"
                           \/ pc[d] \in {"cli", "trycli"} /\ d[2] = "task" /\ mode'[d[1]] = "irq" /\ was[d]
    BY <1>1, <1>3 DEF SuspendedInv
  <2>2. CASE d = h BY <2>2, <1>1, <1>2, ZenonT(30)
  <2>3. CASE d # h
    <3>1. ~Running(d) BY <2>3, <1>3
    <3>2. /\ guards[d] = <<>>
          /\ d[2] = "task" => d[1] \notin syscall
          /\ \/ pc[d] = "run"
             \/ pc[d] \in {"cli", "trycli"} /\ d[2] = "task" /\ mode[d[1]] = "irq" /\ was[d]
      BY <3>1, Zenon DEF LockInv, SuspendedInv
    <3>3. d[1] \in Tasks /\ d[1] # t BY <2>1, <2>3
    <3>4. mode'[d[1]] = mode[d[1]] BY <3>3, <1>3
    <3>5. QED BY <3>2, <3>4, Zenon
  <2>4. QED BY <2>2, <2>3
<1>7. FlagInv'
  <2>1. Preemptible(c)' /\ guards'[c] = <<>> /\ iflag' BY <1>1, <1>2, <1>5 DEF Preemptible
  <2>2. pc'[c] = "run" \/ (pc'[c] \in {"cli", "trycli"} /\ was'[c]) BY <1>1, <1>5
  <2>3. pc'[c] \notin {"cas", "trycas", "sti"} BY <2>2
  <2>4. QED BY <2>1, <2>2, <2>3, <1>3, ZenonT(30) DEF FlagInv
<1>8. GuardsInv' /\ MutualExclusion' BY <1>1, GuardsKept, Zenon
<1>9. QED BY <1>4, <1>6, <1>7, <1>8 DEF LockInv

\* A handler that switches tasks owns no guard, and neither does the task it
\* switches to.
LEMMA SwitchStep ==
  ASSUME LockInv, NEW t \in Tasks, NEW u \in Tasks, Switch(t, u)
  PROVE  LockInv'
<1> DEFINE h == <<t, "irq">>
           c == <<u, mode[u]>>
<1>1. /\ UNCHANGED <<mode, syscall, held, pc, want, was, guards>>
      /\ Running(h) /\ pc[h] = "run" /\ guards[h] = <<>> /\ t # u
      /\ cpu' = u /\ iflag' = (mode[u] = "task")
  BY Zenon DEF Switch, Quiet
<1>2. mode[u] \in Modes BY DEF LockInv, LockTypeOK
<1>3. c \in Ctx /\ h \in Ctx /\ c # h /\ c[1] = u /\ c[2] = mode[u] /\ h[1] = t /\ h[2] = "irq"
  BY <1>1, <1>2
<1>4. \A d \in Ctx : (Running(d) <=> d = h) /\ (Running(d)' <=> d = c)
  BY <1>1, <1>3 DEF Running
<1>5. LockTypeOK' BY <1>1 DEF LockInv, LockTypeOK
<1>6. /\ guards[c] = <<>> /\ (c[2] = "task" => u \notin syscall) /\ pc[c] = "run"
  BY <1>3, <1>4 DEF LockInv, SuspendedInv
<1>7. SuspendedInv' BY <1>1, <1>3, <1>4, ZenonT(30) DEF LockInv, SuspendedInv
<1>8. FlagInv' BY <1>1, <1>3, <1>4, <1>6, ZenonT(30) DEF FlagInv, Preemptible
<1>9. GuardsInv' /\ MutualExclusion' BY <1>1, GuardsKept, Zenon
<1>10. QED BY <1>5, <1>7, <1>8, <1>9 DEF LockInv

\* A system call starts and ends without guards.
LEMMA SyscallStep ==
  ASSUME LockInv, NEW t \in Tasks, SyscallEntry(t) \/ SyscallReturn(t)
  PROVE  LockInv'
<1> DEFINE c == <<t, "task">>
<1>1. /\ UNCHANGED <<cpu, mode, held, pc, want, was, guards>>
      /\ Running(c) /\ pc[c] = "run" /\ guards[c] = <<>>
      /\ iflag' \in BOOLEAN /\ (iflag' <=> t \notin syscall')
      /\ syscall' \subseteq syscall \cup {t}
      /\ \A u \in Tasks : u # t => (u \in syscall' <=> u \in syscall)
  BY Zenon DEF SyscallEntry, SyscallReturn, Quiet
<1>2. c \in Ctx /\ c[1] = t /\ c[2] = "task"
  OBVIOUS
<1>3. /\ cpu = t /\ mode[t] = "task"
      /\ \A d \in Ctx : (Running(d) <=> d = c) /\ (Running(d)' <=> d = c)
  BY <1>1, <1>2 DEF LockInv, LockTypeOK, Running
<1>4. LockTypeOK' BY <1>1 DEF LockInv, LockTypeOK
<1>5. SuspendedInv'
  <2>1. SUFFICES ASSUME NEW d \in Ctx, d # c
                 PROVE  /\ guards[d] = <<>>
                        /\ d[2] = "task" => d[1] \notin syscall'
                        /\ \/ pc[d] = "run"
                           \/ pc[d] \in {"cli", "trycli"} /\ d[2] = "task" /\ mode[d[1]] = "irq" /\ was[d]
    BY <1>1, <1>3, ZenonT(30) DEF SuspendedInv
  <2>2. d[2] = "task" => d[1] # t BY <2>1
  <2>3. QED BY <2>1, <2>2, <1>1, <1>3 DEF LockInv, SuspendedInv
<1>6. FlagInv' BY <1>1, <1>2, <1>3, Zenon DEF FlagInv, Preemptible
<1>7. \A d \in Ctx : guards[d] # <<>> => (d[1] \in syscall' <=> d[1] \in syscall)
  <2>1. TAKE d \in Ctx
  <2>2. HAVE guards[d] # <<>>
  <2>3. FALSE BY <2>2, <1>1, <1>3, ZenonT(30) DEF LockInv, SuspendedInv
  <2>4. QED BY <2>3
<1>8. GuardsInv' /\ MutualExclusion' BY <1>1, <1>7, GuardsKept
<1>9. QED BY <1>4, <1>5, <1>6, <1>8 DEF LockInv

-----------------------------------------------------------------------------
\* LockInv holds in every state the lock, the interrupts and the switches reach.
THEOREM LockInvariance == LockSpec => []LockInv
<1>1. LockInit => LockInv BY LockInitInv
<1>2. LockInv /\ [LockNext]_lockVars => LockInv'
  <2>1. SUFFICES ASSUME LockInv, [LockNext]_lockVars PROVE LockInv' OBVIOUS
  <2>2. ASSUME NEW c \in Ctx, LockCode(c) PROVE LockInv'
    BY <2>1, <2>2, LockCliStep, LockCasStep, TryLockFailsStep, DropUnlockStep, DropStiStep
       DEF LockCode
  <2>3. ASSUME NEW c \in Ctx, NEW l \in Locks, LockRead(c, l) PROVE LockInv'
    BY <2>1, <2>3, LockReadStep
  <2>4. ASSUME NEW t \in Tasks,
               \/ Interrupt(t) \/ InterruptReturn(t)
               \/ SyscallEntry(t) \/ SyscallReturn(t)
               \/ \E u \in Tasks : Switch(t, u)
        PROVE  LockInv'
    BY <2>1, <2>4, InterruptStep, InterruptReturnStep, SyscallStep, SwitchStep
  <2>5. CASE UNCHANGED lockVars
    <3>1. GuardsInv' /\ MutualExclusion' BY <2>1, <2>5, GuardsKept
    <3>2. LockTypeOK' BY <2>1, <2>5 DEF LockInv, LockTypeOK
    <3>3. SuspendedInv' BY <2>1, <2>5, ZenonT(30) DEF LockInv, SuspendedInv, Running
    <3>4. FlagInv' BY <2>1, <2>5 DEF LockInv, FlagInv, Running, Preemptible
    <3>5. QED BY <3>1, <3>2, <3>3, <3>4 DEF LockInv
  <2>6. QED BY <2>1, <2>2, <2>3, <2>4, <2>5 DEF LockNext
<1>3. QED BY <1>1, <1>2, PTL DEF LockSpec

\* The guards of SpinLock<T> are exclusive: lock(), try_lock() and drop() give
\* a lock at most one owner, and `locked` is set exactly while it has one.
THEOREM LockExclusive == LockSpec => []MutualExclusion
<1>1. LockInv => MutualExclusion BY DEF LockInv
<1>2. QED BY <1>1, LockInvariance, PTL

\* lock() never spins: who holds the lock it wants is this context, which the
\* nesting order rules out, or one off the processor, which owns no guard.
THEOREM LockTakesAtOnce == LockSpec => []NeverSpins
<1>1. LockInv => NeverSpins
  <2>1. SUFFICES ASSUME LockInv, NEW c \in Ctx, Running(c), pc[c] = "cas", held[want[c]] # NoCtx
                 PROVE  FALSE
    BY DEF NeverSpins
  <2>2. want[c] \in Locks /\ held[want[c]] \in Ctx BY <2>1 DEF LockInv, LockTypeOK
  <2>3. PICK d \in Ctx : held[want[c]] = d BY <2>2, ZenonT(30)
  <2>4. Owns(d, want[c]) BY <2>1, <2>2, <2>3 DEF LockInv, MutualExclusion
  <2>5. PICK i \in 1..Len(guards[d]) : guards[d][i].lock = want[c] BY <2>4 DEF Owns
  <2>6. guards[d] # <<>> BY <2>5, EmptySeq
  <2>7. d = c BY <2>1, <2>6 DEF LockInv, SuspendedInv, Running
  <2>8. <<guards[c][i].lock, want[c]>> \in Nesting BY <2>1, <2>5, <2>7 DEF LockInv, GuardsInv
  <2>9. QED BY <2>2, <2>5, <2>7, <2>8
<1>2. QED BY <1>1, LockInvariance, PTL

\* IF is off exactly while a guard lives or the context runs masked anyway, so
\* that nested guards never set it early and the outermost one never forgets.
THEOREM FlagRestored == LockSpec => []FlagFollowsGuards
<1>1. LockInv => FlagFollowsGuards
  BY DEF LockInv, FlagInv, FlagFollowsGuards, Preemptible
<1>2. QED BY <1>1, LockInvariance, PTL
=============================================================================
