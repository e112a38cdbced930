------------------------------- MODULE Shell -------------------------------
(***************************************************************************)
(* The kernel shell of src/main.rs: line editing, jobs in the foreground   *)
(* and in the background, and the clock that drives them.                  *)
(*                                                                         *)
(* The shell is the boot process's main loop: hlt until an interrupt, let  *)
(* the jobs catch up with the timer, handle the input there is.  A line is *)
(* a sequence of words, the word standing for the keystrokes that type it. *)
(* Time is what the shell knows of it: lag is how many seconds the timer   *)
(* is ahead of last_second.                                                *)
(***************************************************************************)
EXTENDS Naturals, SeqParts

CONSTANTS
  Words,      \* words that can be typed
  Value,      \* the numbers among them: what parse_u32/parse_u64 return
  Default,    \* seconds of a job that is given no number
  MaxLine,    \* bound on the words of a line
  MaxId,      \* bound on the jobs started
  MaxLag      \* bound on the seconds between two polls

ASSUME ValueAssumption ==
  /\ DOMAIN Value \subseteq Words
  /\ \A w \in DOMAIN Value : Value[w] \in Nat
ASSUME ShellBoundsAssumption ==
  /\ Default \in Nat \ {0} /\ MaxLine \in Nat /\ MaxId \in Nat /\ MaxLag \in Nat \ {0}

VARIABLES
  phase,    \* "halt", "poll" or "input": where the main loop is
  line,     \* Shell::line
  active,   \* Shell::active: <<>> or <<job>>
  jobs,     \* Shell::jobs
  nextId,   \* Shell::next_job_id
  lag,      \* timer_ticks() / 100 - Shell::last_second
  due       \* the same with the clock as poll_jobs read it: seconds - last_second

vars == <<phase, line, active, jobs, nextId, lag, due>>

Init ==
  /\ phase = "halt" /\ line = <<>> /\ active = <<>> /\ jobs = <<>>
  /\ nextId = 1 /\ lag = 0 /\ due = 0

\* age counts the seconds of the timer since the job was started, and late
\* those that were still to be polled then (neither is in the code).
Job(id, seconds, background) ==
  [id |-> id, remaining |-> seconds, total |-> seconds,
   background |-> background, age |-> 0, late |-> lag]

(***************************************************************************)
(* Time.                                                                   *)
(***************************************************************************)
\* The bound on age is one that a job which ends in time never passes.
Older(s) ==
  [i \in DOMAIN s |->
     [s[i] EXCEPT !.age = IF @ < s[i].total + MaxLag THEN @ + 1 ELSE @]]

TimerSecond ==
  /\ lag < MaxLag
  /\ lag' = lag + 1
  /\ active' = Older(active) /\ jobs' = Older(jobs)
  /\ UNCHANGED <<phase, line, nextId, due>>

tick_job(job) ==
  [job EXCEPT !.remaining = IF @ = 0 THEN 0 ELSE @ - 1]

ToSet(s) == {s[i] : i \in DOMAIN s}

\* Every job loses a second; those that reach zero are done and leave.
tick_all(s) ==
  LET ticked == [i \in DOMAIN s |-> tick_job(s[i])]
  IN  Without(ticked, {job \in ToSet(ticked) : job.remaining = 0})

\* Mutant of tick_one_second: a job in the foreground stops the others.
tick_one_secondFirst ==
  IF active # <<>> THEN active' = tick_all(active) /\ UNCHANGED jobs
                   ELSE jobs' = tick_all(jobs) /\ UNCHANGED active

tick_one_second == active' = tick_all(active) /\ jobs' = tick_all(jobs)

\* Mutant of PollJobs: the loop counts one second too many (<= for <).
PollJobsOneMore ==
  /\ phase = "halt"
  /\ phase' = "poll"
  /\ due' = lag + 1
  /\ UNCHANGED <<line, active, jobs, nextId, lag>>

\* Mutant of PollJobs: last_second is set to the clock before the loop.
PollJobsSkips ==
  /\ phase = "halt"
  /\ phase' = "poll"
  /\ due' = 0 /\ lag' = 0
  /\ UNCHANGED <<line, active, jobs, nextId>>

\* hlt returns with the next interrupt; poll_jobs reads the clock, once.
PollJobs ==
  /\ phase = "halt"
  /\ phase' = "poll"
  /\ due' = lag
  /\ UNCHANGED <<line, active, jobs, nextId, lag>>

\* One turn of poll_jobs's loop.  The timer goes on meanwhile, and what it
\* adds is left to the next poll.
PollSecond ==
  /\ phase = "poll" /\ due > 0
  /\ due' = due - 1 /\ lag' = lag - 1
  /\ tick_one_second
  /\ UNCHANGED <<phase, line, nextId>>

PollEnds ==
  /\ phase = "poll" /\ due = 0
  /\ phase' = "input"
  /\ UNCHANGED <<line, active, jobs, nextId, lag, due>>

\* read_serial_byte finds no more bytes.
InputEmpty ==
  /\ phase = "input"
  /\ phase' = "halt"
  /\ UNCHANGED <<line, active, jobs, nextId, lag, due>>

(***************************************************************************)
(* handle_byte.  While a job is in the foreground only Ctrl-Z counts.      *)
(***************************************************************************)
\* Mutant of Suspend: the job is not marked.
SuspendUnmarked ==
  /\ phase = "input" /\ active # <<>>
  /\ jobs' = Append(jobs, active[1])
  /\ active' = <<>>
  /\ UNCHANGED <<phase, line, nextId, lag, due>>

Suspend ==
  /\ phase = "input" /\ active # <<>>
  /\ jobs' = Append(jobs, [active[1] EXCEPT !.background = TRUE])
  /\ active' = <<>>
  /\ UNCHANGED <<phase, line, nextId, lag, due>>

Editing == phase = "input" /\ active = <<>>

TypeWord(w) ==
  /\ Editing
  /\ Len(line) < MaxLine
  /\ line' = Append(line, w)
  /\ UNCHANGED <<phase, active, jobs, nextId, lag, due>>

Backspace ==
  /\ Editing
  /\ line # <<>>
  /\ line' = Front(line)
  /\ UNCHANGED <<phase, active, jobs, nextId, lag, due>>

\* run_line: a trailing & asks for the background and is cut off.
Background == line # <<>> /\ Last(line) = "&"
Command == IF Background THEN Front(line) ELSE line

Number(words, default) ==
  IF Len(words) > 1 /\ words[2] \in DOMAIN Value THEN Value[words[2]] ELSE default

\* sleep and count (which differ in what they print).
StartLongJob ==
  LET seconds == Number(Command, Default)
      job == Job(nextId, IF seconds = 0 THEN 1 ELSE seconds, Background)
  IN  /\ Editing
      /\ Command # <<>> /\ Command[1] = "sleep"
      /\ nextId <= MaxId
      /\ nextId' = nextId + 1
      /\ IF Background THEN jobs' = Append(jobs, job) /\ UNCHANGED active
                       ELSE active' = <<job>> /\ UNCHANGED jobs
      /\ line' = <<>>
      /\ UNCHANGED <<phase, lag, due>>

\* fg: the first job with this id comes to the foreground.
ForegroundJob ==
  LET id == Number(Command, 0)   \* no job has id 0
      matches == {i \in DOMAIN jobs : jobs[i].id = id}
      index == CHOOSE i \in matches : \A j \in matches : i <= j
  IN  /\ Editing
      /\ Command # <<>> /\ Command[1] = "fg"
      /\ IF matches = {} THEN UNCHANGED <<active, jobs>>
         ELSE /\ active' = <<[jobs[index] EXCEPT !.background = FALSE]>>
              /\ jobs' = RemoveAt(jobs, index)
      /\ line' = <<>>
      /\ UNCHANGED <<phase, nextId, lag, due>>

\* An empty line, jobs, run, a command for run_command, or sleep when its
\* program is not in /bin: the shell's own state stays as it is.
OtherLine ==
  /\ Editing
  /\ ~(Command # <<>> /\ Command[1] = "fg")
  /\ line' = <<>>
  /\ UNCHANGED <<phase, active, jobs, nextId, lag, due>>

Next ==
  \/ TimerSecond \/ PollJobs \/ PollSecond \/ PollEnds \/ InputEmpty
  \/ Suspend \/ Backspace \/ \E w \in Words : TypeWord(w)
  \/ StartLongJob \/ ForegroundJob \/ OtherLine

Spec == Init /\ [][Next]_vars

\* The timer goes on and its interrupts end every hlt; input comes slower
\* than the shell handles it, so the loop over it ends.
FairSpec ==
  /\ Spec
  /\ WF_vars(TimerSecond)
  /\ WF_vars(PollJobs) /\ WF_vars(PollSecond) /\ WF_vars(PollEnds)
  /\ WF_vars(InputEmpty)

-----------------------------------------------------------------------------
Live == ToSet(active) \cup ToSet(jobs)
Ids == {job.id : job \in Live}

\* A job is in one place, under an id of its own, and is marked for where
\* it is, however often Ctrl-Z and fg moved it.
JobsConsistent ==
  /\ LET all == active \o jobs
     IN  \A i, j \in DOMAIN all : all[i].id = all[j].id => i = j
  /\ \A job \in Live : job.id < nextId
  /\ \A job \in ToSet(jobs) : job.background
  /\ \A job \in ToSet(active) : ~job.background

\* Every second of the timer counts once for every job, in the foreground
\* or not, also when a neighbour in the list finishes and when the poll is
\* behind; a job whose time is up is gone.  A job is short of its time by
\* the seconds that poll_jobs owed when it started, and by no others:
\* start_long_job does not bring last_second up to date.
EverySecondCounts ==
  \A job \in Live :
    job.remaining + (job.age + job.late - lag) = job.total /\ job.remaining > 0

\* A job leaves only in a turn of the poll, and only when the timer has
\* counted its time: fg never overwrites a job in the foreground, Ctrl-Z
\* never drops one, not even one that is due, and the poll never runs ahead
\* of the clock.
NoJobLost ==
  [][\A job \in Live :
       job.id \notin Ids' => job.total <= job.age + job.late /\ lag' = lag - 1]_vars

\* Every job that is started finishes, wherever it is moved meanwhile.
JobsFinish == \A id \in 1..MaxId : id \in Ids ~> id \notin Ids
=============================================================================
