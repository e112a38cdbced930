------------------------------ MODULE Commands ------------------------------
(***************************************************************************)
(* The shell's commands, src/user/commands.rs, over the file system of     *)
(* RamFs and the executables of Elf.                                       *)
(*                                                                         *)
(* A line is a sequence of words.  A word is the sequence of its pieces    *)
(* between slashes, like a path of RamFs, so that any word can be taken    *)
(* for a path: "cat" is <<"cat">> and "/a" is <<"", "a">>.  A line runs    *)
(* under the lock of KERNEL_FS (with_runtime_fs), so it is one step;       *)
(* between lines, running programs create directories and write files      *)
(* through the system calls.                                               *)
(***************************************************************************)
EXTENDS RamFs, Elf

CONSTANTS
  Lines,       \* the lines typed at the prompt, split into words
  NameOrder    \* the names of files, in the order names.sort() gives them

vars == <<fs, last>>

Space == [unit |-> "space"]
Newline == [unit |-> "newline"]
Text(word) == [unit |-> "text", word |-> word]

\* What files hold.
Unit == Binary \cup {Space, Newline} \cup [unit : {"text"}, word : Seq(STRING)]

ASSUME LinesAssumption == Lines \subseteq Seq(Seq(STRING))
ASSUME NameOrderAssumption == NameOrder \in Seq(STRING)
ASSUME UnitsAssumption == Chunks \subseteq Seq(Binary)
ASSUME ProgramsAssumption ==
  /\ IsFiniteSet(ProgramId) /\ ProgramId \subseteq STRING \ {"", ".", "mkdir", "write"}
  /\ IsFiniteSet(Seed) /\ {"bin", "home"} \subseteq Seed
\* True of any strings; the provers do not know it.
ASSUME LiteralsAssumption == {"", "readme.txt", "Welcome"} \subseteq STRING

Answer(f, res, out) == [fs |-> f, res |-> res, out |-> out]
Fails(f, err) == Answer(f, err, <<>>)

\* A method of RamFs called for its effect; the output is empty.
Done(r) == Fails(r.fs, r.res)

Bin(program) == <<"", "bin", program>>

install_programs(f) ==
  LET files == {<<"bin", program>> : program \in ProgramId}
  IN  [p \in files \cup DOMAIN f |->
         IF p \in files THEN File(build_program_image(Last(p))) ELSE f[p]]

Readme == <<"", "home", "readme.txt">>
seed_runtime_fs == write(install_programs(new), Readme, <<Text(<<"Welcome">>)>>).fs

\* Mutant of load_program: any executable will do.
load_programAny(f, name) ==
  IF name \notin {<<program>> : program \in ProgramId} THEN "Unknown"
  ELSE IF read(f, Bin(name[1])) # "Ok" THEN read(f, Bin(name[1]))
  ELSE LET parsed == parse(contents(f, Bin(name[1])))
       IN  IF parsed.res # "Ok" THEN "BadExecutable" ELSE "Ok"

load_program(f, name) ==
  IF name \notin {<<program>> : program \in ProgramId} THEN "Unknown"
  ELSE IF read(f, Bin(name[1])) # "Ok" THEN read(f, Bin(name[1]))
  ELSE LET parsed == parse(contents(f, Bin(name[1])))
       IN  IF parsed.res = "Panic" THEN "Panic"
           ELSE IF parsed.res # "Ok" \/ parsed.program # name[1] THEN "BadExecutable"
           ELSE "Ok"

(***************************************************************************)
(* The commands.  words[1] is the command itself.                          *)
(***************************************************************************)
cmd_ls(f, words) ==
  LET path == IF Len(words) > 1 THEN words[2] ELSE <<"", "">>
      sorted == Without(NameOrder, Range(NameOrder) \ names(f, path))
  IN  IF list(f, path) # "Ok" THEN Fails(f, list(f, path))
      ELSE Answer(f, "Ok", Flatten([i \in DOMAIN sorted |-> <<Text(<<sorted[i]>>), Newline>>]))

\* A command that needs n operands.
Needing(f, words, n, call) ==
  IF Len(words) <= n THEN Fails(f, "MissingArgument") ELSE Done(call)

cmd_rm(f, words) == Needing(f, words, 1, remove(f, words[2]))
cmd_mv(f, words) == Needing(f, words, 2, rename(f, words[2], words[3]))
cmd_cp(f, words) == Needing(f, words, 2, copy(f, words[2], words[3]))
cmd_touch(f, words) == Needing(f, words, 1, touch(f, words[2]))

cmd_cat(f, words, input) ==
  LET bad == {i \in 2..Len(words) : read(f, words[i]) # "Ok"}
  IN  IF Len(words) = 1 THEN Answer(f, "Ok", input)
      ELSE IF bad # {} THEN Fails(f, read(f, words[Min(bad)]))
      ELSE Answer(f, "Ok", Flatten([i \in 1..(Len(words) - 1) |-> contents(f, words[i + 1])]))

cmd_echo(f, words) ==
  LET spaced == [i \in 1..(Len(words) - 1) |->
                   (IF i = 1 THEN <<>> ELSE <<Space>>) \o <<Text(words[i + 1])>>]
  IN  Answer(f, "Ok", Flatten(spaced) \o <<Newline>>)

dispatch(f, words, input) ==
  LET loaded == IF words = <<>> THEN "Empty" ELSE load_program(f, words[1])
  IN
  IF loaded # "Ok" THEN Fails(f, loaded)
  ELSE CASE words[1] = <<"ls">> -> cmd_ls(f, words)
         [] words[1] = <<"rm">> -> cmd_rm(f, words)
         [] words[1] = <<"mv">> -> cmd_mv(f, words)
         [] words[1] = <<"cp">> -> cmd_cp(f, words)
         [] words[1] = <<"touch">> -> cmd_touch(f, words)
         [] words[1] = <<"cat">> -> cmd_cat(f, words, input)
         [] words[1] = <<"echo">> -> cmd_echo(f, words)
         [] OTHER -> Fails(f, "Unknown")

(***************************************************************************)
(* A whole line.                                                           *)
(***************************************************************************)
Redirections == {<<">">>, <<">>">>, <<"<">>}

\* One turn of the loop over the words: op is a redirection that waits for
\* its path, rest the words that are left to the command.
scan_word(f, s, word) ==
  IF s.res # "Ok" THEN s
  ELSE IF s.op = <<>> /\ word \in Redirections THEN [s EXCEPT !.op = word]
  ELSE IF s.op = <<>> THEN [s EXCEPT !.rest = Append(@, word)]
  ELSE IF s.op # <<"<">> THEN [s EXCEPT !.to = <<word>>, !.append = (s.op = <<">>">>), !.op = <<>>]
  ELSE IF read(f, word) # "Ok" THEN [s EXCEPT !.res = read(f, word)]
  ELSE [s EXCEPT !.input = contents(f, word), !.op = <<>>]

scan(f, line) ==
  LET start == [res |-> "Ok", op |-> <<>>, rest |-> <<>>, input |-> <<>>,
                to |-> <<>>, append |-> FALSE]
      after[i \in 0..Len(line)] ==
        IF i = 0 THEN start ELSE scan_word(f, after[i - 1], line[i])
      s == after[Len(line)]
  IN  IF s.res = "Ok" /\ s.op # <<>> THEN [s EXCEPT !.res = "MissingArgument"] ELSE s

\* Mutant of run_command: the file is opened, and so emptied, before the
\* command runs, as in other shells.
run_commandOpensFirst(f, line) ==
  LET s == scan(f, line)
      opened == IF s.to = <<>> \/ s.append THEN f ELSE write(f, s.to[1], <<>>).fs
      r == dispatch(opened, s.rest, s.input)
  IN  IF s.res # "Ok" THEN Fails(f, s.res)
      ELSE IF r.res # "Ok" \/ s.to = <<>> THEN r
      ELSE Done(append(r.fs, s.to[1], r.out))

run_command(f, line) ==
  LET s == scan(f, line)
      r == dispatch(f, s.rest, s.input)
  IN  IF line = <<>> THEN Fails(f, "Empty")
      ELSE IF s.res # "Ok" THEN Fails(f, s.res)
      ELSE IF r.res # "Ok" \/ s.to = <<>> THEN r
      ELSE IF s.append THEN Done(append(r.fs, s.to[1], r.out))
      ELSE Done(write(r.fs, s.to[1], r.out))

(***************************************************************************)
(* The state machine.                                                      *)
(***************************************************************************)
Call(words, to, append_to, res) ==
  [words |-> words, to |-> to, append |-> append_to, res |-> res]

Init == fs = seed_runtime_fs /\ last = Call(<<>>, <<>>, FALSE, "Ok")

\* A panic stops the kernel: there is no next state.
Return(r) == r.res # "Panic" /\ Within(r.fs) /\ fs' = r.fs

RunLine(line) ==
  \E s \in {scan(fs, line)}, r \in {run_command(fs, line)} :
    Return(r) /\ last' = Call(s.rest, s.to, s.append, r.res)

Mkdir(path) ==
  LET r == mkdir(fs, path)
  IN  Return(r) /\ last' = Call(<<<<"mkdir">>, path>>, <<>>, FALSE, r.res)

WriteFile(path, data) ==
  LET r == write(fs, path, data)
  IN  Return(r) /\ last' = Call(<<<<"write">>, path>>, <<>>, FALSE, r.res)

Next ==
  \/ \E line \in Lines : RunLine(line)
  \/ \E path \in Paths : Mkdir(path)
  \/ \E path \in Paths, data \in Chunks : WriteFile(path, data)

Spec == Init /\ [][Next]_vars

-----------------------------------------------------------------------------
Differ(f, g) ==
  {p \in DOMAIN f \cup DOMAIN g : p \notin DOMAIN f \cap DOMAIN g \/ f[p] # g[p]}

Ran(command) == last'.res = "Ok" /\ last'.words[1] = <<command>>
Redirected == last'.to # <<>>

\* A line touches what it names and nothing else: apart from mv (rename),
\* a command changes one node at most and the redirection one more.  A line
\* that fails changes nothing, unless what fails is the redirection, after
\* its command has run (run_command).
CallsAreLocal ==
  [][last'.words = <<>> \/ last'.words[1] # <<"mv">> =>
       Cardinality(Differ(fs, fs'))
         <= (IF last'.res = "Ok" THEN 1 ELSE 0) + (IF Redirected THEN 1 ELSE 0)]_vars

\* A mv that succeeds takes the whole subtree to the new name, unchanged,
\* and nothing is left behind, lost or overwritten (rename).
RenameMoves ==
  [][Ran("mv") /\ ~Redirected =>
       LET old == split_path(last'.words[2])
           new_place == split_path(last'.words[3])
           moved(q) == new_place \o SubSeq(q, Len(old) + 1, Len(q))
       IN  /\ Cardinality(DOMAIN fs') = Cardinality(DOMAIN fs)
           /\ \A q \in Below(fs, old) : moved(q) \in DOMAIN fs' /\ fs'[moved(q)] = fs[q]
           /\ \A q \in DOMAIN fs \ Below(fs, old) : q \in DOMAIN fs' /\ fs'[q] = fs[q]]_vars

\* cat with its output redirected reads every operand as it was before the
\* line ran, also when the target is one of them: "cat /a /b > /a" leaves
\* both contents in /a, and ">>" doubles a file (run_command).
RedirectionReadsFirst ==
  [][Ran("cat") /\ Redirected /\ Len(last'.words) > 1 =>
       LET to == split_path(last'.to[1])
           kept == IF last'.append /\ to \in DOMAIN fs THEN fs[to].data ELSE <<>>
           operands == [i \in 1..(Len(last'.words) - 1) |-> contents(fs, last'.words[i + 1])]
       IN  fs'[to].data = kept \o Flatten(operands)]_vars

\* Whatever is copied, moved or written over the files of /bin, a command
\* runs only from an image that is its own: it starts with the header of
\* that program and the segment to load lies inside it (load_program).
ProgramsRunAsNamed ==
  [][last'.res = "Ok" =>
       LET ran == last'.words[1][1]
           image == fs[<<"bin", ran>>].data
       IN  ran \in ProgramId =>
             /\ image[1].unit = "header" /\ image[1].entry = ran
             /\ \E i \in DOMAIN image :
                  image[i].unit = "segment" /\ image[i].offset + image[i].filesz <= Len(image)]_vars

\* An image that parse accepts can be loaded: its segment lies inside the
\* file, however large the numbers in the file are, and fits in the memory
\* it asks for (parse, which spawn_elf trusts when it copies the segment).
LoadInImage ==
  \A p \in DOMAIN fs :
    IsFile(fs, p) /\ parse(fs[p].data).res = "Ok" =>
      LET load == parse(fs[p].data).load
      IN  /\ load \in Range(fs[p].data)
          /\ load.offset + load.filesz <= Len(fs[p].data)
          /\ load.filesz <= load.memsz

=============================================================================
