---------------------------- MODULE MCCommands -----------------------------
(***************************************************************************)
(* Commands with the seven commands and sleep, two files of /home and the  *)
(* file of one command, which lines and programs read, overwrite, move and *)
(* remove.                                                                 *)
(***************************************************************************)
EXTENDS Commands

W(word) == <<word>>
A == <<"", "home", "readme.txt">>
B == <<"", "home", "b">>
H == <<"", "home">>
CAT == <<"", "bin", "cat">>
Odd == <<"", "home", ".", "readme.txt", "">>   \* "/home/./readme.txt/"

MCProgramId == {"ls", "rm", "mv", "cp", "touch", "cat", "echo", "sleep"}
MCNameOrder ==
  <<"b", "bin", "cat", "cp", "echo", "home", "ls", "mv", "readme.txt", "rm", "sleep", "touch">>
MCPaths == {H, CAT}

\* What programs write: an image whose program headers lie past its end,
\* one whose segment's end does not fit a usize, and one with nothing to
\* load.
Damaged(phoff, s) == <<Header("cat", phoff, 1), s, Code("cat")>>
MCChunks ==
  { Damaged(3, Segment("load", "cat", 2, 1, 1)),
    Damaged(1, Segment("load", "cat", Word - 1, 2, 2)),
    Damaged(1, Segment("note", "cat", 2, 1, 1)) }

MCLines ==
  {<<W("rm"), p>> : p \in {A, H, CAT}}
  \cup {<<W("mv"), p, q>> : p \in {A, CAT, H}, q \in {B, CAT}}
  \cup {<<W("cp"), p, q>> : p \in {<<"", "bin", "cp">>, B}, q \in {A, CAT}}
  \cup { <<W("touch"), Odd>>,
         <<W("cat"), A, B, W(">"), A>>,
         <<W("cat"), W("<"), A, W(">>"), B>>,
         <<W("cat"), CAT, W(">>"), A>>,
         <<W("echo"), W("x"), W(">"), B>>,
         <<W("rm"), B, W(">>"), H>>,
         <<W("mv"), B, A, W(">"), CAT>>,
         <<W("ls"), H>>,
         <<W("ls"), W("a"), W(">"), B>>,
         <<W("cp"), A>>,
         <<W(">"), A>>,
         <<W("sleep"), W(">")>>,
         <<W(">"), B, W("sleep")>>,
         <<W("dd")>> }

\* As the view: states that differ only in the last result have the same
\* successors, and the properties read the result of the step they judge.
Tree == fs
=============================================================================
