----------------------------- MODULE MCSyscalls -----------------------------
(***************************************************************************)
(* Syscalls with a file in the root and a directory in its way.  Writes    *)
(* that overlap can be told apart by their bytes.                          *)
(***************************************************************************)
EXTENDS Syscalls

MCPaths == {<<"", "a">>, <<"", "d">>}
MCChunks == {<<"x">>, <<"y", "z">>}
MCFlagSets == {{"READ"}, {"READ", "WRITE", "CREATE"}, {"WRITE", "CREATE", "APPEND"},
               {"WRITE", "TRUNC"}}

\* States that differ only in the last result have the same successors, and
\* the properties read the result of the step they judge.
Files == <<fs, entries>>
=============================================================================
