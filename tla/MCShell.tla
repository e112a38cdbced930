------------------------------ MODULE MCShell ------------------------------
(***************************************************************************)
(* Shell with up to two jobs of one or two seconds.                        *)
(***************************************************************************)
EXTENDS Shell

MCWords == {"sleep", "fg", "&", "0", "1", "2"}
MCValue == [w \in {"0", "1", "2"} |-> CASE w = "0" -> 0 [] w = "1" -> 1 [] w = "2" -> 2]
=============================================================================
