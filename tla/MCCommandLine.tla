---------------------------- MODULE MCCommandLine ----------------------------
(***************************************************************************)
(* Lines of at most five characters, of a separator and the letters of the *)
(* aliases b, r and br; a history of two lines.                            *)
(***************************************************************************)
EXTENDS CommandLine

MCChars      == {" ", "b", "R"}
MCSeparators == {" "}
=============================================================================
