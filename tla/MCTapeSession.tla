---------------------------- MODULE MCTapeSession ----------------------------
(***************************************************************************)
(* Three directories of sources: one with two files and a script, one with *)
(* a list whose last line is shorter than the name before it and without a *)
(* script, and one without a list.  Frames of two bytes, one blank frame    *)
(* between files, blocks of five bytes, pages of up to three words.        *)
(***************************************************************************)
EXTENDS TapeSession

MCCharacters == 0 .. 9
MCBlankFrame == << 0, 0 >>
A  == << 2 >>
BB == << 3, 3 >>

MCList(p) ==
    CASE p = "steady"    -> << [name |-> BB, newline |-> TRUE], [name |-> A, newline |-> TRUE] >>
      [] p = "shrinking" -> << [name |-> BB, newline |-> TRUE], [name |-> A, newline |-> FALSE] >>
      [] p = "unlisted"  -> Missing

MCSourceFile(p, name) ==
    CASE p = "steady" /\ name = A     -> << << 1, 2 >> >>
      [] p = "steady" /\ name = BB    -> << << 3, 4 >>, << 5, 6 >> >>
      [] p = "shrinking" /\ name = BB -> << << 7, 9 >> >>
      [] p = "shrinking" /\ name = A  -> << << 9, 9 >> >>
      [] OTHER                        -> Missing

MCScript(p) == IF p = "shrinking" THEN Missing ELSE p

MCFirstTape(d) == IF d = "ptr1" THEN << 8, 8, 8, Space, 8, 8, Space >> ELSE Missing
=============================================================================
