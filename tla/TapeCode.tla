------------------------------ MODULE TapeCode ------------------------------
(***************************************************************************)
(* The telegraph code of the paper tape (init_tab4).  A line of the tape   *)
(* has five places for holes; pl_to_ind makes of it the number whose bits  *)
(* are the holes, the leftmost place the highest, and the tables are       *)
(* indexed by that number.  Each table is written out in the source, the   *)
(* writing ones apart from the reading ones: nothing but their rows makes  *)
(* one the inverse of the other.                                           *)
(*                                                                         *)
(* A symbol is the number of its three trits, a pair that of its two; a    *)
(* line that is no pair is marked with the symbol NoPair.                  *)
(***************************************************************************)
EXTENDS Integers, Sequences

Symbols   == -13 .. 13
Pairs     == -4 .. 4
TAB_SIZE  == 32
LineCodes == 0 .. TAB_SIZE - 1
NoPair    == 13

TableFrom(first, rows) == [v \in first .. first + Len(rows) - 1 |-> rows[v - first + 1]]

\* The punch: the line of a symbol.
tab4_0 == TableFrom(-13, << 14, 11, 27, 12, 3, 19, 13, 7, 23, 10, 8, 9, 2,
                            15, 1, 6, 4, 5, 26, 24, 25, 18, 16, 17, 22, 21, 20 >>)

\* The readers: the symbol of a line.  An empty line and the four lines that
\* begin with three holes (erased) stand for the symbol 0.
tab4_1_Swapped ==               \* faulty: the rows of 3 and 4 interchanged
    TableFrom(0, << 0, 1, -1, -9, 4, 3, 2, -6, -3, -2, -4, -12, -10, -7, -13, 0,
                    9, 10, 8, -8, 13, 12, 11, -5, 6, 7, 5, -11, 0, 0, 0, 0 >>)

tab4_1 ==
    TableFrom(0, << 0, 1, -1, -9, 3, 4, 2, -6, -3, -2, -4, -12, -10, -7, -13, 0,
                    9, 10, 8, -8, 13, 12, 11, -5, 6, 7, 5, -11, 0, 0, 0, 0 >>)

\* The readers: the pair of a line.
tab4_2 ==
    LET P == NoPair
    IN  TableFrom(0, << P, 1, -1, P, 3, 4, 2, P, -3, -2, -4, P, P, P, P, 0,
                        P, P, P, P, P, P, P, P, P, P, P, P, P, P, P, P >>)

\* The writer of loader tapes: the line of a pair.
tab4_7 == TableFrom(-4, << 10, 8, 9, 2, 15, 1, 6, 4, 5 >>)

Decoder_Command(line) == tab4_2[line] <= 4     \* the line is a pair

-----------------------------------------------------------------------------
(***************************************************************************)
(* Nonary digits.  A word in a source file is five characters; the first   *)
(* of the ten trits they spell has no place in a short word of nine.  A    *)
(* character that is no digit gives two blanks, which count as zeros.      *)
(***************************************************************************)
lt2symtrs(c) ==
    CASE c \in {"W", "w"} -> -4 [] c \in {"X", "x"} -> -3
      [] c \in {"Y", "y"} -> -2 [] c \in {"Z", "z"} -> -1
      [] c = "1" -> 1 [] c = "2" -> 2 [] c = "3" -> 3 [] c = "4" -> 4
      [] OTHER -> 0
=============================================================================
