----------------------------- MODULE PaperTape -----------------------------
(***************************************************************************)
(* The paper tapes of the emulator: the two readers FT1 and FT2, the punch *)
(* PTP1 and the writer that turns lists of words into a tape for FT1.      *)
(*                                                                         *)
(* A tape is the sequence of the tokens fscanf("%s") finds in a file:      *)
(*   Line(c)    a line with the holes of the code c,                       *)
(*   Nonary(w)  five nonary digits that spell the word w.                  *)
(* A line read as part of a command is a pair of trits, or is skipped; as  *)
(* a symbol every line counts, an empty or erased one as the symbol 0.     *)
(*                                                                         *)
(* RT is even here, as in the program, so that the first command frame of  *)
(* a word carries one trit of it.                                          *)
(***************************************************************************)
EXTENDS Memory, TapeCode

ASSUME PaperTapeAssumption == RT % 2 = 0

Line(c)   == [kind |-> "line", v |-> c]
Nonary(w) == [kind |-> "word", v |-> w]

Token == [kind : {"line"}, v : LineCodes] \cup [kind : {"word"}, v : Int]
Tape  == Seq(Token)

Blank     == Line(0)
Separator == Line(17)      \* the line O__._O after the frames of a word
Frame(s)  == Line(tab4_0[s])

CommandFrames == (SW + 1) \div 2      \* frames of a word of commands: 5
SymbolFrames  == (SW + 2) \div 3      \* frames of a word of symbols: 3
StopSymbol    == -13

Decoder_Command_Paper_Line(t) == t.kind = "line" /\ Decoder_Command(t.v)
Decoder_Symbol_Paper_Line(t)  == t.kind = "line"

\* f[1] to f[n], one after the other: the first half of them and the second.
Concat(f, n) ==
    LET cat[part \in (1 .. n) \X (1 .. n)] ==
            LET first  == part[1]
                last   == part[2]
                middle == (first + last) \div 2
            IN  IF first = last THEN f[first]
                ELSE cat[<< first, middle >>] \o cat[<< middle + 1, last >>]
    IN  IF n = 0 THEN <<>> ELSE cat[<< 1, n >>]

\* The positions of the tokens of a tape the decoder accepts.
Accepted(tape, Decoder(_)) ==
    Concat([i \in 1 .. Len(tape) |-> IF Decoder(tape[i]) THEN << i >> ELSE <<>>],
           Len(tape))

\* What the line at position i means by one of the tables.
Decoded(tape, i, table) ==
    IF i \in DOMAIN tape /\ tape[i].kind = "line" THEN table[tape[i].v] ELSE 0

\* Word number k of the accepted frames, n frames of b trits each, the first
\* of which loses the trits that do not fit into the word.
WordAt(tape, at, k, n, b, table) ==
    mod_3_n(SumTo([j \in 0 .. n-1 |->
                Decoded(tape, at[k * n + n - j], table) * pow3(b * j)], n), SW)

CommandAt(tape, at, k) == WordAt(tape, at, k, CommandFrames, 2, tab4_2)
SymbolsAt(tape, at, k) == WordAt(tape, at, k, SymbolFrames, 3, tab4_1)

\* The short word of the five nonary digits at position i.
cmd_str_2_trs(tape, i) ==
    IF i \in DOMAIN tape /\ tape[i].kind = "word" THEN mod_3_n(tape[i].v, SW) ELSE 0

\* What is left of a tape from position i on.
From(tape, i) == IF i \in 1 .. Len(tape) THEN SubSeq(tape, i, Len(tape)) ELSE <<>>

Least(a, b) == IF a < b THEN a ELSE b

(***************************************************************************)
(* Each reader returns the words it stores, from the beginning of the page,*)
(* and the rest of the tape.                                               *)
(*                                                                         *)
(* The loop of FT1 fetches a token before it looks whether the page is     *)
(* full, so a full page costs one token more; frames that do not make a    *)
(* whole word are lost.                                                    *)
(***************************************************************************)
AfterFullPage(tape, at, n) ==
    From(tape, at[SIZE_ZONE_TRIT_FRAM * n] + 2)

Read_Commands_from_FT1(tape) ==
    LET at    == Accepted(tape, Decoder_Command_Paper_Line)
        words == Least(Len(at) \div CommandFrames, SIZE_ZONE_TRIT_FRAM)
    IN  [words |-> [k \in 0 .. words-1 |-> CommandAt(tape, at, k)],
         rest  |-> IF words = SIZE_ZONE_TRIT_FRAM
                   THEN AfterFullPage(tape, at, CommandFrames)
                   ELSE <<>>]

\* A word whose last symbol is the stop symbol is stored and ends the reading.
Read_Symbols_from_FT1(tape) ==
    LET at    == Accepted(tape, Decoder_Symbol_Paper_Line)
        whole == Least(Len(at) \div SymbolFrames, SIZE_ZONE_TRIT_FRAM)
        stops == {k \in 1 .. whole : tab4_1[tape[at[k * SymbolFrames]].v] = StopSymbol}
        words == IF stops = {} THEN whole ELSE Min(stops)
    IN  [words |-> [k \in 0 .. words-1 |-> SymbolsAt(tape, at, k)],
         rest  |-> IF stops # {} THEN From(tape, at[words * SymbolFrames] + 1)
                   ELSE IF words = SIZE_ZONE_TRIT_FRAM
                   THEN AfterFullPage(tape, at, SymbolFrames)
                   ELSE <<>>]

\* Commands on FT2 are nonary words; every other token is skipped.
Read_Commands_from_FT2(tape) ==
    LET at    == Accepted(tape, LAMBDA t : t.kind = "word")
        words == Least(Len(at), SIZE_ZONE_TRIT_FRAM)
    IN  [words |-> [k \in 0 .. words-1 |-> cmd_str_2_trs(tape, at[k + 1])],
         rest  |-> IF words = SIZE_ZONE_TRIT_FRAM
                   THEN From(tape, at[words] + 1)
                   ELSE <<>>]

\* On FT2 the whole word is compared with 14, and such a word is not stored.
Read_Symbols_from_FT2(tape) ==
    LET at    == Accepted(tape, Decoder_Symbol_Paper_Line)
        whole == Least(Len(at) \div SymbolFrames, SIZE_ZONE_TRIT_FRAM)
        word(k) == SymbolsAt(tape, at, k)
        stops == {k \in 0 .. whole-1 : word(k) = 14}
        words == IF stops = {} THEN whole ELSE Min(stops)
    IN  [words |-> [k \in 0 .. words-1 |-> word(k)],
         rest  |-> IF stops # {}
                   THEN From(tape, at[(words + 1) * SymbolFrames] + 1)
                   ELSE IF words = SIZE_ZONE_TRIT_FRAM
                   THEN AfterFullPage(tape, at, SymbolFrames)
                   ELSE <<>>]

(***************************************************************************)
(* Writers.  Trits b*j+1 .. b*j+b of a word, counted from its end.         *)
(***************************************************************************)
Group(w, b, j) == mod_3_n(ShiftRight(w, SW, b * j), b)

(***************************************************************************)
(* LoadFileListToPaperTxt writes the words of one file after another.  The *)
(* variable trit2 it builds a frame in keeps its first trit from the last  *)
(* frame of the previous word of the file, so that trit (k8) is written    *)
(* once more in front of the first trit of the next word.  Every word is   *)
(* followed by a separator and every file by five blank lines.             *)
(***************************************************************************)
WordFrames_NoSeparator(w, stale) ==             \* faulty
    [i \in 1 .. CommandFrames |-> Line(tab4_7[Group(w, 2, CommandFrames - i)])]

WordFrames(w, stale) ==
    [i \in 1 .. CommandFrames + 1 |->
        IF i > CommandFrames THEN Separator
        ELSE LET g == Group(w, 2, CommandFrames - i)
             IN  Line(tab4_7[IF i = 1 THEN g + 3 * stale ELSE g])]

StaleTrit(file, i) == IF i = 1 THEN 0 ELSE get_trit_setun(file[i - 1], SW, SW - 1)

FileFrames(file) ==
    Concat([i \in 1 .. Len(file) |-> WordFrames(file[i], StaleTrit(file, i))],
           Len(file))
    \o << Blank, Blank, Blank, Blank, Blank >>

LoadFileListToPaperTxt(files) ==
    Concat([i \in 1 .. Len(files) |-> FileFrames(files[i])], Len(files))

(***************************************************************************)
(* The punch: the frames op_minus00 punches for the words of a page (a     *)
(* function on Places).  Punching symbols ends at a word whose last symbol *)
(* is the stop symbol, and does not punch that symbol.                     *)
(***************************************************************************)
\* Group number p when a page is put out in groups of b trits, n for a word.
GroupOfPage(words, b, n, p) ==
    Group(words[(p - 1) \div n], b, (n - 1) - ((p - 1) % n))

Perforation_Commands(words) ==
    [p \in 1 .. CommandFrames * SIZE_ZONE_TRIT_FRAM |->
        Frame(GroupOfPage(words, 2, CommandFrames, p))]

\* The number of words of a page before the first one that ends with "stop".
BeforeStop(words) ==
    LET stops == {i \in Places : Group(words[i], 3, 0) = StopSymbol}
    IN  IF stops = {} THEN SIZE_ZONE_TRIT_FRAM ELSE Min(stops)

SymbolsOf(words) ==
    LET n == BeforeStop(words)
    IN  [p \in 1 .. SymbolFrames * n
                    + IF n < SIZE_ZONE_TRIT_FRAM THEN SymbolFrames - 1 ELSE 0 |->
            GroupOfPage(words, 3, SymbolFrames, p)]

Perforation_Symbols(words) ==
    LET s == SymbolsOf(words) IN [i \in 1 .. Len(s) |-> Frame(s[i])]
=============================================================================
