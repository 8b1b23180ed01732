---------------------------- MODULE MCSetunFull ----------------------------
(***************************************************************************)
(* Instances of Setun with the sizes of the program, RT = 4: the devices   *)
(* of the I/O instruction that smaller machines cannot address, the zone   *)
(* numbers at both ends of the drum, and shifts by up to 121 places.  The  *)
(* tape of FT1 is made of two files: a program at the start address, and   *)
(* two pages in one, numbers and symbols with a stop symbol among them.    *)
(***************************************************************************)
EXTENDS SetunComments

ASSUME TablesAssumption ==
    /\ PlaceOf \in [Trit -> [Cells -> SUBSET Places]]
    /\ DumpStepOf \in [Cells -> SUBSET (0 .. SIZE_ALL_TRIT_FRAM - 1)]
    /\ {tab4_1, tab4_2} \subseteq [LineCodes -> Symbols]
    /\ tab4_0 \in [Symbols -> LineCodes] /\ tab4_7 \in [Pairs -> LineCodes]
    /\ {russian_letters, russian_numbers, latin_letters, latin_numbers}
           \subseteq [-12 .. 13 -> STRING]

Instruction(a, op, mark) == a * 81 + op * 3 + mark

\* Page 0 of a program: instructions from the address 0000+ on.
Start == 27
Program(code) ==
    [i \in 1 .. 54 |-> IF i - Start \in 1 .. Len(code) THEN code[i - Start]
                       ELSE 340 * i - 9000]

Numbers == [i \in 1 .. 54 |-> 300 * i - 8000]
TextPage == [i \in 1 .. 54 |-> IF i = 7 THEN 12 * 27 - 13
                              ELSE IF i = 4 THEN 11 * 729 + 5 ELSE 20 * i + 2]

IO(page, code)   == Instruction(page * 81 + code, -9, 0)
Drum(op, page, zone) == Instruction(page * 81 + zone, op, 0)

\* A page is read and put out; symbols are typed and then the page of commands;
\* pages are written to zones and read again; three pages are read one after the
\* other; a word of the page is shifted by -36 and by 107 places.
MCCode ==
    {<< IO(-1, rw[1]), IO(-1, rw[2]), IO(0, 27) >> :
        rw \in {<<1, 27>>, <<3, 9>>, <<-1, -27>>, <<-3, -9>>, <<-1, 9>>, <<3, -27>>}}
    \cup {<< IO(-1, 1), IO(1, -1), IO(1, w), IO(0, -1) >> : w \in {-27, 2}}
    \cup {<< IO(1, -1), IO(1, 18), IO(1, 9) >>}
    \cup {<< IO(-1, 1), IO(1, 1), IO(1, 27) >>}
    \cup {<< Drum(-8, -1, z), Drum(-10, 1, y) >> : z \in {4, 5, 40}, y \in {5, 40}}
    \cup {<< Instruction(-39 + 3 * r, 9, 0), Instruction(-38 + 3 * r, -6, 0) >> :
             r \in {8, 25}}

MCTapes1 == {LoadFileListToPaperTxt(<< Program(c), Numbers \o TextPage >>) : c \in MCCode}
MCTapes2 == {[i \in 1 .. 180 |-> IF i % 7 = 0 THEN Nonary(50 * i)
                                 ELSE IF i % 11 = 0 THEN Blank
                                 ELSE Frame((i % 27) - 13)]}
MCDrum  == { [z \in DrumZones |-> [p \in Places |-> 100 * z + p - 3]] }
MCPokes == {}
\* A dumped file of two pages and two words more, all of them errors for a run.
MCDumps == { [k \in 1 .. 110 |-> Instruction(k - 56, -13, 0)] }
MCPrintModes == {Latin}

FilePages == {[p \in Places |-> file[p + 1]] : file \in {Program(c) : c \in MCCode}
                                                        \cup {Numbers, TextPage}}

ASSUME PagesAssumption ==
    /\ FilePages \subseteq [Places -> ShortWord]
    /\ Cardinality(FilePages) = Cardinality(MCCode) + 2

(* A page read from FT1 is a page of the files the loader wrote, whole: the  *)
(* token the reader takes after a full page is the separator of its last     *)
(* word, never a frame of the next page, and the stale trit in front of a    *)
(* word does not get into it (LoadFileListToPaperTxt, Read_Commands_from_FT1).*)
PagesStayWhole ==
    [][ Step({-9}) /\ OtherTrits(A) = 1 /\ ptr1 # <<>> =>
            LoadRun(fram', FirstTrit(A)) \in FilePages ]_vars
=============================================================================
