------------------------------ MODULE MCSetun ------------------------------
(***************************************************************************)
(* Instances of Setun with RT = 2: rows of two trits, short words of seven *)
(* trits, pages of six short words.  The tape of FT1 holds one page with   *)
(* an instruction at the start address, and a page of data after it.       *)
(***************************************************************************)
EXTENDS SetunComments

ASSUME TablesAssumption ==
    /\ PlaceOf \in [Trit -> [Cells -> SUBSET Places]]
    /\ DumpStepOf \in [Cells -> SUBSET (0 .. SIZE_ALL_TRIT_FRAM - 1)]
    /\ {tab4_1, tab4_2} \subseteq [LineCodes -> Symbols]
    /\ tab4_0 \in [Symbols -> LineCodes] /\ tab4_7 \in [Pairs -> LineCodes]
    /\ {russian_letters, russian_numbers, latin_letters, latin_numbers}
           \subseteq [-12 .. 13 -> STRING]

Instruction(a, op, mark) == a * 81 + op * 3 + mark

\* Page 0: data, data, data | first instruction, second instruction, data.
Program(data, i1, i2) == << data[1], data[2], data[3], i1, i2, data[1] >>

DataPage == << 1, -1, 40, -40, 364, 1093 >>
TapeOf(program) == LoadFileListToPaperTxt(<< program, DataPage >>)

\* Operand words: a shift count, a negative word and the number 1, with the
\* short address 0; an all-zero page is a zero operand.
MCData == << -82, -1093, 243 >>

\* Addresses of each half, of the first and last row of each page; as the
\* address of a transfer they name a zone that exists for each page.
MCAddresses  == {-13, -12, -11, -7, -4, -1, 0, 1, 2, 3, 5, 9, 12, 13}
MCOperations == Word(3)
\* The second instruction adds the word at 0+F to S.
MCSecond     == Instruction(0, 10, 1)

MCTapes1 == {TapeOf(Program(MCData, Instruction(a, op, m), MCSecond)) :
                a \in MCAddresses, op \in MCOperations, m \in {0, 1}}
MCTapes2 == { << Blank, Nonary(7), Nonary(-1000), Frame(-13), Frame(2), Frame(1),
                 Frame(0), Frame(-13), Frame(11), Frame(4), Nonary(3), Frame(-4) >> }
MCDrum   == { [z \in DrumZones |-> [p \in Places |-> 100 * z + p - 3]] }
MCDumps == {}
MCPrintModes == {}
MCPokes  == { << "S", 2391484 >>, << "F", 5 >> }
=============================================================================
