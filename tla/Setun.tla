------------------------------- MODULE Setun -------------------------------
(***************************************************************************)
(* The virtual machine Setun-1958: its registers, the two memories and the *)
(* devices, one action for each function of the operation table, the start *)
(* button (Emu_Begin) and what the operator changes from the console: a    *)
(* register (reg_cmd), page 0 (dump_cmd), the printing language (prn_cmd). *)
(*                                                                         *)
(* An instruction is a short word: AT trits of address, three trits of     *)
(* operation and one trit that says whether the index register F is added  *)
(* to the address (+), subtracted from it (-) or not used (0).             *)
(*                                                                         *)
(* Left out: MR, which every operation loads before it reads it; ph1 and   *)
(* ph2, which no operation changes (see add_trs), so that over_check is    *)
(* always false; and what is printed on the console.                       *)
(***************************************************************************)
EXTENDS Typewriter

CONSTANTS
    Tapes1, Tapes2,  \* the tapes that may be mounted on FT1 and FT2
    DrumImages,      \* contents of the drum the backup file may restore
    Pokes,           \* << register, value >> pairs the operator may write
    Dumps,           \* the files of words the operator may dump, from 0 on
    PrintModes,      \* the languages the operator may choose
    MaxSteps         \* bound on the instructions executed

\* A register of AT, 1, SW, LW or RT trits and a value for it.
PokeType == ({"K"} \X ShortWord) \cup ({"F", "C"} \X Address) \cup ({"W"} \X Trit)
            \cup ({"S", "R"} \X LongWord) \cup ({"MB"} \X Word(RT))

ASSUME SetunAssumption ==
    /\ Tapes1 \subseteq Tape /\ Tapes2 \subseteq Tape
    /\ Pokes \subseteq PokeType
    /\ DrumImages \subseteq DrumType
    /\ Dumps \subseteq Seq(ShortWord)
    /\ PrintModes \subseteq {Russian, Latin}
    /\ MaxSteps \in Nat

VARIABLES
    fram,             \* mem_fram
    drum,             \* mem_drum
    K,                \* K(1:9)  instruction
    F,                \* F(1:5)  index register
    C,                \* C(1:5)  program counter
    W,                \* W(1:1)  sign of the last result
    S,                \* S(1:18) accumulator
    R,                \* R(1:18) multiplier
    MB,               \* MB(1:4) zone of the last drum transfer
    russian_latin_sw, \* typewriter: 0 russian, 1 latin
    letter_number_sw, \* typewriter: 0 letters, 1 digits
    opened,           \* have the files of the devices been opened
    paper1, paper2,   \* the files ptr1/paper.txt and ptr2/paper.txt
    ptr1, ptr2,       \* what FT1 and FT2 have still to read of them
    ptp1,             \* what was punched
    tty1,             \* what was typed
    ret_exec,         \* status of the last Emu_Step
    executed          \* number of instructions since power on

memories  == << fram, drum >>
registers == << K, F, C, W, S, R, MB >>
mounted   == << paper1, paper2 >>
readers   == << ptr1, ptr2 >>
switches  == << russian_latin_sw, letter_number_sw >>
devices   == << switches, opened, mounted, readers, ptp1, tty1 >>
vars      == << memories, registers, devices, ret_exec, executed >>

Statuses == {"OK", "STOP", "STOP_ERROR", "STOP_ERROR_MB_NUMBER"}

TypeOK ==
    /\ fram \in FramType
    /\ drum \in DrumType
    /\ K \in ShortWord
    /\ F \in Address
    /\ C \in Address
    /\ W \in Trit
    /\ S \in LongWord
    /\ R \in LongWord
    /\ MB \in Word(RT)
    /\ russian_latin_sw \in {Russian, Latin}
    /\ letter_number_sw \in {Letters, Digits}
    /\ opened \in BOOLEAN
    /\ {paper1, paper2, ptr1, ptr2} \subseteq Tape
    /\ ret_exec \in Statuses
    /\ executed \in 0 .. MaxSteps

-----------------------------------------------------------------------------
(***************************************************************************)
(* Power on (reset_setun_1958): the ferrite memory is cleared, the drum is *)
(* read from its backup file.                                              *)
(***************************************************************************)
Init ==
    /\ fram = clean_fram
    /\ drum \in DrumImages
    /\ K = 0 /\ F = 0 /\ C = 0 /\ W = 0 /\ S = 0 /\ R = 0 /\ MB = 0
    /\ russian_latin_sw = Russian /\ letter_number_sw = Letters
    /\ opened = FALSE
    /\ paper1 \in Tapes1 /\ paper2 \in Tapes2
    /\ ptr1 = <<>> /\ ptr2 = <<>> /\ ptp1 = <<>> /\ tty1 = <<>>
    /\ ret_exec = "OK"
    /\ executed = 0

\* Emu_Begin: open the devices, read the first page of FT1 as commands into
\* page 0 and start at the address 0000+.
Emu_Begin ==
    LET page == Read_Commands_from_FT1(paper1)
    IN  /\ opened' = TRUE
        /\ fram' = StoreRun(fram, 0, page.words)
        /\ ptr1' = page.rest
        /\ ptr2' = paper2
        /\ ptp1' = <<>> /\ tty1' = <<>>
        /\ C' = 1
        /\ UNCHANGED << drum, K, F, W, S, R, MB, switches, mounted, ret_exec, executed >>

\* Emu_Open_Files at the first idle turn of the main loop.
Emu_Open_Files ==
    /\ ~ opened
    /\ opened' = TRUE
    /\ ptr1' = paper1
    /\ ptr2' = paper2
    /\ ptp1' = <<>> /\ tty1' = <<>>
    /\ UNCHANGED << memories, registers, switches, mounted, ret_exec, executed >>

\* reg_cmd: the operator writes a register.
reg_cmd ==
    \E p \in Pokes :
        /\ K' = IF p[1] = "K" THEN p[2] ELSE K
        /\ F' = IF p[1] = "F" THEN p[2] ELSE F
        /\ C' = IF p[1] = "C" THEN p[2] ELSE C
        /\ W' = IF p[1] = "W" THEN p[2] ELSE W
        /\ S' = IF p[1] = "S" THEN p[2] ELSE S
        /\ R' = IF p[1] = "R" THEN p[2] ELSE R
        /\ MB' = IF p[1] = "MB" THEN p[2] ELSE MB
        /\ UNCHANGED << memories, devices, ret_exec, executed >>

(***************************************************************************)
(* dump_cmd (DumpFileTxs) stores the words of a file, from the first short *)
(* word of page 0 on.  Nothing ends the walk but the file: it leaves the   *)
(* page, goes on in page + and, through the last row, in page -, and comes *)
(* back to its beginning after all the short words of the memory.          *)
(***************************************************************************)
SIZE_ALL_TRIT_FRAM == 2 * SIZE_GR_TRIT_FRAM

DumpStepOf_NoSkip ==                                   \* faulty
    [c \in Cells |-> {k \in 0 .. SIZE_ALL_TRIT_FRAM - 1 :
                         CellOf(mod_3_n(PageBegin(0) + k, AT)) = c}]

DumpStepOf ==
    [c \in Cells |-> {k \in 0 .. SIZE_ALL_TRIT_FRAM - 1 :
                         CellOf(mod_3_n(PageWalk(0, k), AT)) = c}]

\* A cell keeps the last word that is stored in it.
DumpFileTxs(m, words) ==
    LET n == Len(words)
        last(k) == n - ((n - 1 - k) % SIZE_ALL_TRIT_FRAM)
    IN  [c \in Cells |->
            LET first == {k \in DumpStepOf[c] : k < n}
            IN  IF first = {} THEN m[c] ELSE words[last(CHOOSE k \in first : TRUE)]]

dump_cmd ==
    /\ UNCHANGED << drum, registers, devices, ret_exec, executed >>
    /\ \E words \in Dumps : fram' = DumpFileTxs(fram, words)

\* prn_cmd: the typewriter types russian or latin.
prn_cmd ==
    /\ russian_latin_sw' \in PrintModes
    /\ UNCHANGED << memories, registers, letter_number_sw, opened, mounted, readers,
                    ptp1, tty1, ret_exec, executed >>

-----------------------------------------------------------------------------
(***************************************************************************)
(* Emu_Step: fetch the short word at C (the first half of a long one),     *)
(* modify its address part, and call the function of the operation.        *)
(***************************************************************************)
Fetched == LET w == ld_fram(fram, C) IN slice_trs_setun(w.v, w.l, 1, SW)

control_trs(k) ==
    LET a == slice_trs_setun(k, SW, 1, AT)
        mark == get_trit_setun(k, SW, SW)
    IN  IF mark > 0 THEN add_trs(a, F, AT)
        ELSE IF mark < 0 THEN sub_trs(a, F, AT)
        ELSE a

OperationCode(k) == slice_trs_setun(k, SW, AT + 1, AT + 3)

A == control_trs(Fetched)          \* A*, the address of the operand

\* The operand as a long word, and its first AT trits.
LongOperand ==
    LET w == ld_fram(fram, A)
    IN  IF w.l = LW THEN w.v ELSE ShiftLeft(w.v, LW, SW)

ShortOperand == LET w == ld_fram(fram, A) IN slice_trs_setun(w.v, w.l, 1, AT)

Executes(code) ==
    /\ OperationCode(Fetched) = code
    /\ executed < MaxSteps
    /\ executed' = executed + 1
    /\ K' = Fetched

Continues == ret_exec' = "OK" /\ C' = next_address(C)
JumpsIf(cond) == ret_exec' = "OK" /\ C' = IF cond THEN A ELSE next_address(C)
StopsWith_Moves(status) == ret_exec' = status /\ C' = next_address(C)   \* faulty
StopsWith(status) == ret_exec' = status /\ C' = C

\* A result that goes to S, or to F, and whose sign goes to W.
SetS_NoSign(v) == S' = v /\ W' = v      \* faulty
SetS(v) == S' = v /\ W' = sgn_trs(v)
SetF(v) == F' = v /\ W' = sgn_trs(v)

-----------------------------------------------------------------------------
(* Accumulator.                                                            *)

op_plus00 ==          \* (A*) => S
    /\ Executes(9) /\ Continues
    /\ SetS(LongOperand)
    /\ UNCHANGED << memories, F, R, MB, devices >>

op_plus0plus ==       \* S + (A*) => S
    /\ Executes(10) /\ Continues
    /\ SetS(add_trs(S, LongOperand, LW))
    /\ UNCHANGED << memories, F, R, MB, devices >>

op_plus0minus ==      \* S - (A*) => S
    /\ Executes(8) /\ Continues
    /\ SetS(sub_trs(S, LongOperand, LW))
    /\ UNCHANGED << memories, F, R, MB, devices >>

op_plusplus0 ==       \* S => R; (A*) R => S
    /\ Executes(12) /\ Continues
    /\ R' = S
    /\ SetS(mod_3_n(mul_trs(LongOperand, S, LW), LW))
    /\ UNCHANGED << memories, F, MB, devices >>

op_plusplusplus ==    \* S + (A*) R => S
    /\ Executes(13) /\ Continues
    /\ SetS(add_trs(mul_trs(LongOperand, R, LW), S, LW))
    /\ UNCHANGED << memories, F, R, MB, devices >>

op_plusplusminus ==   \* (A*) + S R => S
    /\ Executes(11) /\ Continues
    /\ SetS(add_trs(mul_trs(S, R, LW), LongOperand, LW))
    /\ UNCHANGED << memories, F, R, MB, devices >>

op_plusminus0 ==      \* (A*) [x] S => S
    /\ Executes(6) /\ Continues
    /\ SetS(and_trs(LongOperand, S, LW))
    /\ UNCHANGED << memories, F, R, MB, devices >>

op_plusminusplus ==   \* (A*) => R; the sign is that of S
    /\ Executes(7) /\ Continues
    /\ R' = LongOperand
    /\ W' = sgn_trs(S)
    /\ UNCHANGED << memories, F, S, MB, devices >>

op_minusplus0 ==      \* shift of S by (A*)
    /\ Executes(-6) /\ Continues
    /\ SetS(shift_trs(S, LW, ShortOperand))
    /\ UNCHANGED << memories, F, R, MB, devices >>

op_minusplusplus ==   \* S => (A*)
    /\ Executes(-5) /\ Continues
    /\ fram' = st_fram(fram, A, LW, S)
    /\ W' = sgn_trs(S)
    /\ UNCHANGED << drum, F, S, R, MB, devices >>

(***************************************************************************)
(* Normalisation: S is shifted until its second trit is the first one that *)
(* is not zero, the result goes to A* and the number of places to S: +1    *)
(* for the shift to the right, negative for shifts to the left.            *)
(***************************************************************************)
Places_to_left ==
    Min({n \in 1 .. LW - 2 :
            \/ n = LW - 2
            \/ get_trit_setun(ShiftLeft(S, LW, n), LW, 2) # 0})

\* Faulty: no shift to the right.
NormalShift_NoRight ==
    IF S = 0 \/ get_trit_setun(S, LW, 2) # 0 THEN 0 ELSE - Places_to_left

NormalShift ==
    IF S = 0 THEN 0
    ELSE IF get_trit_setun(S, LW, 1) # 0 THEN 1
    ELSE IF get_trit_setun(S, LW, 2) # 0 THEN 0
    ELSE - Places_to_left

op_minusplusminus ==
    /\ Executes(-7) /\ Continues
    /\ fram' = st_fram(fram, A, LW, shift_trs(S, LW, - NormalShift))
    /\ SetS(ShiftLeft(NormalShift, LW, LW - AT))
    /\ UNCHANGED << drum, F, R, MB, devices >>

-----------------------------------------------------------------------------
(* Control.                                                                *)

op_plusminusminus ==  \* stop: (A*) => R, and C stays
    /\ Executes(5) /\ StopsWith("STOP")
    /\ R' = LongOperand
    /\ UNCHANGED << memories, F, W, S, MB, devices >>

Jump(code, cond) ==
    /\ Executes(code) /\ JumpsIf(cond)
    /\ UNCHANGED << memories, F, W, S, R, MB, devices >>

op_0plus0    == Jump(3, W = 0)
op_0plusplus == Jump(4, W > 0)
op_0plusminus == Jump(2, W < 0)
op_000       == Jump(0, TRUE)

-----------------------------------------------------------------------------
(* Index register.  A register of AT trits is the beginning of a word.     *)

StoreRegister(v) ==
    LET l == IF Half(A) < 0 THEN LW ELSE SW
    IN  fram' = st_fram(fram, A, l, copy_trs_setun(v, AT, l))

op_00plus ==          \* C => (A*)
    /\ Executes(1) /\ Continues
    /\ StoreRegister(C)
    /\ UNCHANGED << drum, F, W, S, R, MB, devices >>

op_00minus ==         \* F => (A*)
    /\ Executes(-1) /\ Continues
    /\ StoreRegister(F)
    /\ W' = sgn_trs(F)
    /\ UNCHANGED << drum, F, S, R, MB, devices >>

op_0minus0 ==         \* (A*) => F
    /\ Executes(-3) /\ Continues
    /\ SetF(ShortOperand)
    /\ UNCHANGED << memories, S, R, MB, devices >>

op_0minusplus ==      \* C + (A*) => F
    /\ Executes(-2) /\ Continues
    /\ SetF(add_trs(C, ShortOperand, AT))
    /\ UNCHANGED << memories, S, R, MB, devices >>

op_0minusminus ==     \* F + (A*) => F
    /\ Executes(-4) /\ Continues
    /\ SetF(add_trs(F, ShortOperand, AT))
    /\ UNCHANGED << memories, S, R, MB, devices >>

-----------------------------------------------------------------------------
(***************************************************************************)
(* Input and output (-00).  The first trit of A* selects the page, the     *)
(* others the device; a device whose file is not open does nothing.        *)
(***************************************************************************)
InputOutput(code) ==
    /\ Executes(-9) /\ Continues
    /\ OtherTrits(A) = code
    /\ UNCHANGED << drum, F, W, S, R, MB, russian_latin_sw, opened, mounted >>

Reads(page, reader, others) ==
    /\ IF opened
       THEN /\ fram' = StoreRun(fram, FirstTrit(A), page.words)
            /\ reader' = page.rest
       ELSE UNCHANGED << fram, reader >>
    /\ UNCHANGED << others, letter_number_sw, ptp1, tty1 >>

Commands_FT1 == InputOutput(1)  /\ Reads(Read_Commands_from_FT1(ptr1), ptr1, ptr2)
Commands_FT2 == InputOutput(3)  /\ Reads(Read_Commands_from_FT2(ptr2), ptr2, ptr1)
Symbols_FT1  == InputOutput(-1) /\ Reads(Read_Symbols_from_FT1(ptr1), ptr1, ptr2)
Symbols_FT2  == InputOutput(-3) /\ Reads(Read_Symbols_from_FT2(ptr2), ptr2, ptr1)

Page == LoadRun(fram, FirstTrit(A))

Punches(frames) ==
    /\ ptp1' = IF opened THEN ptp1 \o frames ELSE ptp1
    /\ UNCHANGED << fram, readers, letter_number_sw, tty1 >>

Punch_Commands == InputOutput(27)  /\ Punches(Perforation_Commands(Page))
Punch_Symbols  == InputOutput(-27) /\ Punches(Perforation_Symbols(Page))

\* Printing commands works in digits and restores the switch; printing symbols
\* leaves the switch as the last of the two shift symbols set it.
Types(sw, symbols) ==
    /\ tty1' = IF opened THEN tty1 \o Typed(russian_latin_sw, sw, symbols).text ELSE tty1
    /\ UNCHANGED << fram, readers, ptp1 >>

Print_Commands_NoDigits ==                      \* faulty: as the switch stands
    /\ InputOutput(9)
    /\ Types(letter_number_sw, CommandSymbols(Page))
    /\ UNCHANGED letter_number_sw

Print_Commands ==
    /\ InputOutput(9)
    /\ Types(Digits, CommandSymbols(Page))
    /\ UNCHANGED letter_number_sw

Print_Symbols ==
    /\ InputOutput(-9) \/ InputOutput(18)
    /\ Types(letter_number_sw, SymbolsOf(Page))
    /\ letter_number_sw' = IF opened THEN SwitchAfter(letter_number_sw, SymbolsOf(Page))
                           ELSE letter_number_sw

DeviceCodes == {1, 3, -1, -3, 27, -27, 9, -9, 18}

No_Device ==
    /\ Executes(-9) /\ StopsWith("STOP_ERROR")
    /\ OtherTrits(A) \notin DeviceCodes
    /\ UNCHANGED << memories, F, W, S, R, MB, devices >>

op_minus00 ==
    \/ Commands_FT1 \/ Commands_FT2 \/ Symbols_FT1 \/ Symbols_FT2
    \/ Punch_Commands \/ Punch_Symbols \/ Print_Commands \/ Print_Symbols
    \/ No_Device

-----------------------------------------------------------------------------
(* Drum.                                                                   *)

HasZone == OtherTrits(A) \in ZONE_DRUM_BEG .. ZONE_DRUM_END

op_minus0plus ==      \* page => zone
    /\ Executes(-8)
    /\ IF HasZone
       THEN /\ drum' = fram_to_drum(fram, drum, A)
            /\ MB' = OtherTrits(A)
            /\ Continues
       ELSE /\ StopsWith("STOP_ERROR_MB_NUMBER")
            /\ UNCHANGED << drum, MB >>
    /\ UNCHANGED << fram, F, W, S, R, devices >>

op_minus0minus ==     \* zone => page
    /\ Executes(-10) /\ Continues
    /\ fram' = IF HasZone THEN drum_to_fram(fram, drum, A)
                          ELSE clean_fram_zone(fram, FirstTrit(A))
    /\ MB' = OtherTrits(A)
    /\ UNCHANGED << drum, F, W, S, R, devices >>

-----------------------------------------------------------------------------
op_error ==
    /\ \E code \in {-11, -12, -13} : Executes(code)
    /\ StopsWith("STOP_ERROR")
    /\ UNCHANGED << memories, F, W, S, R, MB, devices >>

Emu_Step ==
    \/ op_plus00 \/ op_plus0plus \/ op_plus0minus
    \/ op_plusplus0 \/ op_plusplusplus \/ op_plusplusminus
    \/ op_plusminus0 \/ op_plusminusplus \/ op_plusminusminus
    \/ op_0plus0 \/ op_0plusplus \/ op_0plusminus
    \/ op_000 \/ op_00plus \/ op_00minus
    \/ op_0minus0 \/ op_0minusplus \/ op_0minusminus
    \/ op_minusplus0 \/ op_minusplusplus \/ op_minusplusminus
    \/ op_minus00 \/ op_minus0plus \/ op_minus0minus
    \/ op_error

Operator == Emu_Open_Files \/ Emu_Begin \/ reg_cmd \/ dump_cmd \/ prn_cmd

Next == Operator \/ Emu_Step

Spec == Init /\ [][Next]_vars

-----------------------------------------------------------------------------
(***************************************************************************)
(* What the machine promises.                                              *)
(***************************************************************************)

\* The step in progress executes an instruction of one of these codes.
Step(codes) == executed' = executed + 1 /\ OperationCode(K') \in codes

(* Only the instruction -0+ changes the drum, and only the zone it names,   *)
(* which becomes a copy of the page, word for word in the order of the rows *)
(* (fram_to_drum walks the page with next_address); nothing else changes in *)
(* either memory.                                                           *)
DrumWriteIsOnePage ==
    [][ drum' # drum =>
            /\ Step({-8})
            /\ fram' = fram
            /\ LET z == zone_drum_to_index(MB')
               IN  /\ \A y \in DrumZones \ {z} : drum'[y] = drum[y]
                   /\ \A p \in Places :
                         drum'[z][p] = fram[PageCell(FirstTrit(A), p)] ]_vars

(* Reading an existing zone makes the page its exact copy and leaves the    *)
(* other two pages alone (drum_to_fram): a page written with -0+ comes back *)
(* unchanged, on whichever page it is read to.                              *)
DrumReadIsOnePage ==
    [][ Step({-10}) /\ HasZone =>
            /\ drum' = drum
            /\ \A k1 \in Trit, p \in Places :
                  fram'[PageCell(k1, p)] =
                      IF k1 = FirstTrit(A)
                      THEN drum[zone_drum_to_index(OtherTrits(A))][p]
                      ELSE fram[PageCell(k1, p)] ]_vars

(* An instruction that changes the ferrite memory changes only what its     *)
(* modified address names: the short word, the two halves of the long word, *)
(* or, for input and drum, the page.  (A read of a drum zone that does not  *)
(* exist is the exception, see CleaningStaysInPage.)                        *)
StoresStayInPlace ==
    [][ executed' = executed + 1 =>
          \A c \in Cells : fram'[c] # fram[c] =>
              \/ /\ Step({1, -1, -5, -7})
                 /\ c[1] = addr2row_fram(A)
                 /\ Half(A) < 0 \/ c[2] = addr2grfram(A)
              \/ Step({-9, -10}) /\ c \in PageCells(FirstTrit(A))
              \/ Step({-10}) /\ ~ HasZone ]_vars

(* The result of a normalisation is normal, and with the number in S it     *)
(* gives the old accumulator back: (S) = result * 3^N, up to the trit that  *)
(* a shift to the right loses (op_minusplusminus).                          *)
NormalisationKeepsValue ==
    [][ Step({-7}) /\ Half(A) < 0 =>
          LET n == copy_trs_setun(S', LW, AT)
              r == ld_fram(fram', A).v
          IN  /\ n \in -(LW - 2) .. 1
              /\ S = 0 <=> r = 0
              /\ r # 0 => /\ get_trit_setun(r, LW, 1) = 0
                          /\ get_trit_setun(r, LW, 2) # 0
              /\ IF n = 1 THEN S - 3 * r \in Trit
                          ELSE r = S * pow3(-n) ]_vars

(* A step that does not end with OK leaves the machine as it was, but for K *)
(* and, at a stop, R: C stays at the instruction, so no later run can skip  *)
(* it or see half of its effect.                                            *)
FailedStepChangesNothing ==
    [][ executed' = executed + 1 /\ ret_exec' # "OK" =>
          /\ UNCHANGED << memories, F, C, W, S, MB, devices >>
          /\ ret_exec' # "STOP" => R' = R ]_vars

(* C designates a long word only when a jump or the operator put it there:  *)
(* next_address and the start address never do.                             *)
LongFetchNeedsJump ==
    [][ Half(C') < 0 /\ C' # C =>
            \/ C' = A /\ Step({0, 2, 3, 4})
            \/ UNCHANGED executed ]_vars

(* What is punched from a page reads back as that page: commands all of it, *)
(* symbols up to the word before the one that ends with the stop symbol.    *)
(* The page of a reader is read from the start of the punched frames.       *)
Punched == From(ptp1', Len(ptp1) + 1)

PunchReadsBack ==
    [][ Step({-9}) /\ opened =>
          /\ OtherTrits(A) = 27 =>
                Read_Commands_from_FT1(Punched).words = Page
          /\ OtherTrits(A) = -27 =>
                LET n == BeforeStop(Page)
                IN  /\ Len(Punched) = SymbolFrames * n
                                      + IF n < SIZE_ZONE_TRIT_FRAM THEN 2 ELSE 0
                    /\ \A i \in 0 .. n - 1 :
                          Read_Symbols_from_FT1(Punched).words[i] = Page[i] ]_vars

\* A line of digits as typed in latin, read as a word of a source file: two
\* trits for each digit, the first trit lost.
Digit(c) == IF c = "O" THEN 0 ELSE lt2symtrs(c)
NonaryWord(line) ==
    mod_3_n(SumTo([j \in 0 .. CommandFrames - 1 |->
                      Digit(line[CommandFrames - j]) * pow3(2 * j)], CommandFrames), SW)

(* A page printed as commands in latin reads back as that page: every word  *)
(* is one line of nonary digits, whichever way an earlier page of symbols   *)
(* has left the letters and digits switch (op_minus00, the tables of        *)
(* electrified_typewriter against those of lt2symtrs).                      *)
TypedNow == SubSeq(tty1', Len(tty1) + 1, Len(tty1'))
LineLength == CommandFrames + 1

PrintedCommandsReadBack ==
    [][ Step({-9}) /\ opened /\ OtherTrits(A) = 9 /\ russian_latin_sw = Latin =>
            /\ Len(TypedNow) = LineLength * SIZE_ZONE_TRIT_FRAM
            /\ \A i \in Places :
                  /\ NonaryWord(SubSeq(TypedNow, LineLength * i + 1,
                                       LineLength * (i + 1))) = Page[i]
                  /\ TypedNow[LineLength * (i + 1)] = Line_end(Latin) ]_vars

(* A dumped file lies in the pages as -00 and -0+ see them: its words fill  *)
(* page 0 in the order of the places, then page +, then page -, and no      *)
(* other word changes (DumpFileTxs walks by addresses, through the last row *)
(* of the memory to the first; it does not know of pages).                  *)
DumpFollowsThePages ==
    [][ \A words \in Dumps :
          /\ dump_cmd /\ fram' = DumpFileTxs(fram, words)
          /\ Len(words) <= SIZE_ALL_TRIT_FRAM
          => \A k1 \in Trit :
                LET first == ((k1 + 3) % 3) * SIZE_ZONE_TRIT_FRAM + 1
                    old   == LoadRun(fram, k1)
                IN  LoadRun(fram', k1) =
                       [p \in Places |-> IF first + p \in DOMAIN words
                                         THEN words[first + p] ELSE old[p]] ]_vars
=============================================================================
