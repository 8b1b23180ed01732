------------------------------- MODULE Memory -------------------------------
(***************************************************************************)
(* The two memories of the Setun-1958 and the transfers between them:      *)
(* mem_fram, the ferrite memory, and mem_drum, the magnetic drum.          *)
(*                                                                         *)
(* The program has RT = 4; smaller machines keep the same structure: an    *)
(* address has RT trits of row and one trit that selects                   *)
(*     0   the first short word of the row (group 0),                      *)
(*     +   the second short word of the row (group 1),                     *)
(*     -   the long word made of both.                                     *)
(* A page (FRAM zone) is the third of the rows that have the same first    *)
(* trit, and a drum zone holds the short words of one page.                *)
(***************************************************************************)
EXTENDS Ternary, FiniteSetsExt

CONSTANTS
    RT,              \* trits of a row number: 4 in the program
    ZONE_DRUM_BEG,   \* first and last zone of the drum: 5 and 40 in the
    ZONE_DRUM_END    \* program

ASSUME MemoryAssumption ==
    /\ RT \in 1..4
    /\ ZONE_DRUM_BEG \in Int
    /\ ZONE_DRUM_END \in Int
    /\ ZONE_DRUM_BEG <= ZONE_DRUM_END

AT == RT + 1         \* trits of an address: 5
SW == RT + 5         \* SIZE_WORD_SHORT: 9 trits, address, operation, index mark
LW == 2 * SW         \* SIZE_WORD_LONG: 18 trits

Address   == Word(AT)
ShortWord == Word(SW)
LongWord  == Word(LW)
Trit      == {-1, 0, 1}

SIZE_GR_TRIT_FRAM   == pow3(RT)                           \* 81 rows
SIZE_ZONE_TRIT_FRAM == 2 * pow3(RT - 1)                   \* 54 short words
NUMBER_ZONE_DRUM    == ZONE_DRUM_END - ZONE_DRUM_BEG + 1  \* 36 zones

Rows   == 0 .. SIZE_GR_TRIT_FRAM - 1
Groups == {0, 1}
Cells  == Rows \X Groups
Places == 0 .. SIZE_ZONE_TRIT_FRAM - 1       \* places of a page or a zone
DrumZones == 0 .. NUMBER_ZONE_DRUM - 1       \* indices of mem_drum

FramType == [Cells -> ShortWord]
DrumType == [DrumZones -> [Places -> ShortWord]]

Half(ea) == mod_3_n(ea, 1)                   \* the last trit of an address
Row(ea)  == (ea - Half(ea)) \div 3

addr2row_fram(ea) == Row(ea) + MaxWord(RT)
addr2grfram(ea)   == IF Half(ea) > 0 THEN 1 ELSE 0
CellOf(ea)        == << addr2row_fram(ea), addr2grfram(ea) >>

(***************************************************************************)
(* ld_fram returns a word and its length; st_fram stores the word v of l   *)
(* trits.  The long word of a row is stored with its first half in group 0.*)
(***************************************************************************)
ld_fram(m, ea) ==
    IF Half(ea) < 0
    THEN [l |-> LW,
          v |-> m[<< addr2row_fram(ea), 0 >>] * pow3(SW)
                + m[<< addr2row_fram(ea), 1 >>]]
    ELSE [l |-> SW, v |-> m[CellOf(ea)]]

\* Faulty: a short word is stored as a long one.
st_fram_Both(m, ea, l, v) ==
    [m EXCEPT ![<< addr2row_fram(ea), 0 >>] = slice_trs_setun(v, l, 1, SW),
              ![<< addr2row_fram(ea), 1 >>] = slice_trs_setun(v, l, 1, SW)]

st_fram(m, ea, l, v) ==
    IF Half(ea) < 0
    THEN [m EXCEPT ![<< addr2row_fram(ea), 0 >>] = slice_trs_setun(v, l, 1, SW),
                   ![<< addr2row_fram(ea), 1 >>] = slice_trs_setun(v, l, SW + 1, LW)]
    ELSE [m EXCEPT ![CellOf(ea)] = slice_trs_setun(v, l, 1, SW)]

next_address_NoSkip(c) == inc_trs(c, AT)      \* faulty

\* The address of the next short word: the long word addresses are skipped.
next_address(c) ==
    LET r == inc_trs(c, AT)
    IN  IF Half(r) < 0 THEN inc_trs(r, AT) ELSE r

(***************************************************************************)
(* Pages.  PageBegin is the constant smtr("----0"), smtr("0---0") or       *)
(* smtr("+---0") the code selects with the first trit of the address.  A   *)
(* loop over a page starts there and goes on with next_address: in round m *)
(* it is at PageWalk(k1, m), as theorem PageWalkSteps of Setun_proofs      *)
(* shows.  PlaceOf[k1][c] are the rounds that use the cell c; there is at  *)
(* most one (lemma WalkCell).                                              *)
(***************************************************************************)
PageBegin(k1) == k1 * pow3(RT) - MaxWord(RT) + 1

PageWalk(k1, m) == PageBegin(k1) + 3 * (m \div 2) + (m % 2)

\* The cells of page k1, row after row, without the address walk.
PageCell(k1, p) == << (k1 + 1) * pow3(RT - 1) + p \div 2, p % 2 >>
PageCells(k1)   == {PageCell(k1, p) : p \in Places}

PlaceOf ==
    [k1 \in Trit |-> [c \in Cells |-> {m \in Places : CellOf(PageWalk(k1, m)) = c}]]

\* A loop that stores the short word ws[m] in round m, from the beginning of
\* page k1: what stays in a cell is the word of the last round that used it.
StoreRun(m, k1, ws) ==
    [c \in Cells |-> LET rounds == PlaceOf[k1][c] \cap DOMAIN ws
                     IN  IF rounds = {} THEN m[c] ELSE ws[Max(rounds)]]

LoadRun_NoSkip(m, k1) ==                        \* faulty
    [i \in Places |-> mod_3_n(ld_fram(m, PageBegin(k1) + i).v, SW)]

\* A loop that loads one short word per round from page k1.
LoadRun(m, k1) == [i \in Places |-> ld_fram(m, PageWalk(k1, i)).v]

zone_drum_to_index(z) ==
    LET r == z - ZONE_DRUM_BEG
    IN  IF r > NUMBER_ZONE_DRUM - 1 THEN NUMBER_ZONE_DRUM - 1
        ELSE IF r < 0 THEN 0
        ELSE r

FirstTrit(ea)  == get_trit_setun(ea, AT, 1)            \* page of an address
OtherTrits(ea) == slice_trs_setun(ea, AT, 2, AT)       \* zone, or I/O code

drum_to_fram_PageZero(m, d, ea) ==               \* faulty: forgets the page
    StoreRun(m, 0, d[zone_drum_to_index(OtherTrits(ea))])

fram_to_drum(m, d, ea) ==
    [d EXCEPT ![zone_drum_to_index(OtherTrits(ea))] = LoadRun(m, FirstTrit(ea))]

drum_to_fram(m, d, ea) ==
    StoreRun(m, FirstTrit(ea), d[zone_drum_to_index(OtherTrits(ea))])

(***************************************************************************)
(* clean_fram_zone clears one column of mem_fram, over all rows: group 0   *)
(* for the page '+', group 1 for the page '0' and "group 2" for the page   *)
(* '-'.  mem_fram has two groups, so the last index is out of bounds: in   *)
(* the build mem_fram[row][2] is the cell [row + 1][0], and for the last   *)
(* row it ends in the length of mem_drum[0][0], which ld_drum sets anew.   *)
(***************************************************************************)
clean_fram_zone(m, k1) ==
    [c \in Cells |-> IF \/ k1 > 0 /\ c[2] = 0
                        \/ k1 = 0 /\ c[2] = 1
                        \/ k1 < 0 /\ c[2] = 0 /\ c[1] > 0
                     THEN 0 ELSE m[c]]

clean_fram == [c \in Cells |-> 0]
=============================================================================
