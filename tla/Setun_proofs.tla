---------------------------- MODULE Setun_proofs ----------------------------
(***************************************************************************)
(* Proofs about the machine with its memories and its tapes: the walk over *)
(* a page and the drum; what the readers deliver; what an instruction that *)
(* fails may change, which instructions change the drum, how C comes to a  *)
(* long address, and what normalisation keeps; then that what is put out   *)
(* reads back: the groups a word goes out in, sequences made of halves,    *)
(* the frames of the punch, the typewriter and its switch; and that the    *)
(* tape of the loader is read back page by page.                           *)
(***************************************************************************)
EXTENDS Setun, Ternary_proofs, SequenceTheorems, Induction

-----------------------------------------------------------------------------
(***************************************************************************)
(* Facts about the memories: the address walk of a page visits each of its *)
(* cells once, loads and stores stay in their cells, and a page written to *)
(* the drum comes back as it was.                                          *)
(***************************************************************************)
(* The sizes of the machine.                                               *)
LEMMA Sizes ==
    /\ RT \in 1 .. 4 /\ AT \in 2 .. 5 /\ SW \in 6 .. 9 /\ LW \in 12 .. 18
    /\ AT = RT + 1 /\ SW = AT + 4 /\ LW = SW + SW
    /\ {RT, AT, SW, LW} \subseteq Widths
  BY MemoryAssumption DEF AT, SW, LW, Widths

(* An address is three times a row number plus the trit of its half.       *)
LEMMA MaxAddress == MaxWord(AT) = 3 * MaxWord(RT) + 1 /\ MaxWord(RT) \in Nat
                    /\ pow3(RT) = 2 * MaxWord(RT) + 1
<1>1. pow3(AT) = 3 * pow3(RT)
  BY Sizes, Pow3Next
<1>2. /\ MaxWord(RT) \in Nat /\ pow3(RT) = 2 * MaxWord(RT) + 1
      /\ MaxWord(AT) \in Nat /\ pow3(AT) = 2 * MaxWord(AT) + 1
  <2>1. RT \in 0 .. 19 /\ AT \in 0 .. 19
    BY Sizes
  <2> QED
    BY <2>1, Pow3
<1>3. \A a, b \in Nat : 2 * b + 1 = 3 * (2 * a + 1) => b = 3 * a + 1
  OBVIOUS
<1>4. 2 * MaxWord(AT) + 1 = 3 * (2 * MaxWord(RT) + 1)
  BY <1>1, <1>2
<1> QED
  BY <1>2, <1>3, <1>4

(* The last trit of a number, without the table of powers.                 *)
LEMMA HalfIs == \A x \in Int : Half(x) = ((x + 1) % 3) - 1 /\ Half(x) \in -1 .. 1
<1>1. MaxWord(1) = 1 /\ pow3(1) = 3
  BY DEF MaxWord, pow3, POW3_TABLE
<1> QED
  BY <1>1 DEF Half, mod_3_n

(* Adding multiples of 3 does not change the half of an address.           *)
LEMMA HalfOfSum ==
    ASSUME NEW x \in Int, NEW h \in -1 .. 1
    PROVE  Half(3 * x + h) = h
  BY HalfIs

(* ... and the row is the rest.                                            *)
LEMMA RowOfSum ==
    ASSUME NEW x \in Int, NEW h \in -1 .. 1
    PROVE  Row(3 * x + h) = x
  BY HalfOfSum DEF Row

(* Every address designates a row of the memory, and one of its halves.    *)
LEMMA RowType ==
    ASSUME NEW ea \in Address
    PROVE  /\ addr2row_fram(ea) \in Rows
           /\ << addr2row_fram(ea), 0 >> \in Cells
           /\ << addr2row_fram(ea), 1 >> \in Cells
           /\ CellOf(ea) \in Cells
<1> DEFINE M == MaxWord(RT)
<1>1. ea \in -(3 * M + 1) .. 3 * M + 1 /\ M \in Nat
  BY MaxAddress DEF Address, Word
<1> HIDE DEF M
<1>2. Half(ea) = ((ea + 1) % 3) - 1 /\ Half(ea) \in -1 .. 1
  BY <1>1, HalfIs
<1>3. Row(ea) \in -M .. M
  BY <1>1, <1>2 DEF Row
<1>4. Rows = 0 .. 2 * M
  BY <1>1, MaxAddress DEF Rows, SIZE_GR_TRIT_FRAM, M
<1>5. addr2row_fram(ea) \in Rows
  BY <1>1, <1>3, <1>4 DEF addr2row_fram, M
<1> QED
  BY <1>5 DEF Cells, Groups, CellOf, addr2grfram

(* A word of its own width passes the mask unchanged.                      *)
LEMMA ModIdentity ==
    ASSUME NEW n \in Widths, NEW v \in Word(n) PROVE mod_3_n(v, n) = v
<1> DEFINE M == MaxWord(n)
<1>1. M \in Nat /\ pow3(n) = 2 * M + 1 /\ v \in -M .. M
  BY Pow3 DEF Widths, Word
<1> HIDE DEF M
<1>2. (v + M) % (2 * M + 1) = v + M
  BY <1>1
<1> QED
  BY <1>1, <1>2 DEF mod_3_n, M

(* next_address never designates a long word.                              *)
THEOREM NextIsShort ==
    ASSUME NEW c \in Address
    PROVE  next_address(c) \in Address /\ Half(next_address(c)) >= 0
<1> DEFINE r == inc_trs(c, AT)
<1>1. c \in Int /\ AT \in Widths
  BY Sizes, WordIsInt DEF Address
<1>2. r \in Address /\ r \in Int /\ inc_trs(r, AT) \in Address
  BY <1>1, IncType, WordIsInt DEF Address
<1>3. CASE Half(r) >= 0
  BY <1>2, <1>3, HalfIs DEF next_address
<1>4. CASE Half(r) < 0
  <2>1. r \in -(3 * MaxWord(RT) + 1) .. 3 * MaxWord(RT) + 1 /\ MaxWord(RT) \in Nat
    BY <1>2, MaxAddress DEF Address, Word
  <2>2. Half(r) = ((r + 1) % 3) - 1 /\ Half(r + 1) = ((r + 2) % 3) - 1
    BY <1>2, HalfIs
  <2>3. r + 1 \in -(3 * MaxWord(RT) + 1) .. 3 * MaxWord(RT) + 1 /\ Half(r + 1) = 0
    BY <1>4, <2>1, <2>2
  <2>4. r + 1 \in Word(AT)
    BY <2>3, MaxAddress DEF Word
  <2>5. inc_trs(r, AT) = r + 1
    BY <1>1, <2>4, ModIdentity DEF inc_trs, add_trs
  <2> HIDE DEF r
  <2> QED
    BY <1>2, <1>4, <2>3, <2>5 DEF next_address, r
<1> QED
  BY <1>2, <1>3, <1>4, HalfIs

(***************************************************************************)
(* The walk over a page.                                                   *)
(***************************************************************************)
(* A page has two cells in each row of its third of the rows.              *)
LEMMA PageShape ==
    /\ pow3(RT - 1) \in Nat \ {0} /\ pow3(RT) = 3 * pow3(RT - 1)
    /\ Places = 0 .. 2 * pow3(RT - 1) - 1
    /\ Rows = 0 .. 3 * pow3(RT - 1) - 1
<1>1. RT - 1 \in 0 .. 19 /\ RT - 1 \in Widths
  BY Sizes DEF Widths
<1>2. pow3(RT) = 3 * pow3(RT - 1)
  BY <1>1, Sizes, Pow3Next
<1> QED
  BY <1>1, <1>2, Pow3 DEF Places, SIZE_ZONE_TRIT_FRAM, Rows, SIZE_GR_TRIT_FRAM

(* Round m of a loop over page k1 uses the cell m of the page, so no cell  *)
(* is used twice and none of another page is touched.                      *)
LEMMA WalkCell ==
    ASSUME NEW k1 \in Trit, NEW m \in Places
    PROVE  /\ PageWalk(k1, m) \in Address
           /\ Half(PageWalk(k1, m)) = m % 2
           /\ CellOf(PageWalk(k1, m)) = PageCell(k1, m)
           /\ PageCell(k1, m) \in Cells
<1> DEFINE P == pow3(RT - 1)
           M == MaxWord(RT)
<1>1. /\ P \in Nat \ {0} /\ M \in Nat /\ 3 * P = 2 * M + 1
      /\ pow3(RT) = 3 * P /\ MaxWord(AT) = 3 * M + 1
      /\ m \in 0 .. 2 * P - 1 /\ k1 \in {-1, 0, 1}
  BY PageShape, MaxAddress DEF Trit
<1>2. \E q \in Nat : M = 3 * q + 1
  <2>1. RT \in 1 .. 4
    BY Sizes
  <2>2. MaxWord(1) = 3 * 0 + 1 /\ MaxWord(2) = 3 * 1 + 1 /\ MaxWord(3) = 3 * 4 + 1
        /\ MaxWord(4) = 3 * 13 + 1
    BY DEF MaxWord, pow3, POW3_TABLE
  <2> QED
    BY <2>1, <2>2
<1>3. PICK q \in Nat : M = 3 * q + 1
  BY <1>2
<1> DEFINE j == m \div 2
           h == m % 2
           x == k1 * P - q + j
<1> HIDE DEF P, M
<1>4. P = 2 * q + 1
  BY <1>1, <1>3
<1>5. j \in 0 .. P - 1 /\ h \in 0 .. 1
  BY <1>1
<1>6. PageWalk(k1, m) = k1 * (3 * P) - M + 1 + 3 * j + h
  BY <1>1 DEF PageWalk, PageBegin, M
<1>7. x \in Int /\ PageWalk(k1, m) = 3 * x + h
  BY <1>1, <1>3, <1>5, <1>6
<1>8. x \in -M .. M /\ x + M = (k1 + 1) * P + j
  BY <1>1, <1>3, <1>4, <1>5
<1> HIDE DEF j, h, x
<1>9. Half(PageWalk(k1, m)) = h /\ Row(PageWalk(k1, m)) = x
  <2>1. x \in Int /\ h \in -1 .. 1
    BY <1>5, <1>7
  <2>2. Half(3 * x + h) = h /\ Row(3 * x + h) = x
    BY <2>1, HalfOfSum, RowOfSum
  <2> QED
    BY <1>7, <2>2
<1>10. PageWalk(k1, m) \in Address
  BY <1>1, <1>5, <1>7, <1>8 DEF Address, Word
<1>11. CellOf(PageWalk(k1, m)) = PageCell(k1, m)
  BY <1>5, <1>8, <1>9 DEF CellOf, addr2row_fram, addr2grfram, PageCell, M, P, j, h
<1> QED
  BY <1>9, <1>10, <1>11, RowType DEF h

(* The loops go on with next_address from one round to the next.           *)
THEOREM PageWalkSteps ==
    ASSUME NEW k1 \in Trit
    PROVE  /\ PageWalk(k1, 0) = PageBegin(k1)
           /\ \A m \in Places : m + 1 \in Places =>
                 PageWalk(k1, m + 1) = next_address(PageWalk(k1, m))
<1>1. PageBegin(k1) \in Int
  BY PageShape, MaxAddress DEF PageBegin, Trit
<1>2. PageWalk(k1, 0) = PageBegin(k1)
  BY <1>1 DEF PageWalk
<1>3. ASSUME NEW m \in Places, m + 1 \in Places
      PROVE  PageWalk(k1, m + 1) = next_address(PageWalk(k1, m))
  <2> DEFINE w == PageWalk(k1, m)
             v == PageWalk(k1, m + 1)
  <2>1. m \in Nat
    BY PageShape
  <2>2. w \in Address /\ v \in Address /\ Half(w) = m % 2 /\ Half(v) = (m + 1) % 2
    BY <1>3, WalkCell
  <2>3. AT \in Widths /\ w \in Int /\ v \in Int
    BY <2>2, Sizes, WordIsInt DEF Address
  <2>4. v = w + (IF m % 2 = 0 THEN 1 ELSE 2)
    BY <1>1, <2>1 DEF PageWalk
  <2> HIDE DEF w, v
  <2>5. w + 1 \in Address
    <3>1. Address = -MaxWord(AT) .. MaxWord(AT) /\ MaxWord(AT) \in Nat
      BY MaxAddress DEF Address, Word
    <3> QED
      BY <2>1, <2>2, <2>3, <2>4, <3>1
  <2>6. inc_trs(w, AT) = w + 1
    BY <2>3, <2>5, ModIdentity DEF inc_trs, add_trs, Address
  <2>7. next_address(w) = IF Half(w + 1) < 0 THEN inc_trs(w + 1, AT) ELSE w + 1
    BY <2>6 DEF next_address
  <2>8. CASE m % 2 = 0
    <3>1. v = w + 1 /\ Half(w + 1) = 1
      BY <2>1, <2>2, <2>4, <2>8
    <3> QED
      BY <2>7, <3>1 DEF w, v
  <2>9. CASE m % 2 = 1
    <3>1. v = w + 2 /\ Half(w + 1) = -1
      BY <2>2, <2>3, <2>4, <2>9, HalfIs
    <3>2. inc_trs(w + 1, AT) = v
      BY <2>2, <2>3, <3>1, ModIdentity DEF inc_trs, add_trs, Address
    <3> QED
      BY <2>7, <3>1, <3>2 DEF w, v
  <2> QED
    BY <2>1, <2>8, <2>9
<1> QED
  BY <1>2, <1>3

(* The cells of a page are different from each other and from those of the *)
(* other pages.                                                            *)
LEMMA PageCellsDiffer ==
    ASSUME NEW k \in Trit, NEW l \in Trit, NEW p \in Places, NEW r \in Places,
           PageCell(k, p) = PageCell(l, r)
    PROVE  k = l /\ p = r
<1> DEFINE P == pow3(RT - 1)
<1>1. P \in Nat \ {0} /\ p \in 0 .. 2 * P - 1 /\ r \in 0 .. 2 * P - 1
  BY PageShape
<1>2. (k + 1) * P + p \div 2 = (l + 1) * P + r \div 2 /\ p % 2 = r % 2
  BY DEF PageCell
<1> HIDE DEF P
<1>3. p \div 2 \in 0 .. P - 1 /\ r \div 2 \in 0 .. P - 1
  BY <1>1
<1>4. k = l
  BY <1>1, <1>2, <1>3 DEF Trit
<1>5. p \div 2 = r \div 2
  BY <1>1, <1>2, <1>3, <1>4 DEF Trit
<1> QED
  BY <1>1, <1>2, <1>4, <1>5

(* A loop over a page stores its words in the cells of the page, in their  *)
(* order, and leaves every other cell alone.                               *)
THEOREM StoreRunCells ==
    ASSUME NEW m, NEW k1 \in Trit, NEW ws
    PROVE  /\ \A p \in Places :
                 StoreRun(m, k1, ws)[PageCell(k1, p)] =
                     IF p \in DOMAIN ws THEN ws[p] ELSE m[PageCell(k1, p)]
           /\ \A c \in Cells \ PageCells(k1) : StoreRun(m, k1, ws)[c] = m[c]
<1>1. \A c \in Cells : PlaceOf[k1][c] = {p \in Places : PageCell(k1, p) = c}
  BY WalkCell DEF PlaceOf
<1>2. ASSUME NEW p \in Places
      PROVE  StoreRun(m, k1, ws)[PageCell(k1, p)] =
                 IF p \in DOMAIN ws THEN ws[p] ELSE m[PageCell(k1, p)]
  <2> DEFINE rounds == PlaceOf[k1][PageCell(k1, p)] \cap DOMAIN ws
  <2>1. PageCell(k1, p) \in Cells
    BY WalkCell
  <2>2. PlaceOf[k1][PageCell(k1, p)] = {p}
    BY <1>1, <2>1, PageCellsDiffer
  <2>3. StoreRun(m, k1, ws)[PageCell(k1, p)] =
            IF rounds = {} THEN m[PageCell(k1, p)] ELSE ws[Max(rounds)]
    BY <2>1 DEF StoreRun
  <2>4. CASE p \in DOMAIN ws
    <3>1. rounds = {p} /\ p \in Int
      BY <2>2, <2>4, PageShape
    <3>2. Max({p}) = p
      BY <3>1 DEF Max
    <3> QED
      BY <2>3, <2>4, <3>1, <3>2
  <2>5. CASE p \notin DOMAIN ws
    BY <2>2, <2>3, <2>5
  <2> QED
    BY <2>4, <2>5
<1>3. ASSUME NEW c \in Cells \ PageCells(k1) PROVE StoreRun(m, k1, ws)[c] = m[c]
  <2>1. PlaceOf[k1][c] = {}
    BY <1>1 DEF PageCells
  <2> QED
    BY <2>1 DEF StoreRun
<1> QED
  BY <1>2, <1>3

(* ... so a loop that stores short words keeps the memory well formed.     *)
LEMMA StoreRunType ==
    ASSUME NEW m \in FramType, NEW k1 \in Trit, NEW ws,
           \A p \in DOMAIN ws : ws[p] \in ShortWord
    PROVE  StoreRun(m, k1, ws) \in FramType
<1>1. ASSUME NEW c \in Cells PROVE StoreRun(m, k1, ws)[c] \in ShortWord
  <2>1. CASE c \in PageCells(k1)
    <3>1. PICK p \in Places : c = PageCell(k1, p)
      BY <2>1 DEF PageCells
    <3> QED
      BY <3>1, StoreRunCells DEF FramType
  <2>2. CASE c \notin PageCells(k1)
    BY <2>2, StoreRunCells DEF FramType
  <2> QED
    BY <2>1, <2>2
<1> QED
  BY <1>1 DEF StoreRun, FramType

(* Two short words make a long one, and no more.                           *)
LEMMA JoinType ==
    ASSUME NEW x \in ShortWord, NEW y \in ShortWord
    PROVE  x * pow3(SW) + y \in LongWord
<1> DEFINE M == MaxWord(SW)
           P == pow3(SW)
<1>1. SW \in 0 .. 19 /\ LW \in 0 .. 19 /\ LW \in Widths /\ SW \in 0 .. LW /\ LW - SW = SW
  BY Sizes DEF Widths
<1>2. M \in Nat /\ P \in Nat \ {0} /\ P = 2 * M + 1
  BY <1>1, Pow3
<1>3. MaxWord(LW) \in Nat /\ pow3(LW) = 2 * MaxWord(LW) + 1
  BY <1>1, Pow3
<1>4. pow3(LW) = P * P
  BY <1>1, Pow3Split
<1>5. x \in -M .. M /\ y \in -M .. M
  BY DEF ShortWord, Word
<1> HIDE DEF M, P
<1>6. x * P \in -(M * P) .. M * P
  BY <1>2, <1>5, Scaled
<1>7. P * P = 2 * (M * P) + P /\ M * P \in Nat
  BY <1>2
<1>8. \A q \in Nat : 2 * q + 1 = 2 * (M * P) + P => q = M * P + M
  BY <1>2, <1>7
<1>9. MaxWord(LW) = M * P + M
  BY <1>3, <1>4, <1>7, <1>8
<1>10. x * P + y \in -(M * P + M) .. M * P + M
  BY <1>2, <1>5, <1>6, <1>7
<1> QED
  BY <1>9, <1>10 DEF LongWord, Word, P

(* A load returns a word of the length it says.                            *)
LEMMA LoadType ==
    ASSUME NEW m \in FramType, NEW ea \in Address
    PROVE  /\ ld_fram(m, ea).l = IF Half(ea) < 0 THEN LW ELSE SW
           /\ ld_fram(m, ea).v \in Word(ld_fram(m, ea).l)
           /\ Half(ea) >= 0 => ld_fram(m, ea).v = m[CellOf(ea)]
<1>1. Half(ea) \in Int
  <2>1. AT \in Widths
    BY Sizes
  <2> QED
    BY <2>1, WordIsInt, HalfIs DEF Address
<1>2. CASE Half(ea) < 0
  <2> DEFINE x == m[<< addr2row_fram(ea), 0 >>]
             y == m[<< addr2row_fram(ea), 1 >>]
  <2>1. x \in ShortWord /\ y \in ShortWord
    BY RowType DEF FramType
  <2>2. x * pow3(SW) + y \in LongWord
    BY <2>1, JoinType
  <2>3. ld_fram(m, ea) = [l |-> LW, v |-> x * pow3(SW) + y]
    BY <1>2 DEF ld_fram
  <2> HIDE DEF x, y
  <2> QED
    BY <1>1, <1>2, <2>2, <2>3 DEF LongWord
<1>3. CASE Half(ea) >= 0
  <2>1. ld_fram(m, ea) = [l |-> SW, v |-> m[CellOf(ea)]]
    BY <1>1, <1>3 DEF ld_fram
  <2>2. m[CellOf(ea)] \in ShortWord
    BY RowType DEF FramType
  <2> QED
    BY <1>1, <1>3, <2>1, <2>2 DEF ShortWord
<1> QED
  BY <1>1, <1>2, <1>3

(* A store changes at most the cells of its address.                       *)
LEMMA StoreCells ==
    ASSUME NEW m \in FramType, NEW ea \in Address, NEW l, NEW v, NEW c \in Cells,
           st_fram(m, ea, l, v)[c] # m[c]
    PROVE  c[1] = addr2row_fram(ea) /\ (Half(ea) < 0 \/ c[2] = addr2grfram(ea))
  BY DEF st_fram, CellOf, FramType, Cells

(* A store of a short or a long word keeps the memory well formed; the word *)
(* of the length of a register is stored at a short address only.           *)
LEMMA StoreType ==
    ASSUME NEW m \in FramType, NEW ea \in Address, NEW l \in {SW, LW},
           NEW v \in Word(l), Half(ea) < 0 => l = LW
    PROVE  st_fram(m, ea, l, v) \in FramType
<1>1. /\ l \in Widths /\ 1 \in 1 .. l /\ SW \in 1 .. l /\ SW - 1 + 1 = SW
      /\ SW \in Nat
  BY Sizes
<1>2. slice_trs_setun(v, l, 1, SW) \in ShortWord
  <2>1. slice_trs_setun(v, l, 1, SW) \in Word(SW - 1 + 1)
    BY <1>1, SliceType
  <2> QED
    BY <1>1, <2>1 DEF ShortWord
<1>3. CASE Half(ea) < 0
  <2>1. l = LW /\ SW + 1 \in 1 .. l /\ LW \in SW + 1 .. l /\ LW - (SW + 1) + 1 = SW
    BY <1>3, Sizes
  <2>2. slice_trs_setun(v, l, SW + 1, LW) \in Word(LW - (SW + 1) + 1)
    BY <1>1, <2>1, SliceType
  <2>3. slice_trs_setun(v, l, SW + 1, LW) \in ShortWord
    BY <2>1, <2>2 DEF ShortWord
  <2> QED
    BY <1>2, <1>3, <2>3 DEF st_fram, FramType
<1>4. CASE ~ (Half(ea) < 0)
  BY <1>2, <1>4 DEF st_fram, FramType
<1> QED
  BY <1>3, <1>4

(***************************************************************************)
(* The drum.                                                               *)
(***************************************************************************)
(* Every number selects a zone of the drum.                                *)
LEMMA ZoneType == \A z \in Int : zone_drum_to_index(z) \in DrumZones
  BY MemoryAssumption DEF zone_drum_to_index, DrumZones, NUMBER_ZONE_DRUM

(* The parts of an address.                                                *)
LEMMA AddressParts ==
    ASSUME NEW ea \in Address
    PROVE  FirstTrit(ea) \in Trit /\ OtherTrits(ea) \in Word(RT) /\ OtherTrits(ea) \in Int
<1>1. AT \in Widths /\ 2 \in 1 .. AT /\ AT \in 2 .. AT /\ AT - 2 + 1 = RT /\ RT \in Widths
  BY Sizes
<1>2. FirstTrit(ea) \in Trit
  BY <1>1, TritType DEF FirstTrit, Trit, Address
<1>3. OtherTrits(ea) \in Word(AT - 2 + 1)
  BY <1>1, SliceType DEF OtherTrits, Address
<1> QED
  BY <1>1, <1>2, <1>3, WordIsInt

(* The words of a page in the order of its cells.                          *)
LEMMA LoadRunCells ==
    ASSUME NEW m \in FramType, NEW k1 \in Trit
    PROVE  /\ LoadRun(m, k1) \in [Places -> ShortWord]
           /\ \A p \in Places : LoadRun(m, k1)[p] = m[PageCell(k1, p)]
<1>1. ASSUME NEW p \in Places
      PROVE  LoadRun(m, k1)[p] = m[PageCell(k1, p)] /\ m[PageCell(k1, p)] \in ShortWord
  <2>1. /\ PageWalk(k1, p) \in Address /\ Half(PageWalk(k1, p)) = p % 2
        /\ CellOf(PageWalk(k1, p)) = PageCell(k1, p) /\ PageCell(k1, p) \in Cells
    BY WalkCell
  <2>2. Half(PageWalk(k1, p)) >= 0
    BY <2>1, PageShape
  <2>3. ld_fram(m, PageWalk(k1, p)).v = m[PageCell(k1, p)]
    BY <2>1, <2>2, LoadType
  <2> QED
    BY <2>1, <2>3 DEF LoadRun, FramType
<1> QED
  BY <1>1 DEF LoadRun

(* A transfer keeps the drum and the memory well formed.                   *)
LEMMA DrumTransferType ==
    ASSUME NEW m \in FramType, NEW d \in DrumType, NEW ea \in Address
    PROVE  fram_to_drum(m, d, ea) \in DrumType /\ drum_to_fram(m, d, ea) \in FramType
<1>1. FirstTrit(ea) \in Trit /\ zone_drum_to_index(OtherTrits(ea)) \in DrumZones
  BY AddressParts, ZoneType
<1>2. fram_to_drum(m, d, ea) \in DrumType
  BY <1>1, LoadRunCells DEF fram_to_drum, DrumType
<1>3. d[zone_drum_to_index(OtherTrits(ea))] \in [Places -> ShortWord]
  BY <1>1 DEF DrumType
<1>4. drum_to_fram(m, d, ea) \in FramType
  BY <1>1, <1>3, StoreRunType DEF drum_to_fram
<1> QED
  BY <1>2, <1>4

(* A page that is written to a zone with fram_to_drum and read from it with *)
(* drum_to_fram, on whatever page and after whatever happened to the        *)
(* ferrite memory, is the page that was written.                            *)
THEOREM DrumRoundTrip ==
    ASSUME NEW m \in FramType, NEW n \in FramType, NEW d \in DrumType,
           NEW ea \in Address, NEW eb \in Address,
           OtherTrits(ea) = OtherTrits(eb), NEW p \in Places
    PROVE  drum_to_fram(n, fram_to_drum(m, d, ea), eb)[PageCell(FirstTrit(eb), p)]
               = m[PageCell(FirstTrit(ea), p)]
<1> DEFINE z == zone_drum_to_index(OtherTrits(ea))
           ws == LoadRun(m, FirstTrit(ea))
<1>1. FirstTrit(ea) \in Trit /\ FirstTrit(eb) \in Trit /\ z \in DrumZones
  BY AddressParts, ZoneType
<1>2. fram_to_drum(m, d, ea)[z] = ws
  BY <1>1 DEF fram_to_drum, DrumType
<1>3. drum_to_fram(n, fram_to_drum(m, d, ea), eb) = StoreRun(n, FirstTrit(eb), ws)
  BY <1>2 DEF drum_to_fram
<1>4. p \in DOMAIN ws /\ ws[p] = m[PageCell(FirstTrit(ea), p)]
  BY <1>1, LoadRunCells
<1> DEFINE k == FirstTrit(eb)
<1> HIDE DEF ws, k
<1>5. k \in Trit
  BY <1>1 DEF k
<1>6. StoreRun(n, k, ws)[PageCell(k, p)] = ws[p]
  BY <1>4, <1>5, StoreRunCells, ZenonT(30)
<1> QED
  BY <1>3, <1>4, <1>6 DEF k

-----------------------------------------------------------------------------
(***************************************************************************)
(* What the readers deliver: short words, and a tape.                      *)
(***************************************************************************)
(* What is left of a tape is a tape.                                       *)
LEMMA RestType ==
    ASSUME NEW tape \in Tape, NEW i PROVE From(tape, i) \in Tape
<1>1. CASE i \in 1 .. Len(tape)
  <2>1. SubSeq(tape, i, Len(tape)) \in Seq(Token)
    BY <1>1, SubSeqProperties DEF Tape
  <2> QED
    BY <1>1, <2>1 DEF From, Tape
<1>2. CASE i \notin 1 .. Len(tape)
  BY <1>2 DEF From, Tape
<1> QED
  BY <1>1, <1>2

(* The tables of the readers give a number for every line.                 *)
LEMMA Tables == tab4_1 \in [LineCodes -> Int] /\ tab4_2 \in [LineCodes -> Int]
  BY DEF tab4_1, tab4_2, TableFrom, LineCodes, TAB_SIZE, NoPair

(* A token has a number, and no token counts as 0.                         *)
LEMMA DecodedType ==
    ASSUME NEW tape \in Tape, NEW table \in [LineCodes -> Int]
    PROVE  \A i : Decoded(tape, i, table) \in Int
<1>1. ASSUME NEW i \in DOMAIN tape, tape[i].kind = "line" PROVE tape[i].v \in LineCodes
  <2>1. DOMAIN tape = 1 .. Len(tape)
    BY LenProperties DEF Tape
  <2>2. tape[i] \in Token
    BY <2>1, ElementOfSeq DEF Tape
  <2> QED
    BY <1>1, <2>2 DEF Token
<1> QED
  BY <1>1 DEF Decoded

(* Whatever frames a word is made of, it has the width of a short word.    *)
LEMMA WordAtType ==
    ASSUME NEW tape \in Tape, NEW at, NEW k, NEW n \in Widths, NEW b \in 1 .. 3,
           b * (n - 1) < 20, NEW table \in [LineCodes -> Int]
    PROVE  WordAt(tape, at, k, n, b, table) \in ShortWord
<1> DEFINE f == [j \in 0 .. n-1 |->
                    Decoded(tape, at[k * n + n - j], table) * pow3(b * j)]
<1>1. ASSUME NEW j \in 0 .. n - 1 PROVE f[j] \in Int
  <2>1. \A i : Decoded(tape, i, table) \in Int
    BY DecodedType
  <2>2. b * j \in 0 .. 19
    BY DEF Widths
  <2>3. pow3(b * j) \in Int
    BY <2>2, Pow3
  <2> QED
    BY <2>1, <2>3
<1>2. SumTo(f, n) \in Int
  BY <1>1, SumType
<1>3. mod_3_n(SumTo(f, n), SW) \in Word(SW)
  BY <1>2, ModType, Sizes
<1> QED
  BY <1>3 DEF WordAt, ShortWord

(* Five nonary digits give a short word.                                   *)
LEMMA NonaryType ==
    ASSUME NEW tape \in Tape PROVE \A i : cmd_str_2_trs(tape, i) \in ShortWord
<1>1. ASSUME NEW i \in DOMAIN tape, tape[i].kind = "word" PROVE tape[i].v \in Int
  <2>1. DOMAIN tape = 1 .. Len(tape)
    BY LenProperties DEF Tape
  <2>2. tape[i] \in Token
    BY <2>1, ElementOfSeq DEF Tape
  <2> QED
    BY <1>1, <2>2 DEF Token
<1>2. 0 \in ShortWord
  BY Pow3, Sizes DEF ShortWord, Word, Widths
<1>3. \A v \in Int : mod_3_n(v, SW) \in ShortWord
  BY ModType, Sizes DEF ShortWord
<1> QED
  BY <1>1, <1>2, <1>3 DEF cmd_str_2_trs

(* The frames of a word fit the tables of powers.                          *)
LEMMA FrameCounts ==
    /\ CommandFrames \in Widths /\ 2 * (CommandFrames - 1) < 20
    /\ SymbolFrames \in Widths /\ 3 * (SymbolFrames - 1) < 20
  BY Sizes DEF CommandFrames, SymbolFrames, Widths

(* A reading: short words for the page, and what is left of the tape.      *)
IsReading(r) == (\A k \in DOMAIN r.words : r.words[k] \in ShortWord) /\ r.rest \in Tape

(* Each reader leaves a tape and delivers short words, whatever is on the  *)
(* tape it reads.                                                          *)
THEOREM ReadersType ==
    ASSUME NEW tape \in Tape
    PROVE  /\ IsReading(Read_Commands_from_FT1(tape))
           /\ IsReading(Read_Symbols_from_FT1(tape))
           /\ IsReading(Read_Commands_from_FT2(tape))
           /\ IsReading(Read_Symbols_from_FT2(tape))
<1>1. <<>> \in Tape /\ \A i : From(tape, i) \in Tape
  BY RestType DEF Tape
<1>2. \A at, k : CommandAt(tape, at, k) \in ShortWord /\ SymbolsAt(tape, at, k) \in ShortWord
  <2>1. \A at, k : CommandAt(tape, at, k) \in ShortWord
    BY FrameCounts, WordAtType, Tables DEF CommandAt
  <2>2. \A at, k : SymbolsAt(tape, at, k) \in ShortWord
    BY FrameCounts, WordAtType, Tables DEF SymbolsAt
  <2> QED
    BY <2>1, <2>2
<1>3. IsReading(Read_Commands_from_FT1(tape))
  BY <1>1, <1>2 DEF IsReading, Read_Commands_from_FT1, AfterFullPage
<1>4. IsReading(Read_Symbols_from_FT1(tape))
  BY <1>1, <1>2 DEF IsReading, Read_Symbols_from_FT1, AfterFullPage
<1>5. \A i : cmd_str_2_trs(tape, i) \in ShortWord
  BY NonaryType
<1>6. IsReading(Read_Commands_from_FT2(tape))
  BY <1>1, <1>5 DEF IsReading, Read_Commands_from_FT2
<1>7. IsReading(Read_Symbols_from_FT2(tape))
  BY <1>1, <1>2 DEF IsReading, Read_Symbols_from_FT2, AfterFullPage
<1> QED
  BY <1>3, <1>4, <1>6, <1>7

-----------------------------------------------------------------------------
(***************************************************************************)
(* The machine.                                                            *)
(***************************************************************************)
(* The actions that execute an instruction are the steps that count one.   *)
LEMMA OperatorCountsNothing ==
    ASSUME Operator PROVE executed' = executed
  BY DEF Operator, Emu_Open_Files, Emu_Begin, reg_cmd, dump_cmd, prn_cmd

(* An instruction that ends with a status other than OK changes nothing but *)
(* K, and R at a stop.                                                      *)
LEMMA FailedStep ==
    ASSUME Emu_Step, ret_exec' # "OK"
    PROVE  /\ UNCHANGED << memories, F, C, W, S, MB, devices >>
           /\ ret_exec' # "STOP" => R' = R
<1>1. CASE op_plusminusminus
  BY <1>1 DEF op_plusminusminus, StopsWith
<1>2. CASE op_error
  BY <1>2 DEF op_error, StopsWith
<1>3. CASE No_Device
  BY <1>3 DEF No_Device, StopsWith
<1>4. CASE op_minus0plus
  BY <1>4 DEF op_minus0plus, StopsWith, Continues, memories
<1>5. CASE \/ op_plus00 \/ op_plus0plus \/ op_plus0minus
           \/ op_plusplus0 \/ op_plusplusplus \/ op_plusplusminus
           \/ op_plusminus0 \/ op_plusminusplus
  BY <1>5 DEF op_plus00, op_plus0plus, op_plus0minus, op_plusplus0, op_plusplusplus,
              op_plusplusminus, op_plusminus0, op_plusminusplus, Continues
<1>6. CASE op_0plus0 \/ op_0plusplus \/ op_0plusminus \/ op_000
  BY <1>6 DEF op_0plus0, op_0plusplus, op_0plusminus, op_000, Jump, JumpsIf
<1>7. CASE \/ op_00plus \/ op_00minus \/ op_0minus0 \/ op_0minusplus
           \/ op_0minusminus \/ op_minusplus0 \/ op_minusplusplus
           \/ op_minusplusminus \/ op_minus0minus
  BY <1>7 DEF op_00plus, op_00minus, op_0minus0, op_0minusplus, op_0minusminus,
              op_minusplus0, op_minusplusplus, op_minusplusminus, op_minus0minus,
              Continues
<1>8. CASE \/ Commands_FT1 \/ Commands_FT2 \/ Symbols_FT1 \/ Symbols_FT2
           \/ Punch_Commands \/ Punch_Symbols \/ Print_Commands \/ Print_Symbols
  BY <1>8 DEF Commands_FT1, Commands_FT2, Symbols_FT1, Symbols_FT2, Punch_Commands,
              Punch_Symbols, Print_Commands, Print_Symbols, InputOutput, Continues
<1> QED
  BY <1>1, <1>2, <1>3, <1>4, <1>5, <1>6, <1>7, <1>8 DEF Emu_Step, op_minus00

(* The count of instructions is a number, so the steps that count one are   *)
(* the actions of Emu_Step.                                                 *)
LEMMA EachActionCounts ==
    ASSUME Emu_Step PROVE executed < MaxSteps /\ executed' = executed + 1
  BY DEF Emu_Step, op_plus00, op_plus0plus, op_plus0minus, op_plusplus0,
         op_plusplusplus, op_plusplusminus, op_plusminus0, op_plusminusplus,
         op_plusminusminus, op_0plus0, op_0plusplus, op_0plusminus, op_000, Jump,
         op_00plus, op_00minus, op_0minus0, op_0minusplus, op_0minusminus,
         op_minusplus0, op_minusplusplus, op_minusplusminus, op_minus00,
         Commands_FT1, Commands_FT2, Symbols_FT1, Symbols_FT2, Punch_Commands,
         Punch_Symbols, Print_Commands, Print_Symbols, InputOutput, No_Device,
         op_minus0plus, op_minus0minus, op_error, Executes

(* The number of executed instructions stays within its bound.             *)
LEMMA ExecutedIsCount == Spec => [](executed \in 0 .. MaxSteps)
<1>1. Init => executed \in 0 .. MaxSteps
  BY SetunAssumption DEF Init
<1>2. executed \in 0 .. MaxSteps /\ [Next]_vars => (executed \in 0 .. MaxSteps)'
  BY SetunAssumption, EachActionCounts, OperatorCountsNothing DEF Next, vars
<1> QED
  BY <1>1, <1>2, PTL DEF Spec

(* The machine can be looked at, and restarted, after a stop or an error as *)
(* it was before the instruction.                                           *)
THEOREM FailureIsHarmless == Spec => FailedStepChangesNothing
<1>1. executed \in 0 .. MaxSteps /\ [Next]_vars =>
        [ executed' = executed + 1 /\ ret_exec' # "OK" =>
            /\ UNCHANGED << memories, F, C, W, S, MB, devices >>
            /\ ret_exec' # "STOP" => R' = R ]_vars
  <2> SUFFICES ASSUME executed \in 0 .. MaxSteps, Next,
                      executed' = executed + 1, ret_exec' # "OK"
               PROVE  /\ UNCHANGED << memories, F, C, W, S, MB, devices >>
                      /\ ret_exec' # "STOP" => R' = R
    OBVIOUS
  <2>1. executed' # executed
    BY SetunAssumption
  <2>2. Emu_Step
    BY <2>1, OperatorCountsNothing DEF Next
  <2> QED
    BY <2>2, FailedStep
<1> QED
  BY <1>1, ExecutedIsCount, PTL DEF Spec, FailedStepChangesNothing

(***************************************************************************)
(* Type correctness: every register and every word of both memories keeps  *)
(* its width under every instruction, for every program and every tape.    *)
(***************************************************************************)
(* The parts of a step that the proofs below use.                          *)
LEMMA WidthsOfMachine ==
    /\ AT \in Widths /\ SW \in Widths /\ LW \in Widths /\ RT \in Widths
    /\ Address \subseteq Int /\ ShortWord \subseteq Int /\ LongWord \subseteq Int
    /\ 0 \in Address /\ 0 \in ShortWord /\ 0 \in LongWord /\ 0 \in Word(RT) /\ 1 \in Address
<1>1. AT \in Widths /\ SW \in Widths /\ LW \in Widths /\ RT \in Widths
  BY Sizes
<1>2. Address \subseteq Int /\ ShortWord \subseteq Int /\ LongWord \subseteq Int
  BY <1>1, WordIsInt DEF Address, ShortWord, LongWord
<1>3. \A n \in Widths : 0 \in Word(n)
  BY Pow3 DEF Word, Widths
<1>4. 1 \in Address
  BY MaxAddress DEF Address, Word
<1> QED
  BY <1>1, <1>2, <1>3, <1>4 DEF Address, ShortWord, LongWord

(* The instruction, its address and the operand.                           *)
LEMMA OperandTypes ==
    ASSUME TypeOK
    PROVE  /\ Fetched \in ShortWord /\ A \in Address
           /\ LongOperand \in LongWord /\ ShortOperand \in Address
           /\ next_address(C) \in Address
<1> USE WidthsOfMachine
<1>1. C \in Address /\ F \in Address /\ fram \in FramType
  BY DEF TypeOK
<1>2. Fetched \in ShortWord
  <2>1. /\ ld_fram(fram, C).l \in {SW, LW}
        /\ ld_fram(fram, C).v \in Word(ld_fram(fram, C).l)
    BY <1>1, LoadType
  <2>2. SW \in 1 .. ld_fram(fram, C).l /\ 1 \in 1 .. ld_fram(fram, C).l /\ SW - 1 + 1 = SW
    BY <2>1, Sizes
  <2>3. ld_fram(fram, C).l \in Widths
    BY <2>1
  <2>4. slice_trs_setun(ld_fram(fram, C).v, ld_fram(fram, C).l, 1, SW) \in Word(SW - 1 + 1)
    BY <2>1, <2>2, <2>3, SliceType
  <2> QED
    BY <2>2, <2>4 DEF Fetched, ShortWord
<1>3. A \in Address
  <2> DEFINE a == slice_trs_setun(Fetched, SW, 1, AT)
  <2>1. AT \in 1 .. SW /\ 1 \in 1 .. SW /\ AT - 1 + 1 = AT
    BY Sizes
  <2>2. Fetched \in Word(SW)
    BY <1>2 DEF ShortWord
  <2>3. a \in Word(AT - 1 + 1)
    BY <2>1, <2>2, SliceType
  <2>4. a \in Address /\ a \in Int /\ F \in Int
    BY <1>1, <2>1, <2>3 DEF Address
  <2>5. add_trs(a, F, AT) \in Address /\ sub_trs(a, F, AT) \in Address
    BY <2>4, AddType DEF Address
  <2> QED
    BY <2>4, <2>5 DEF A, control_trs
<1>4. /\ ld_fram(fram, A).l \in {SW, LW}
      /\ ld_fram(fram, A).v \in Word(ld_fram(fram, A).l)
  BY <1>1, <1>3, LoadType
<1>5. LongOperand \in LongWord
  <2>1. CASE ld_fram(fram, A).l = LW
    BY <1>4, <2>1 DEF LongOperand, LongWord
  <2>2. CASE ld_fram(fram, A).l # LW
    <3>1. ld_fram(fram, A).v \in Int /\ SW \in Nat
      BY <1>4, <2>2, Sizes, WordIsInt
    <3>2. ShiftLeft(ld_fram(fram, A).v, LW, SW) \in LongWord
      BY <3>1, ShiftLeftType DEF LongWord
    <3> QED
      BY <2>2, <3>2 DEF LongOperand
  <2> QED
    BY <2>1, <2>2
<1>6. ShortOperand \in Address
  <2>1. AT \in 1 .. ld_fram(fram, A).l /\ 1 \in 1 .. ld_fram(fram, A).l /\ AT - 1 + 1 = AT
    BY <1>4, Sizes
  <2>2. ld_fram(fram, A).l \in Widths
    BY <1>4
  <2>3. slice_trs_setun(ld_fram(fram, A).v, ld_fram(fram, A).l, 1, AT) \in Word(AT - 1 + 1)
    BY <1>4, <2>1, <2>2, SliceType
  <2> QED
    BY <2>1, <2>3 DEF ShortOperand, Address
<1> QED
  BY <1>1, <1>2, <1>3, <1>5, <1>6, NextIsShort

(* The sign of a word is a value for W.                                    *)
LEMMA SignIsTrit == \A v \in Int : sgn_trs(v) \in Trit
  BY SignType DEF Trit

(* The number of places of a normalisation exists.                         *)
LEMMA NormalShiftType == NormalShift \in Int
<1> DEFINE T == {n \in 1 .. LW - 2 :
                    \/ n = LW - 2
                    \/ get_trit_setun(ShiftLeft(S, LW, n), LW, 2) # 0}
<1>1. LW - 2 \in T /\ T \subseteq Nat
  BY Sizes
<1>2. \E x \in T : \A y \in T : x <= y
  <2> HIDE DEF T
  <2> QED
    BY <1>1, LeastElement
<1>3. Min(T) \in T
  BY <1>2 DEF Min
<1>4. Places_to_left \in Nat
  BY <1>1, <1>3 DEF Places_to_left
<1> QED
  BY <1>4 DEF NormalShift

(* What every instruction does to K, C, the status and the count.          *)
LEMMA CommonTypes ==
    ASSUME TypeOK, NEW code, Executes(code)
    PROVE  /\ K' \in ShortWord
           /\ executed' \in 0 .. MaxSteps
           /\ Continues => C' \in Address /\ ret_exec' \in Statuses
           /\ \A cond : JumpsIf(cond) => C' \in Address /\ ret_exec' \in Statuses
           /\ \A st \in Statuses : StopsWith(st) => C' \in Address /\ ret_exec' \in Statuses
<1>1. Fetched \in ShortWord /\ A \in Address /\ next_address(C) \in Address /\ C \in Address
  BY OperandTypes DEF TypeOK
<1>2. executed \in 0 .. MaxSteps /\ MaxSteps \in Nat
  BY SetunAssumption DEF TypeOK
<1> QED
  BY <1>1, <1>2 DEF Executes, Continues, JumpsIf, StopsWith, Statuses

(* The values the operations of the accumulator compute.                   *)
LEMMA ResultTypes ==
    ASSUME TypeOK
    PROVE  /\ add_trs(S, LongOperand, LW) \in LongWord
           /\ sub_trs(S, LongOperand, LW) \in LongWord
           /\ mod_3_n(mul_trs(LongOperand, S, LW), LW) \in LongWord
           /\ add_trs(mul_trs(LongOperand, R, LW), S, LW) \in LongWord
           /\ add_trs(mul_trs(S, R, LW), LongOperand, LW) \in LongWord
           /\ and_trs(LongOperand, S, LW) \in LongWord
           /\ shift_trs(S, LW, ShortOperand) \in LongWord
           /\ shift_trs(S, LW, - NormalShift) \in LongWord
           /\ ShiftLeft(NormalShift, LW, LW - AT) \in LongWord
           /\ add_trs(C, ShortOperand, AT) \in Address
           /\ add_trs(F, ShortOperand, AT) \in Address
<1> USE WidthsOfMachine
<1>1. /\ S \in LongWord /\ R \in LongWord /\ LongOperand \in LongWord
      /\ S \in Int /\ R \in Int /\ LongOperand \in Int
  BY OperandTypes DEF TypeOK
<1>2. ShortOperand \in Int /\ C \in Int /\ F \in Int
  BY OperandTypes DEF TypeOK
<1>3. /\ mul_trs(LongOperand, S, LW) \in Int /\ mul_trs(LongOperand, R, LW) \in Int
      /\ mul_trs(S, R, LW) \in Int
  BY <1>1, MulType DEF LongWord
<1>4. NormalShift \in Int /\ - NormalShift \in Int /\ LW - AT \in Nat
  BY NormalShiftType, Sizes
<1>5. /\ add_trs(S, LongOperand, LW) \in LongWord /\ sub_trs(S, LongOperand, LW) \in LongWord
      /\ add_trs(mul_trs(LongOperand, R, LW), S, LW) \in LongWord
      /\ add_trs(mul_trs(S, R, LW), LongOperand, LW) \in LongWord
  BY <1>1, <1>3, AddType DEF LongWord
<1>6. mod_3_n(mul_trs(LongOperand, S, LW), LW) \in LongWord
  BY <1>3, ModType DEF LongWord
<1>7. and_trs(LongOperand, S, LW) \in LongWord
  BY <1>1, AndType DEF LongWord
<1>8. shift_trs(S, LW, ShortOperand) \in LongWord /\ shift_trs(S, LW, - NormalShift) \in LongWord
  BY <1>1, <1>2, <1>4, ShiftType DEF LongWord
<1>9. ShiftLeft(NormalShift, LW, LW - AT) \in LongWord
  BY <1>4, ShiftLeftType DEF LongWord
<1>10. add_trs(C, ShortOperand, AT) \in Address /\ add_trs(F, ShortOperand, AT) \in Address
  BY <1>2, AddType DEF Address
<1> QED
  BY <1>5, <1>6, <1>7, <1>8, <1>9, <1>10

(* The stores of the accumulator and of the address registers.             *)
LEMMA StoreTypes ==
    ASSUME TypeOK
    PROVE  /\ \A v \in LongWord : st_fram(fram, A, LW, v) \in FramType
           /\ \A v \in Address : StoreRegister(v) => fram' \in FramType
<1>1. A \in Address /\ fram \in FramType
  BY OperandTypes DEF TypeOK
<1>2. \A v \in LongWord : st_fram(fram, A, LW, v) \in FramType
  BY <1>1, StoreType DEF LongWord
<1>3. ASSUME NEW v \in Address, StoreRegister(v) PROVE fram' \in FramType
  <2> DEFINE l == IF Half(A) < 0 THEN LW ELSE SW
  <2>1. l \in {SW, LW} /\ l \in Widths /\ AT < l
    BY Sizes
  <2>2. copy_trs_setun(v, AT, l) \in Word(l)
    BY <2>1, Sizes, CopyType DEF Address
  <2>3. Half(A) < 0 => l = LW
    OBVIOUS
  <2> HIDE DEF l
  <2>4. st_fram(fram, A, l, copy_trs_setun(v, AT, l)) \in FramType
    BY <1>1, <2>1, <2>2, <2>3, StoreType
  <2> QED
    BY <1>3, <2>4 DEF StoreRegister, l
<1> QED
  BY <1>2, <1>3

(* The instructions on S, R and W keep the types.                          *)
LEMMA AccumulatorTypes ==
    ASSUME TypeOK,
           \/ op_plus00 \/ op_plus0plus \/ op_plus0minus
           \/ op_plusplus0 \/ op_plusplusplus \/ op_plusplusminus
           \/ op_plusminus0 \/ op_plusminusplus \/ op_minusplus0
           \/ op_minusplusplus \/ op_minusplusminus \/ op_plusminusminus
    PROVE  TypeOK'
<1> USE DEF memories, devices, mounted, readers, switches
<1>1. /\ S \in LongWord /\ LongOperand \in LongWord /\ sgn_trs(S) \in Trit
      /\ \A v \in LongWord : SetS(v) => S' \in LongWord /\ W' \in Trit
  BY OperandTypes, SignIsTrit, WidthsOfMachine DEF TypeOK, SetS
<1>2. CASE op_plus00
  BY <1>1, <1>2, CommonTypes DEF op_plus00, TypeOK
<1>3. CASE op_plus0plus
  BY <1>1, <1>3, CommonTypes, ResultTypes DEF op_plus0plus, TypeOK
<1>4. CASE op_plus0minus
  BY <1>1, <1>4, CommonTypes, ResultTypes DEF op_plus0minus, TypeOK
<1>5. CASE op_plusplus0
  BY <1>1, <1>5, CommonTypes, ResultTypes DEF op_plusplus0, TypeOK
<1>6. CASE op_plusplusplus
  BY <1>1, <1>6, CommonTypes, ResultTypes DEF op_plusplusplus, TypeOK
<1>7. CASE op_plusplusminus
  BY <1>1, <1>7, CommonTypes, ResultTypes DEF op_plusplusminus, TypeOK
<1>8. CASE op_plusminus0
  BY <1>1, <1>8, CommonTypes, ResultTypes DEF op_plusminus0, TypeOK
<1>9. CASE op_plusminusplus
  BY <1>1, <1>9, CommonTypes DEF op_plusminusplus, TypeOK
<1>10. CASE op_minusplus0
  BY <1>1, <1>10, CommonTypes, ResultTypes DEF op_minusplus0, TypeOK
<1>11. CASE op_minusplusplus
  BY <1>1, <1>11, CommonTypes, StoreTypes DEF op_minusplusplus, TypeOK
<1>12. CASE op_minusplusminus
  <2>1. fram' \in FramType /\ S' \in LongWord /\ W' \in Trit
    BY <1>1, <1>12, ResultTypes, StoreTypes DEF op_minusplusminus
  <2> QED
    BY <1>12, <2>1, CommonTypes DEF op_minusplusminus, TypeOK
<1>13. CASE op_plusminusminus
  BY <1>1, <1>13, CommonTypes DEF op_plusminusminus, TypeOK, Statuses
<1> QED
  BY <1>2, <1>3, <1>4, <1>5, <1>6, <1>7, <1>8, <1>9, <1>10, <1>11, <1>12, <1>13

(* Jumps and the instructions on F keep the types.                         *)
LEMMA ControlTypes ==
    ASSUME TypeOK,
           \/ op_0plus0 \/ op_0plusplus \/ op_0plusminus \/ op_000
           \/ op_00plus \/ op_00minus
           \/ op_0minus0 \/ op_0minusplus \/ op_0minusminus
           \/ op_error
    PROVE  TypeOK'
<1> USE DEF memories, devices, mounted, readers, switches
<1>1. /\ F \in Address /\ C \in Address /\ ShortOperand \in Address /\ sgn_trs(F) \in Trit
      /\ \A v \in Address : SetF(v) => F' \in Address /\ W' \in Trit
  BY OperandTypes, SignIsTrit, WidthsOfMachine DEF TypeOK, SetF
<1>2. ASSUME NEW code, NEW cond, Jump(code, cond) PROVE TypeOK'
  BY <1>2, CommonTypes DEF Jump, TypeOK
<1>3. CASE op_0plus0 \/ op_0plusplus \/ op_0plusminus \/ op_000
  BY <1>2, <1>3 DEF op_0plus0, op_0plusplus, op_0plusminus, op_000
<1>4. CASE op_00plus
  BY <1>1, <1>4, CommonTypes, StoreTypes DEF op_00plus, TypeOK
<1>5. CASE op_00minus
  BY <1>1, <1>5, CommonTypes, StoreTypes DEF op_00minus, TypeOK
<1>6. CASE op_0minus0
  BY <1>1, <1>6, CommonTypes DEF op_0minus0, TypeOK
<1>7. CASE op_0minusplus
  BY <1>1, <1>7, CommonTypes, ResultTypes DEF op_0minusplus, TypeOK
<1>8. CASE op_0minusminus
  BY <1>1, <1>8, CommonTypes, ResultTypes DEF op_0minusminus, TypeOK
<1>9. CASE op_error
  <2>1. PICK code : Executes(code)
    BY <1>9 DEF op_error
  <2>2. StopsWith("STOP_ERROR") /\ "STOP_ERROR" \in Statuses
    BY <1>9 DEF op_error, Statuses
  <2>3. /\ K' \in ShortWord /\ executed' \in 0 .. MaxSteps
        /\ C' \in Address /\ ret_exec' \in Statuses
    BY <2>1, <2>2, CommonTypes
  <2> QED
    BY <1>9, <2>3 DEF op_error, TypeOK
<1> QED
  BY <1>3, <1>4, <1>5, <1>6, <1>7, <1>8, <1>9

(* Input, output and the drum keep the types.                              *)
LEMMA DeviceTypes ==
    ASSUME TypeOK, op_minus00 \/ op_minus0plus \/ op_minus0minus
    PROVE  TypeOK'
<1> USE DEF memories, devices, mounted, readers, switches
<1>1. /\ A \in Address /\ FirstTrit(A) \in Trit /\ OtherTrits(A) \in Word(RT)
      /\ fram \in FramType /\ drum \in DrumType /\ {ptr1, ptr2} \subseteq Tape
      /\ letter_number_sw \in {Letters, Digits}
  BY OperandTypes, AddressParts DEF TypeOK
<1>2. ASSUME NEW code, InputOutput(code)
      PROVE  /\ K' \in ShortWord /\ executed' \in 0 .. MaxSteps
             /\ C' \in Address /\ ret_exec' \in Statuses
             /\ UNCHANGED << drum, F, W, S, R, MB, russian_latin_sw, opened, paper1, paper2 >>
  BY <1>2, CommonTypes DEF InputOutput
<1>3. ASSUME NEW code, InputOutput(code),
             fram' \in FramType, {ptr1', ptr2'} \subseteq Tape, letter_number_sw' \in {Letters, Digits}
      PROVE  TypeOK'
  BY <1>2, <1>3 DEF TypeOK
<1>4. ASSUME NEW r, IsReading(r), fram' = StoreRun(fram, FirstTrit(A), r.words)
      PROVE  fram' \in FramType /\ r.rest \in Tape
  BY <1>1, <1>4, StoreRunType DEF IsReading
<1>5. /\ IsReading(Read_Commands_from_FT1(ptr1)) /\ IsReading(Read_Symbols_from_FT1(ptr1))
      /\ IsReading(Read_Commands_from_FT2(ptr2)) /\ IsReading(Read_Symbols_from_FT2(ptr2))
  BY <1>1, ReadersType
<1>6. CASE Commands_FT1
  BY <1>1, <1>3, <1>4, <1>5, <1>6 DEF Commands_FT1, Reads
<1>7. CASE Symbols_FT1
  BY <1>1, <1>3, <1>4, <1>5, <1>7 DEF Symbols_FT1, Reads
<1>8. CASE Commands_FT2
  BY <1>1, <1>3, <1>4, <1>5, <1>8 DEF Commands_FT2, Reads
<1>9. CASE Symbols_FT2
  BY <1>1, <1>3, <1>4, <1>5, <1>9 DEF Symbols_FT2, Reads
<1>10. CASE Punch_Commands \/ Punch_Symbols
  BY <1>1, <1>3, <1>10 DEF Punch_Commands, Punch_Symbols, Punches
<1>11. CASE Print_Commands
  BY <1>1, <1>3, <1>11 DEF Print_Commands, Types
<1>12. CASE Print_Symbols
  BY <1>1, <1>3, <1>12 DEF Print_Symbols, Types, SwitchAfter
<1>13. CASE No_Device
  BY <1>13, CommonTypes DEF No_Device, TypeOK, Statuses
<1>14. CASE op_minus0plus
  <2>1. K' \in ShortWord /\ executed' \in 0 .. MaxSteps
    BY <1>14, CommonTypes DEF op_minus0plus
  <2>2. C' \in Address /\ ret_exec' \in Statuses
    BY <1>14, CommonTypes DEF op_minus0plus, Statuses
  <2>3. drum' \in DrumType /\ MB' \in Word(RT)
    BY <1>1, <1>14, DrumTransferType DEF op_minus0plus, TypeOK
  <2> QED
    BY <1>14, <2>1, <2>2, <2>3 DEF op_minus0plus, TypeOK
<1>15. CASE op_minus0minus
  <2>1. \A k1 : clean_fram_zone(fram, k1) \in FramType
    BY <1>1, WidthsOfMachine DEF clean_fram_zone, FramType
  <2>2. fram' \in FramType
    BY <1>1, <1>15, <2>1, DrumTransferType DEF op_minus0minus
  <2> QED
    BY <1>1, <1>15, <2>2, CommonTypes DEF op_minus0minus, TypeOK
<1> QED
  BY <1>6, <1>7, <1>8, <1>9, <1>10, <1>11, <1>12, <1>13, <1>14, <1>15 DEF op_minus00

(* The steps of a dump that use a cell are numbers, and the last of them    *)
(* that the file reaches has a word.                                        *)
LEMMA DumpedWord ==
    ASSUME NEW n \in Nat, NEW k \in 0 .. SIZE_ALL_TRIT_FRAM - 1, k < n
    PROVE  /\ n - ((n - 1 - k) % SIZE_ALL_TRIT_FRAM) \in 1 .. n
           /\ n <= SIZE_ALL_TRIT_FRAM => n - ((n - 1 - k) % SIZE_ALL_TRIT_FRAM) = k + 1
<1> DEFINE z == SIZE_ALL_TRIT_FRAM
           x == n - 1 - k
<1>1. z \in Nat \ {0}
  <2>1. pow3(RT) \in Nat \ {0}
    BY Pow3, Sizes
  <2> QED
    BY <2>1 DEF SIZE_ALL_TRIT_FRAM, SIZE_GR_TRIT_FRAM
<1>2. x \in 0 .. n - 1 /\ (n <= z => x < z)
  BY <1>1
<1> HIDE DEF z, x
<1>3. x % z \in 0 .. z - 1
  BY <1>1, <1>2
<1>4. x < z => x % z = x
  BY <1>1, <1>2
<1>5. x % z \in 0 .. x
  BY <1>1, <1>2, <1>3, <1>4
<1> QED
  BY <1>2, <1>4, <1>5 DEF x, z

(* A dump stores short words, however long the file is.                     *)
LEMMA DumpType ==
    ASSUME NEW m \in FramType, NEW words \in Seq(ShortWord)
    PROVE  DumpFileTxs(m, words) \in FramType
<1> DEFINE n == Len(words)
           last(k) == n - ((n - 1 - k) % SIZE_ALL_TRIT_FRAM)
           first(c) == {k \in DumpStepOf[c] : k < n}
<1>1. n \in Nat /\ \A i \in 1 .. n : words[i] \in ShortWord
  BY LenProperties, ElementOfSeq
<1>2. ASSUME NEW c \in Cells, first(c) # {}
      PROVE  words[last(CHOOSE k \in first(c) : TRUE)] \in ShortWord
  <2>1. \A k \in first(c) : k \in 0 .. SIZE_ALL_TRIT_FRAM - 1 /\ k < n
    BY <1>2 DEF DumpStepOf
  <2>2. PICK k : k \in first(c) /\ k = CHOOSE j \in first(c) : TRUE
    BY <1>2
  <2>3. last(k) \in 1 .. n
    BY <1>1, <2>1, <2>2, DumpedWord
  <2> QED
    BY <1>1, <2>2, <2>3
<1>3. DumpFileTxs(m, words) =
        [c \in Cells |-> IF first(c) = {} THEN m[c]
                         ELSE words[last(CHOOSE k \in first(c) : TRUE)]]
  BY DEF DumpFileTxs
<1> HIDE DEF first, last, n
<1> QED
  BY <1>2, <1>3 DEF FramType

(* The operator's own steps keep the types.                                *)
LEMMA OperatorTypes ==
    ASSUME TypeOK, Operator PROVE TypeOK'
<1> USE DEF memories, registers, devices, mounted, readers, switches
<1>1. CASE Emu_Open_Files
  BY <1>1 DEF Emu_Open_Files, TypeOK
<1>2. CASE Emu_Begin
  <2>1. 0 \in Trit /\ 1 \in Address
    BY WidthsOfMachine DEF Trit
  <2>2. IsReading(Read_Commands_from_FT1(paper1)) /\ paper2 \in Tape /\ fram \in FramType
    BY ReadersType DEF TypeOK
  <2>3. fram' \in FramType /\ ptr1' \in Tape
    BY <1>2, <2>1, <2>2, StoreRunType DEF Emu_Begin, IsReading
  <2> QED
    BY <1>2, <2>1, <2>2, <2>3 DEF Emu_Begin, TypeOK
<1>3. CASE reg_cmd
  <2>1. PICK p \in Pokes :
           /\ K' = IF p[1] = "K" THEN p[2] ELSE K
           /\ F' = IF p[1] = "F" THEN p[2] ELSE F
           /\ C' = IF p[1] = "C" THEN p[2] ELSE C
           /\ W' = IF p[1] = "W" THEN p[2] ELSE W
           /\ S' = IF p[1] = "S" THEN p[2] ELSE S
           /\ R' = IF p[1] = "R" THEN p[2] ELSE R
           /\ MB' = IF p[1] = "MB" THEN p[2] ELSE MB
           /\ UNCHANGED << memories, devices, ret_exec, executed >>
    BY <1>3 DEF reg_cmd
  <2>2. p \in PokeType
    BY SetunAssumption
  <2>3. /\ p[1] = "K" => p[2] \in ShortWord
        /\ p[1] = "F" => p[2] \in Address
        /\ p[1] = "C" => p[2] \in Address
        /\ p[1] = "W" => p[2] \in Trit
        /\ p[1] = "S" => p[2] \in LongWord
        /\ p[1] = "R" => p[2] \in LongWord
        /\ p[1] = "MB" => p[2] \in Word(RT)
    BY <2>2 DEF PokeType
  <2> QED
    BY <2>1, <2>3 DEF TypeOK
<1>4. CASE dump_cmd
  <2>1. PICK words \in Dumps : fram' = DumpFileTxs(fram, words)
    BY <1>4 DEF dump_cmd
  <2>2. fram' \in FramType
    BY <2>1, SetunAssumption, DumpType DEF TypeOK
  <2> QED
    BY <1>4, <2>2 DEF dump_cmd, TypeOK
<1>5. CASE prn_cmd
  BY <1>5, SetunAssumption DEF prn_cmd, TypeOK
<1> QED
  BY <1>1, <1>2, <1>3, <1>4, <1>5 DEF Operator

(* Every register and every cell keeps the width it has in the machine.    *)
THEOREM TypeCorrect == Spec => []TypeOK
<1>1. Init => TypeOK
  <2>1. clean_fram \in FramType /\ 0 \in Trit
    BY WidthsOfMachine DEF clean_fram, FramType, Trit
  <2>2. <<>> \in Tape
    BY DEF Tape
  <2>3. /\ Tapes1 \subseteq Tape /\ Tapes2 \subseteq Tape
        /\ DrumImages \subseteq DrumType /\ 0 \in 0 .. MaxSteps
    BY SetunAssumption
  <2> QED
    BY <2>1, <2>2, <2>3, WidthsOfMachine DEF Init, TypeOK, Statuses
<1>2. TypeOK /\ [Next]_vars => TypeOK'
  <2> SUFFICES ASSUME TypeOK, [Next]_vars PROVE TypeOK'
    OBVIOUS
  <2>1. CASE Operator
    BY <2>1, OperatorTypes
  <2>2. CASE Emu_Step
    BY <2>2, AccumulatorTypes, ControlTypes, DeviceTypes DEF Emu_Step
  <2>3. CASE UNCHANGED vars
    BY <2>3 DEF TypeOK, vars, memories, registers, devices, mounted, readers, switches
  <2> QED
    BY <2>1, <2>2, <2>3 DEF Next
<1> QED
  BY <1>1, <1>2, PTL DEF Spec

(***************************************************************************)
(* What a step may do to C and to the memories.                            *)
(***************************************************************************)
(* A step that counts an instruction is one of Emu_Step.                   *)
LEMMA CountedStep ==
    ASSUME TypeOK, Next, executed' = executed + 1 PROVE Emu_Step
<1>1. executed' # executed
  BY SetunAssumption DEF TypeOK
<1> QED
  BY <1>1, OperatorCountsNothing DEF Next

(* Instructions other than the jumps go on with next_address or stay.      *)
LEMMA NoJump ==
    ASSUME Emu_Step
    PROVE  \/ Continues \/ C' = C
           \/ op_0plus0 \/ op_0plusplus \/ op_0plusminus \/ op_000
<1>1. CASE op_0plus0 \/ op_0plusplus \/ op_0plusminus \/ op_000
  BY <1>1
<1>2. CASE op_plusminusminus \/ op_error \/ No_Device
  BY <1>2 DEF op_plusminusminus, op_error, No_Device, StopsWith
<1>3. CASE op_minus0plus
  BY <1>3 DEF op_minus0plus, StopsWith
<1>4. CASE \/ op_plus00 \/ op_plus0plus \/ op_plus0minus
           \/ op_plusplus0 \/ op_plusplusplus \/ op_plusplusminus
           \/ op_plusminus0 \/ op_plusminusplus
           \/ op_00plus \/ op_00minus \/ op_0minus0 \/ op_0minusplus
           \/ op_0minusminus \/ op_minusplus0 \/ op_minusplusplus
           \/ op_minusplusminus \/ op_minus0minus
  BY <1>4 DEF op_plus00, op_plus0plus, op_plus0minus, op_plusplus0, op_plusplusplus,
              op_plusplusminus, op_plusminus0, op_plusminusplus, op_00plus,
              op_00minus, op_0minus0, op_0minusplus, op_0minusminus,
              op_minusplus0, op_minusplusplus, op_minusplusminus, op_minus0minus
<1>5. CASE \/ Commands_FT1 \/ Commands_FT2 \/ Symbols_FT1 \/ Symbols_FT2
           \/ Punch_Commands \/ Punch_Symbols \/ Print_Commands \/ Print_Symbols
  BY <1>5 DEF Commands_FT1, Commands_FT2, Symbols_FT1, Symbols_FT2, Punch_Commands,
              Punch_Symbols, Print_Commands, Print_Symbols, InputOutput
<1> QED
  BY <1>1, <1>2, <1>3, <1>4, <1>5 DEF Emu_Step, op_minus00

(* C comes to a long address, whose half is fetched twice, only by a jump   *)
(* or by the operator.                                                      *)
THEOREM LongFetch == Spec => LongFetchNeedsJump
<1>1. TypeOK /\ [Next]_vars =>
        [ Half(C') < 0 /\ C' # C =>
            \/ C' = A /\ Step({0, 2, 3, 4})
            \/ UNCHANGED executed ]_vars
  <2> SUFFICES ASSUME TypeOK, Next, Half(C') < 0, C' # C, ~ UNCHANGED executed
               PROVE  C' = A /\ Step({0, 2, 3, 4})
    OBVIOUS
  <2>1. Emu_Step
    BY OperatorCountsNothing DEF Next
  <2>2. next_address(C) \in Address /\ Half(next_address(C)) >= 0
    BY NextIsShort DEF TypeOK
  <2>3. Half(next_address(C)) \in Int
    <3>1. next_address(C) \in Int
      BY <2>2, WidthsOfMachine
    <3> QED
      BY <3>1, HalfIs
  <2>4. C' # next_address(C)
    BY <2>2, <2>3
  <2>5. op_0plus0 \/ op_0plusplus \/ op_0plusminus \/ op_000
    BY <2>1, <2>4, NoJump DEF Continues
  <2>6. /\ C' = A /\ executed' = executed + 1
        /\ OperationCode(K') \in {0, 2, 3, 4}
    BY <2>4, <2>5 DEF op_0plus0, op_0plusplus, op_0plusminus, op_000,
                      Jump, JumpsIf, Executes
  <2> QED
    BY <2>6 DEF Step
<1> QED
  BY <1>1, TypeCorrect, PTL DEF Spec, LongFetchNeedsJump

(* The drum changes only by -0+.                                           *)
LEMMA DrumKept ==
    ASSUME Next PROVE drum' = drum \/ op_minus0plus
<1>1. CASE Operator
  BY <1>1 DEF Operator, Emu_Open_Files, Emu_Begin, reg_cmd, dump_cmd, prn_cmd, memories
<1>2. CASE Emu_Step
  BY <1>2 DEF Emu_Step, op_plus00, op_plus0plus, op_plus0minus, op_plusplus0,
         op_plusplusplus, op_plusplusminus, op_plusminus0, op_plusminusplus,
         op_plusminusminus, op_0plus0, op_0plusplus, op_0plusminus, op_000, Jump,
         op_00plus, op_00minus, op_0minus0, op_0minusplus, op_0minusminus,
         op_minusplus0, op_minusplusplus, op_minusplusminus, op_minus00,
         Commands_FT1, Commands_FT2, Symbols_FT1, Symbols_FT2, Punch_Commands,
         Punch_Symbols, Print_Commands, Print_Symbols, InputOutput, No_Device,
         op_minus0minus, op_error, memories
<1> QED
  BY <1>1, <1>2 DEF Next

(* Only -0+ changes the drum: the zone it names becomes a copy of the page. *)
THEOREM DrumWrites == Spec => DrumWriteIsOnePage
<1>1. TypeOK /\ [Next]_vars =>
        [ drum' # drum =>
            /\ Step({-8})
            /\ fram' = fram
            /\ LET z == zone_drum_to_index(MB')
               IN  /\ \A y \in DrumZones \ {z} : drum'[y] = drum[y]
                   /\ \A p \in Places :
                         drum'[z][p] = fram[PageCell(FirstTrit(A), p)] ]_vars
  <2> DEFINE z == zone_drum_to_index(MB')
  <2> SUFFICES ASSUME TypeOK, Next, drum' # drum
               PROVE  /\ Step({-8})
                      /\ fram' = fram
                      /\ \A y \in DrumZones \ {z} : drum'[y] = drum[y]
                      /\ \A p \in Places :
                            drum'[z][p] = fram[PageCell(FirstTrit(A), p)]
    BY DEF Step
  <2>1. op_minus0plus
    BY DrumKept
  <2>2. /\ Step({-8}) /\ fram' = fram
        /\ drum' = fram_to_drum(fram, drum, A) /\ MB' = OtherTrits(A)
    BY <2>1 DEF op_minus0plus, Executes, Step
  <2>3. /\ A \in Address /\ FirstTrit(A) \in Trit /\ z \in DrumZones
        /\ fram \in FramType /\ drum \in DrumType
    BY <2>2, OperandTypes, AddressParts, ZoneType DEF TypeOK
  <2>4. drum' = [drum EXCEPT ![z] = LoadRun(fram, FirstTrit(A))]
    BY <2>2 DEF fram_to_drum
  <2>5. drum'[z] = LoadRun(fram, FirstTrit(A))
        /\ \A y \in DrumZones \ {z} : drum'[y] = drum[y]
    BY <2>3, <2>4 DEF DrumType
  <2> QED
    BY <2>2, <2>3, <2>5, LoadRunCells
<1> QED
  BY <1>1, TypeCorrect, PTL DEF Spec, DrumWriteIsOnePage

(* The instruction word in K is that of the action.                        *)
LEMMA CodeInK == ASSUME NEW code, Executes(code) PROVE OperationCode(K') = code
  BY DEF Executes

(* The code of the instruction tells the action.                           *)
LEMMA CodeOfStep ==
    ASSUME Emu_Step
    PROVE  /\ OperationCode(K') = -10 => op_minus0minus
           /\ OperationCode(K') = -7 => op_minusplusminus
           /\ OperationCode(K') = -9 => op_minus00
<1>1. CASE op_minus0minus \/ op_minusplusminus \/ op_minus00
  <2>1. op_minus0minus => OperationCode(K') = -10
    BY CodeInK DEF op_minus0minus
  <2>2. op_minusplusminus => OperationCode(K') = -7
    BY CodeInK DEF op_minusplusminus
  <2>3. op_minus00 => OperationCode(K') = -9
    BY CodeInK DEF op_minus00, Commands_FT1, Commands_FT2, Symbols_FT1, Symbols_FT2,
                   Punch_Commands, Punch_Symbols, Print_Commands, Print_Symbols,
                   InputOutput, No_Device
  <2> QED
    BY <1>1, <2>1, <2>2, <2>3
<1>2. CASE ~ (op_minus0minus \/ op_minusplusminus \/ op_minus00)
  <2>1. SUFFICES \E code \in -13 .. 13 : code \notin {-10, -7, -9} /\ Executes(code)
    BY CodeInK
  <2>2. CASE \/ op_plus00 \/ op_plus0plus \/ op_plus0minus
             \/ op_plusplus0 \/ op_plusplusplus \/ op_plusplusminus
             \/ op_plusminus0 \/ op_plusminusplus \/ op_plusminusminus
    BY <2>2 DEF op_plus00, op_plus0plus, op_plus0minus, op_plusplus0, op_plusplusplus,
                op_plusplusminus, op_plusminus0, op_plusminusplus, op_plusminusminus
  <2>3. CASE op_0plus0 \/ op_0plusplus \/ op_0plusminus \/ op_000
    <3>1. Executes(3) \/ Executes(4) \/ Executes(2) \/ Executes(0)
      BY <2>3 DEF op_0plus0, op_0plusplus, op_0plusminus, op_000, Jump
    <3> QED
      BY <3>1
  <2>4. CASE \/ op_minusplus0 \/ op_minusplusplus \/ op_minus0plus \/ op_error
             \/ op_00plus \/ op_00minus \/ op_0minus0 \/ op_0minusplus \/ op_0minusminus
    BY <2>4 DEF op_minusplus0, op_minusplusplus, op_minus0plus, op_error,
                op_00plus, op_00minus, op_0minus0, op_0minusplus, op_0minusminus
  <2> QED
    BY <1>2, <2>2, <2>3, <2>4 DEF Emu_Step
<1> QED
  BY <1>1, <1>2

(* A zone that is read becomes the page, and no other page changes.        *)
THEOREM DrumReads == Spec => DrumReadIsOnePage
<1>1. TypeOK /\ [Next]_vars =>
        [ Step({-10}) /\ HasZone =>
            /\ drum' = drum
            /\ \A k1 \in Trit, p \in Places :
                  fram'[PageCell(k1, p)] =
                      IF k1 = FirstTrit(A)
                      THEN drum[zone_drum_to_index(OtherTrits(A))][p]
                      ELSE fram[PageCell(k1, p)] ]_vars
  <2> DEFINE ws == drum[zone_drum_to_index(OtherTrits(A))]
  <2> SUFFICES ASSUME TypeOK, Next, Step({-10}), HasZone
               PROVE  /\ drum' = drum
                      /\ \A k1 \in Trit, p \in Places :
                            fram'[PageCell(k1, p)] =
                                IF k1 = FirstTrit(A) THEN ws[p]
                                ELSE fram[PageCell(k1, p)]
    BY DEF Step
  <2>1. op_minus0minus
    BY CountedStep, CodeOfStep DEF Step
  <2>2. drum' = drum /\ fram' = StoreRun(fram, FirstTrit(A), ws)
    BY <2>1 DEF op_minus0minus, drum_to_fram
  <2>3. /\ FirstTrit(A) \in Trit /\ ws \in [Places -> ShortWord]
    BY OperandTypes, AddressParts, ZoneType DEF TypeOK, DrumType
  <2> HIDE DEF ws
  <2>4. ASSUME NEW k1 \in Trit, NEW p \in Places, k1 # FirstTrit(A)
        PROVE  PageCell(k1, p) \in Cells \ PageCells(FirstTrit(A))
    BY <2>3, <2>4, WalkCell, PageCellsDiffer DEF PageCells
  <2>5. ASSUME NEW p \in Places PROVE fram'[PageCell(FirstTrit(A), p)] = ws[p]
    <3> DEFINE k == FirstTrit(A)
    <3>1. k \in Trit /\ fram' = StoreRun(fram, k, ws) /\ p \in DOMAIN ws
      BY <2>2, <2>3
    <3> HIDE DEF k
    <3>2. StoreRun(fram, k, ws)[PageCell(k, p)] = ws[p]
      BY <3>1, StoreRunCells
    <3> QED
      BY <3>1, <3>2 DEF k
  <2>6. ASSUME NEW k1 \in Trit, NEW p \in Places, k1 # FirstTrit(A)
        PROVE  fram'[PageCell(k1, p)] = fram[PageCell(k1, p)]
    <3>1. PageCell(k1, p) \in Cells \ PageCells(FirstTrit(A))
      BY <2>4, <2>6
    <3>2. \A c \in Cells \ PageCells(FirstTrit(A)) : fram'[c] = fram[c]
      BY <2>2, <2>3, StoreRunCells
    <3> QED
      BY <3>1, <3>2
  <2> QED
    BY <2>2, <2>5, <2>6
<1> QED
  BY <1>1, TypeCorrect, PTL DEF Spec, DrumReadIsOnePage

(* An instruction that changes the ferrite memory is a store, an input or a *)
(* read of the drum.                                                        *)
LEMMA FramKept ==
    ASSUME Emu_Step
    PROVE  \/ fram' = fram
           \/ op_00plus \/ op_00minus \/ op_minusplusplus \/ op_minusplusminus
           \/ Commands_FT1 \/ Commands_FT2 \/ Symbols_FT1 \/ Symbols_FT2
           \/ op_minus0minus
  BY DEF Emu_Step, op_plus00, op_plus0plus, op_plus0minus, op_plusplus0,
         op_plusplusplus, op_plusplusminus, op_plusminus0, op_plusminusplus,
         op_plusminusminus, op_0plus0, op_0plusplus, op_0plusminus, op_000, Jump,
         op_0minus0, op_0minusplus, op_0minusminus, op_minusplus0, op_minus00,
         Punch_Commands, Punch_Symbols, Punches, Print_Commands, Print_Symbols, Types,
         No_Device, op_minus0plus, op_error, memories

(* An instruction changes only the cells its modified address names.       *)
THEOREM Stores == Spec => StoresStayInPlace
<1>1. TypeOK /\ [Next]_vars =>
        [ executed' = executed + 1 =>
          \A c \in Cells : fram'[c] # fram[c] =>
              \/ /\ Step({1, -1, -5, -7})
                 /\ c[1] = addr2row_fram(A)
                 /\ Half(A) < 0 \/ c[2] = addr2grfram(A)
              \/ Step({-9, -10}) /\ c \in PageCells(FirstTrit(A))
              \/ Step({-10}) /\ ~ HasZone ]_vars
  <2> DEFINE Stored(c) == /\ Step({1, -1, -5, -7})
                          /\ c[1] = addr2row_fram(A)
                          /\ Half(A) < 0 \/ c[2] = addr2grfram(A)
             InPage(c) == Step({-9, -10}) /\ c \in PageCells(FirstTrit(A))
             NoZone    == Step({-10}) /\ ~ HasZone
  <2> SUFFICES ASSUME TypeOK, Next, executed' = executed + 1,
                      NEW c \in Cells, fram'[c] # fram[c]
               PROVE  Stored(c) \/ InPage(c) \/ NoZone
    BY DEF Step
  <2>1. Emu_Step
    BY CountedStep
  <2>2. fram \in FramType /\ A \in Address /\ FirstTrit(A) \in Trit
    BY OperandTypes, AddressParts DEF TypeOK
  <2>3. ASSUME NEW l, NEW v, fram' = st_fram(fram, A, l, v),
               NEW code \in {1, -1, -5, -7}, Executes(code)
        PROVE  Stored(c)
    <3>1. c[1] = addr2row_fram(A) /\ (Half(A) < 0 \/ c[2] = addr2grfram(A))
      BY <2>2, <2>3, StoreCells
    <3>2. Step({1, -1, -5, -7})
      BY <2>3, CodeInK DEF Step
    <3> QED
      BY <3>1, <3>2
  <2>4. ASSUME NEW ws, fram' = StoreRun(fram, FirstTrit(A), ws),
               NEW code \in {-9, -10}, Executes(code)
        PROVE  InPage(c)
    <3>1. \A y \in Cells \ PageCells(FirstTrit(A)) : fram'[y] = fram[y]
      BY <2>2, <2>4, StoreRunCells
    <3>2. Step({-9, -10})
      BY <2>4, CodeInK DEF Step
    <3> QED
      BY <3>1, <3>2
  <2>5. CASE op_00plus \/ op_00minus
    <3>1. PICK v : StoreRegister(v) /\ (Executes(1) \/ Executes(-1))
      BY <2>5 DEF op_00plus, op_00minus
    <3>2. PICK l, w : fram' = st_fram(fram, A, l, w)
      BY <3>1 DEF StoreRegister
    <3> QED
      BY <2>3, <3>1, <3>2
  <2>6. CASE op_minusplusplus \/ op_minusplusminus
    <3>1. PICK l, w : fram' = st_fram(fram, A, l, w)
      BY <2>6 DEF op_minusplusplus, op_minusplusminus
    <3>2. Executes(-5) \/ Executes(-7)
      BY <2>6 DEF op_minusplusplus, op_minusplusminus
    <3> QED
      BY <2>3, <3>1, <3>2
  <2>7. CASE Commands_FT1 \/ Commands_FT2 \/ Symbols_FT1 \/ Symbols_FT2
    <3>1. Executes(-9)
      BY <2>7 DEF Commands_FT1, Commands_FT2, Symbols_FT1, Symbols_FT2, InputOutput
    <3>2. PICK ws : fram' = StoreRun(fram, FirstTrit(A), ws)
      BY <2>7 DEF Commands_FT1, Commands_FT2, Symbols_FT1, Symbols_FT2, Reads
    <3> QED
      BY <2>4, <3>1, <3>2
  <2>8. CASE op_minus0minus
    <3>1. Executes(-10)
      BY <2>8 DEF op_minus0minus
    <3>2. CASE HasZone
      <4>1. PICK ws : fram' = StoreRun(fram, FirstTrit(A), ws)
        BY <2>8, <3>2 DEF op_minus0minus, drum_to_fram
      <4> QED
        BY <2>4, <3>1, <4>1
    <3>3. CASE ~ HasZone
      BY <3>1, <3>3, CodeInK DEF Step
    <3> QED
      BY <3>2, <3>3
  <2> QED
    BY <2>1, <2>5, <2>6, <2>7, <2>8, FramKept
<1> QED
  BY <1>1, TypeCorrect, PTL DEF Spec, StoresStayInPlace

(***************************************************************************)
(* The walk of a dump.                                                     *)
(***************************************************************************)
(* The dump starts at the first cell of page 0, takes both cells of a row  *)
(* and goes on from the last row of the memory with the first one.         *)
LEMMA DumpCell ==
    ASSUME NEW k \in 0 .. SIZE_ALL_TRIT_FRAM - 1
    PROVE  LET P == pow3(RT - 1)
               j == k \div 2
           IN  CellOf(mod_3_n(PageWalk(0, k), AT)) =
                   << IF j < 2 * P THEN j + P ELSE j - 2 * P, k % 2 >>
<1> DEFINE P == pow3(RT - 1)
           M == MaxWord(RT)
<1>1. /\ P \in Nat \ {0} /\ M \in Nat /\ 3 * P = 2 * M + 1 /\ pow3(RT) = 3 * P
      /\ MaxWord(AT) = 3 * M + 1 /\ k \in 0 .. 6 * P - 1
  BY PageShape, MaxAddress DEF SIZE_ALL_TRIT_FRAM, SIZE_GR_TRIT_FRAM
<1>2. \E q \in Nat : M = 3 * q + 1
  <2>1. \A r \in 1 .. 4 : \E q \in {0, 1, 4, 13} : MaxWord(r) = 3 * q + 1
    BY DEF MaxWord, pow3, POW3_TABLE
  <2> QED
    BY <2>1, Sizes DEF M
<1>3. PICK q \in Nat : M = 3 * q + 1
  BY <1>2
<1> DEFINE j == k \div 2
           h == k % 2
           y == IF j < 2 * P THEN j - q ELSE j - q - 3 * P
           B == pow3(AT)
<1>4. PageWalk(0, k) = 3 * (j - q) + h
  <2>1. PageWalk(0, k) = 0 * pow3(RT) - M + 1 + 3 * j + h
    BY DEF PageWalk, PageBegin, M
  <2> HIDE DEF M, P
  <2> QED
    BY <1>1, <1>3, <2>1
<1>5. B = 6 * M + 3 /\ AT \in Widths
  BY <1>1, Sizes, Pow3Next
<1> HIDE DEF P, M, B
<1>6. P = 2 * q + 1
  BY <1>1, <1>3
<1>7. j \in 0 .. 3 * P - 1 /\ h \in 0 .. 1
  BY <1>1
<1> HIDE DEF j, h
<1>8. /\ y \in -M .. M
      /\ y + M = IF j < 2 * P THEN j + P ELSE j - 2 * P
  BY <1>1, <1>3, <1>6, <1>7
<1>9. mod_3_n(3 * (j - q) + h, AT) = 3 * y + h
  <2>1. 3 * y + h \in Word(AT)
    BY <1>1, <1>7, <1>8 DEF Word, M
  <2>2. CASE j < 2 * P
    BY <1>5, <2>1, <2>2, ModIdentity
  <2>3. CASE ~ (j < 2 * P)
    <3> DEFINE a == 3 * y + h + (3 * M + 1)
    <3>1. a \in 0 .. B - 1 /\ B \in Nat \ {0}
      BY <1>1, <1>5, <1>7, <1>8
    <3>2. 3 * (j - q) + h + (3 * M + 1) = a + B
      BY <1>1, <1>5, <1>7, <2>3
    <3> HIDE DEF a
    <3>3. (a + B) % B = a
      BY <3>1
    <3>4. mod_3_n(3 * (j - q) + h, AT) = a - (3 * M + 1)
      BY <1>1, <3>2, <3>3 DEF mod_3_n, B
    <3> HIDE DEF y
    <3>5. y \in Int
      BY <1>1, <1>8
    <3> QED
      BY <1>1, <1>7, <3>4, <3>5 DEF a
  <2> QED
    BY <2>2, <2>3
<1>10. CellOf(3 * y + h) = << y + M, h >>
  <2> HIDE DEF y
  <2>1. y \in Int /\ h \in -1 .. 1
    BY <1>1, <1>7, <1>8
  <2>2. Half(3 * y + h) = h /\ Row(3 * y + h) = y
    BY <2>1, HalfOfSum, RowOfSum
  <2> QED
    BY <1>7, <2>2 DEF CellOf, addr2row_fram, addr2grfram, M
<1> QED
  BY <1>4, <1>8, <1>9, <1>10 DEF j, h, P

(* So the place p of a page is used by one round of the dump: p places      *)
(* after the rounds of the pages before it, in the order 0, +, -.           *)
LEMMA DumpStepOfPlace ==
    ASSUME NEW k1 \in Trit, NEW p \in Places
    PROVE  DumpStepOf[PageCell(k1, p)] = {((k1 + 3) % 3) * SIZE_ZONE_TRIT_FRAM + p}
<1> DEFINE P == pow3(RT - 1)
           s == ((k1 + 3) % 3) * (2 * P) + p
<1>1. /\ P \in Nat \ {0} /\ p \in 0 .. 2 * P - 1 /\ k1 \in {-1, 0, 1}
      /\ SIZE_ZONE_TRIT_FRAM = 2 * P /\ SIZE_ALL_TRIT_FRAM = 6 * P
  BY PageShape DEF Trit, SIZE_ZONE_TRIT_FRAM, SIZE_ALL_TRIT_FRAM, SIZE_GR_TRIT_FRAM
<1>2. PageCell(k1, p) \in Cells
  BY WalkCell
<1>3. DumpStepOf[PageCell(k1, p)] =
        {k \in 0 .. 6 * P - 1 : CellOf(mod_3_n(PageWalk(0, k), AT)) = PageCell(k1, p)}
  BY <1>1, <1>2 DEF DumpStepOf
<1>4. PageCell(k1, p) = << (k1 + 1) * P + p \div 2, p % 2 >>
  BY DEF PageCell
<1>5. \A k \in 0 .. 6 * P - 1 :
        CellOf(mod_3_n(PageWalk(0, k), AT)) =
            << IF k \div 2 < 2 * P THEN k \div 2 + P ELSE k \div 2 - 2 * P, k % 2 >>
  BY <1>1, DumpCell
<1> HIDE DEF P
<1>6. ASSUME NEW k \in 0 .. 6 * P - 1
      PROVE  CellOf(mod_3_n(PageWalk(0, k), AT)) = PageCell(k1, p) <=> k = s
  <2> DEFINE row == IF k \div 2 < 2 * P THEN k \div 2 + P ELSE k \div 2 - 2 * P
  <2>1. CellOf(mod_3_n(PageWalk(0, k), AT)) = PageCell(k1, p)
          <=> row = (k1 + 1) * P + p \div 2 /\ k % 2 = p % 2
    BY <1>4, <1>5
  <2>2. /\ k \div 2 \in 0 .. 3 * P - 1 /\ p \div 2 \in 0 .. P - 1
        /\ k = 2 * (k \div 2) + (k % 2) /\ p = 2 * (p \div 2) + (p % 2)
    BY <1>1
  <2>3. CASE k1 = 0
    BY <1>1, <2>1, <2>2, <2>3
  <2>4. CASE k1 = 1
    BY <1>1, <2>1, <2>2, <2>4
  <2>5. CASE k1 = -1
    BY <1>1, <2>1, <2>2, <2>5
  <2> QED
    BY <1>1, <2>3, <2>4, <2>5
<1>7. s \in 0 .. 6 * P - 1
  BY <1>1
<1> QED
  BY <1>1, <1>3, <1>6, <1>7

(* A dumped file fills page 0, then page +, then page -, each in the order *)
(* of its places; words the file does not reach stay.                      *)
THEOREM DumpFills == Spec => DumpFollowsThePages
<1>1. TypeOK /\ [Next]_vars =>
        [ \A words \in Dumps :
          /\ dump_cmd /\ fram' = DumpFileTxs(fram, words)
          /\ Len(words) <= SIZE_ALL_TRIT_FRAM
          => \A k1 \in Trit :
                LET first == ((k1 + 3) % 3) * SIZE_ZONE_TRIT_FRAM + 1
                    old   == LoadRun(fram, k1)
                IN  LoadRun(fram', k1) =
                       [p \in Places |-> IF first + p \in DOMAIN words
                                         THEN words[first + p] ELSE old[p]] ]_vars
  <2> SUFFICES ASSUME TypeOK, NEW words \in Dumps,
                      fram' = DumpFileTxs(fram, words),
                      Len(words) <= SIZE_ALL_TRIT_FRAM, NEW k1 \in Trit
               PROVE  LET first == ((k1 + 3) % 3) * SIZE_ZONE_TRIT_FRAM + 1
                          old   == LoadRun(fram, k1)
                      IN  LoadRun(fram', k1) =
                             [p \in Places |-> IF first + p \in DOMAIN words
                                               THEN words[first + p] ELSE old[p]]
    OBVIOUS
  <2> DEFINE n == Len(words)
             b == ((k1 + 3) % 3) * SIZE_ZONE_TRIT_FRAM
  <2>1. /\ words \in Seq(ShortWord) /\ n \in Nat /\ DOMAIN words = 1 .. n
        /\ fram \in FramType /\ fram' \in FramType
    BY SetunAssumption, LenProperties, DumpType DEF TypeOK
  <2>2. ASSUME NEW p \in Places
        PROVE  fram'[PageCell(k1, p)] =
                   IF b + 1 + p \in 1 .. n THEN words[b + 1 + p] ELSE fram[PageCell(k1, p)]
    <3> DEFINE c == PageCell(k1, p)
               s == b + p
               rounds == {k \in DumpStepOf[c] : k < n}
    <3>1. c \in Cells /\ DumpStepOf[c] = {s}
      BY <2>2, WalkCell, DumpStepOfPlace
    <3>2. s \in 0 .. SIZE_ALL_TRIT_FRAM - 1 /\ b \in Nat /\ p \in Nat
      <4>1. /\ pow3(RT - 1) \in Nat \ {0} /\ p \in 0 .. 2 * pow3(RT - 1) - 1
            /\ SIZE_ZONE_TRIT_FRAM = 2 * pow3(RT - 1)
            /\ SIZE_ALL_TRIT_FRAM = 6 * pow3(RT - 1)
        BY <2>2, PageShape DEF SIZE_ZONE_TRIT_FRAM, SIZE_ALL_TRIT_FRAM, SIZE_GR_TRIT_FRAM
      <4> DEFINE x == pow3(RT - 1)
                 z == SIZE_ZONE_TRIT_FRAM
                 y == (k1 + 3) % 3
      <4>2. y \in 0 .. 2
        BY DEF Trit
      <4>3. x \in Nat /\ z = 2 * x /\ SIZE_ALL_TRIT_FRAM = 6 * x /\ p \in 0 .. z - 1
        BY <4>1
      <4> HIDE DEF c, x, y, z
      <4>4. b = y * z
        BY DEF y, z
      <4>5. b \in {0, z, 2 * z}
        BY <4>2, <4>3, <4>4
      <4> HIDE DEF b
      <4>6. b \in Nat /\ p \in Nat /\ b + p \in 0 .. SIZE_ALL_TRIT_FRAM - 1
        BY <4>3, <4>5
      <4> QED
        BY <4>6
    <3>3. fram'[c] = IF rounds = {} THEN fram[c]
                     ELSE words[n - ((n - 1 - (CHOOSE k \in rounds : TRUE))
                                        % SIZE_ALL_TRIT_FRAM)]
      BY <3>1 DEF DumpFileTxs
    <3> HIDE DEF c, b
    <3>4. CASE s < n
      <4>1. rounds = {s} /\ (CHOOSE k \in rounds : TRUE) = s
        BY <3>1, <3>4
      <4>2. n - ((n - 1 - s) % SIZE_ALL_TRIT_FRAM) = s + 1
        BY <2>1, <3>2, <3>4, DumpedWord
      <4> HIDE DEF rounds
      <4>3. fram'[c] = words[s + 1]
        BY <3>3, <4>1, <4>2
      <4>4. s + 1 = b + 1 + p /\ b + 1 + p \in 1 .. n
        BY <2>1, <3>2, <3>4
      <4> QED
        BY <4>3, <4>4 DEF c
    <3>5. CASE ~ (s < n)
      <4>1. rounds = {}
        BY <3>1, <3>5
      <4>2. b + 1 + p \notin 1 .. n
        BY <2>1, <3>2, <3>5
      <4> QED
        BY <3>3, <4>1, <4>2 DEF c
    <3> QED
      BY <3>4, <3>5
  <2>3. /\ LoadRun(fram, k1) \in [Places -> ShortWord]
        /\ LoadRun(fram', k1) \in [Places -> ShortWord]
        /\ \A p \in Places : /\ LoadRun(fram, k1)[p] = fram[PageCell(k1, p)]
                             /\ LoadRun(fram', k1)[p] = fram'[PageCell(k1, p)]
    BY <2>1, LoadRunCells
  <2> QED
    BY <2>1, <2>2, <2>3
<1> QED
  BY <1>1, TypeCorrect, PTL DEF Spec, DumpFollowsThePages

-----------------------------------------------------------------------------
(***************************************************************************)
(* Normalisation: the trits of the accumulator before and after it.        *)
(***************************************************************************)
(* A long word that is stored at a long address is what a load returns.    *)
LEMMA LongRoundTrip ==
    ASSUME NEW m \in FramType, NEW ea \in Address, Half(ea) < 0, NEW v \in LongWord
    PROVE  ld_fram(st_fram(m, ea, LW, v), ea).v = v
<1> DEFINE x == << addr2row_fram(ea), 0 >>
           y == << addr2row_fram(ea), 1 >>
           hi == slice_trs_setun(v, LW, 1, SW)
           lo == slice_trs_setun(v, LW, SW + 1, LW)
<1>1. x \in Cells /\ y \in Cells /\ x # y
  BY RowType
<1>2. st_fram(m, ea, LW, v) = [m EXCEPT ![x] = hi, ![y] = lo]
  BY DEF st_fram
<1>3. ld_fram(st_fram(m, ea, LW, v), ea).v = hi * pow3(SW) + lo
  <2> HIDE DEF hi, lo, x, y
  <2>1. [m EXCEPT ![x] = hi, ![y] = lo][x] = hi /\ [m EXCEPT ![x] = hi, ![y] = lo][y] = lo
    BY <1>1 DEF FramType
  <2> QED
    BY <1>2, <2>1 DEF ld_fram, x, y
<1>4. PICK f \in [Nat -> -1 .. 1] : AreTrits(f, LW) /\ Number(f, LW) = v
  BY WordHasTrits, WidthsOfMachine DEF LongWord
<1>5. /\ LW \in Widths /\ 1 \in 1 .. LW /\ SW \in 1 .. LW /\ SW + 1 \in 1 .. LW /\ LW \in SW + 1 .. LW
      /\ LW - SW = SW /\ LW - LW = 0 /\ SW - 1 + 1 = SW /\ LW - (SW + 1) + 1 = SW
      /\ SW \in 0 .. LW /\ LW \in 0 .. 19 /\ SW \in 0 .. 19
  BY Sizes
<1>6. hi = Number(TritsFrom(f, SW), SW)
  BY <1>4, <1>5, SliceNumber
<1>7. lo = Number(TritsFrom(f, 0), SW)
  BY <1>4, <1>5, SliceNumber
<1>8. Number(TritsFrom(f, 0), SW) = Number(f, SW)
  <2>1. \A i \in 0 .. SW - 1 : TritsFrom(f, 0)[i] = f[i]
    BY <1>5 DEF TritsFrom
  <2> QED
    BY <1>5, <2>1, NumberSame
<1>9. v = Number(TritsFrom(f, SW), SW) * pow3(SW) + Number(f, SW)
  BY <1>4, <1>5, NumberSplit
<1> HIDE DEF hi, lo
<1> QED
  BY <1>3, <1>6, <1>7, <1>8, <1>9

(* What -+- finds: the result, the number of places, and that the result is *)
(* normal.                                                                  *)
Normalised(s, n, r) ==
    /\ n \in -(LW - 2) .. 1
    /\ s = 0 <=> r = 0
    /\ r # 0 => /\ get_trit_setun(r, LW, 1) = 0
                /\ get_trit_setun(r, LW, 2) # 0
    /\ IF n = 1 THEN s - 3 * r \in Trit ELSE r = s * pow3(-n)

(* A shift by no places keeps the word.                                    *)
LEMMA NoShift == ASSUME NEW v \in LongWord PROVE shift_trs(v, LW, 0) = v
<1>1. 0 % TRS_WIDTH = 0 /\ LW \in Widths /\ 0 < LW /\ LW - 0 = LW
  BY Sizes DEF TRS_WIDTH
<1>2. pow3(0) = 1 /\ v \in Int
  BY WidthsOfMachine DEF pow3, POW3_TABLE
<1>3. mod_3_n(v, LW) = v
  BY <1>1, ModIdentity DEF LongWord
<1> QED
  BY <1>1, <1>2, <1>3 DEF shift_trs, ShiftLeft

(* The four cases of the normalisation.                                    *)
LEMMA NormalisedZero ==
    ASSUME S = 0 PROVE Normalised(S, NormalShift, shift_trs(S, LW, - NormalShift))
<1>0. NormalShift = 0
  BY DEF NormalShift
<1>1. NormalShift = 0 /\ - NormalShift = 0
  <2> DEFINE n == NormalShift
  <2>1. n \in Int /\ n >= 0 /\ n <= 0
    BY <1>0
  <2> HIDE DEF n
  <2>2. - n = 0
    BY <2>1
  <2> QED
    BY <1>0, <2>2 DEF n
<1>2. shift_trs(S, LW, 0) = 0
  BY WidthsOfMachine, NoShift
<1>3. 0 \in -(LW - 2) .. 1 /\ 0 * pow3(0) = 0
  BY Sizes DEF pow3, POW3_TABLE
<1> QED
  BY <1>1, <1>2, <1>3 DEF Normalised

(* A word above the normal range goes one place right.                     *)
LEMMA NormalisedRight ==
    ASSUME S \in LongWord, S # 0, get_trit_setun(S, LW, 1) # 0
    PROVE Normalised(S, NormalShift, shift_trs(S, LW, - NormalShift))
<1>1. NormalShift = 1 /\ - NormalShift = -1
  BY DEF NormalShift
<1>2. /\ LW \in Widths /\ LW \in 12 .. 18 /\ LW - 1 \in 0 .. 19 /\ 1 \in Nat /\ 1 < LW
      /\ 1 \in 1 .. LW /\ 2 \in 1 .. LW /\ 1 \in 0 .. LW /\ LW \in 0 .. 19
      /\ 1 \in -(LW - 2) .. 1
  BY Sizes
<1>3. PICK f \in [Nat -> -1 .. 1] : AreTrits(f, LW) /\ Number(f, LW) = S
  BY <1>2, WordHasTrits DEF LongWord
<1> DEFINE g == TritsFrom(f, 1)
           h == [i \in Nat |-> IF i = LW - 1 THEN 0 ELSE g[i]]
<1>4. shift_trs(S, LW, -1) = ShiftRight(S, LW, 1)
  BY DEF shift_trs, TRS_WIDTH
<1>5. ShiftRight(S, LW, 1) = Number(g, LW - 1)
  BY <1>2, <1>3, ShiftRightNumber
<1>6. /\ S = Number(g, LW - 1) * pow3(1) + Number(f, 1) /\ Number(f, 1) = f[0]
      /\ Number(g, LW - 1) \in Int /\ AreTrits(g, LW - 1)
  BY <1>2, <1>3, NumberSplit, NumberOfOne
<1>7. pow3(1) = 3 /\ f[0] \in Trit
  BY DEF pow3, POW3_TABLE, Trit
<1>8. S - 3 * Number(g, LW - 1) \in Trit
  BY <1>6, <1>7 DEF Trit
<1>9. get_trit_setun(S, LW, 1) = f[LW - 1]
  BY <1>2, <1>3, TritNumber
<1>10. /\ \A i \in Nat : g[i] = f[1 + i]
       /\ \A i \in 0 .. (LW - 1) - 1 : h[i] = g[i]
       /\ h[LW - 1] = 0
       /\ AreTrits(h, LW)
  BY <1>2 DEF TritsFrom, AreTrits
<1> HIDE DEF g, h
<1>11. Number(h, LW) = Number(g, LW - 1)
  <2>1. Number(h, LW) = Number(h, LW - 1)
    <3>1. \A i \in LW - 1 .. LW - 1 : h[i] = 0
      BY <1>2, <1>10
    <3>2. LW - 1 \in 0 .. LW
      BY <1>2
    <3> QED
      BY <1>2, <1>10, <3>1, <3>2, NumberOfLow
  <2> QED
    BY <1>2, <1>10, <2>1, NumberSame
<1>12. /\ get_trit_setun(Number(h, LW), LW, 1) = h[LW - 1]
       /\ get_trit_setun(Number(h, LW), LW, 2) = h[LW - 2]
  BY <1>2, <1>10, TritNumber
<1>13. h[LW - 1] = 0 /\ h[LW - 2] = f[LW - 1] /\ f[LW - 1] # 0
  <2>1. LW - 2 \in 0 .. (LW - 1) - 1 /\ LW - 2 \in Nat /\ 1 + (LW - 2) = LW - 1
    BY <1>2
  <2> QED
    BY <1>9, <1>10, <2>1
<1>14. Number(h, LW) # 0
  <2>1. LW - 2 \in 0 .. LW - 1
    BY <1>2
  <2> QED
    BY <1>2, <1>10, <1>13, <2>1, NumberNotZero
<1> QED
  BY <1>1, <1>2, <1>4, <1>5, <1>8, <1>11, <1>12, <1>13, <1>14 DEF Normalised

(* A word in the normal range stays as it is.                              *)
LEMMA NormalisedAlready ==
    ASSUME S \in LongWord, S # 0, get_trit_setun(S, LW, 1) = 0, get_trit_setun(S, LW, 2) # 0
    PROVE Normalised(S, NormalShift, shift_trs(S, LW, - NormalShift))
<1>0. NormalShift = 0
  BY DEF NormalShift
<1>1. NormalShift = 0 /\ - NormalShift = 0
  <2> DEFINE n == NormalShift
  <2>1. n \in Int /\ n >= 0 /\ n <= 0
    BY <1>0
  <2> HIDE DEF n
  <2>2. - n = 0
    BY <2>1
  <2> QED
    BY <1>0, <2>2 DEF n
<1>2. shift_trs(S, LW, 0) = S
  BY NoShift
<1>3. S \in Int /\ 0 \in -(LW - 2) .. 1 /\ pow3(0) = 1
  BY WidthsOfMachine, Sizes DEF pow3, POW3_TABLE
<1> QED
  BY <1>1, <1>2, <1>3 DEF Normalised

(* A word below the normal range goes left until its second trit is not 0. *)
LEMMA NormalisedLeft ==
    ASSUME S \in LongWord, S # 0, get_trit_setun(S, LW, 1) = 0, get_trit_setun(S, LW, 2) = 0
    PROVE Normalised(S, NormalShift, shift_trs(S, LW, - NormalShift))
<1> DEFINE n == Places_to_left
           Stops(k) == k = LW - 2 \/ get_trit_setun(ShiftLeft(S, LW, k), LW, 2) # 0
           T == {k \in 1 .. LW - 2 : Stops(k)}
<1>1. NormalShift = - n
  BY DEF NormalShift
<1>2. LW \in Widths /\ LW \in 12 .. 18 /\ LW \in 0 .. 19
  BY Sizes
<1>3. n \in T /\ \A k \in T : n <= k
  <2>1. LW - 2 \in T /\ T \in SUBSET Nat
    BY <1>2
  <2>2. n = Min(T)
    BY DEF Places_to_left
  <2> HIDE DEF T, n
  <2>3. \E x \in T : \A y \in T : x <= y
    BY <2>1, LeastElement
  <2> QED
    BY <2>2, <2>3 DEF Min
<1>4. n \in 1 .. LW - 2 /\ n \in Nat /\ n \in 0 .. LW - 1 /\ n % TRS_WIDTH = n /\ n >= 0
      /\ n < LW
  <2>1. n \in 1 .. LW - 2
    BY <1>3
  <2> HIDE DEF n
  <2> QED
    BY <1>2, <2>1 DEF TRS_WIDTH
<1>5. PICK f \in [Nat -> -1 .. 1] : AreTrits(f, LW) /\ Number(f, LW) = S
  BY <1>2, WordHasTrits DEF LongWord
<1>6. ASSUME NEW k \in 0 .. LW - 2
      PROVE  /\ get_trit_setun(ShiftLeft(S, LW, k), LW, 2) = f[LW - 2 - k]
             /\ get_trit_setun(ShiftLeft(S, LW, k), LW, 1) = f[LW - 1 - k]
  <2>1. k \in 0 .. LW - 1 /\ 1 \in 1 .. LW /\ 2 \in 1 .. LW
    BY <1>2
  <2>2. /\ AreTrits(TritsUp(f, k), LW)
        /\ ShiftLeft(S, LW, k) = Number(TritsUp(f, k), LW)
    BY <1>2, <1>5, <2>1, ShiftLeftTrits
  <2>3. /\ get_trit_setun(Number(TritsUp(f, k), LW), LW, 1) = TritsUp(f, k)[LW - 1]
        /\ get_trit_setun(Number(TritsUp(f, k), LW), LW, 2) = TritsUp(f, k)[LW - 2]
    BY <1>2, <2>1, <2>2, TritNumber
  <2>4. TritsUp(f, k)[LW - 1] = f[LW - 1 - k] /\ TritsUp(f, k)[LW - 2] = f[LW - 2 - k]
    BY <1>2 DEF TritsUp
  <2> QED
    BY <2>2, <2>3, <2>4
<1>7. /\ get_trit_setun(S, LW, 1) = f[LW - 1]
      /\ get_trit_setun(S, LW, 2) = f[LW - 2]
  BY <1>2, <1>5, TritNumber
<1>8. \A i \in LW - 1 - n .. LW - 1 : f[i] = 0
  <2> SUFFICES ASSUME NEW i \in LW - 1 - n .. LW - 1 PROVE f[i] = 0
    OBVIOUS
  <2>1. CASE i >= LW - 2
    <3>1. i = LW - 2 \/ i = LW - 1
      BY <1>2, <1>4, <2>1
    <3> QED
      BY <1>7, <3>1
  <2>2. CASE i < LW - 2
    <3> DEFINE k == LW - 2 - i
    <3>1. k \in 1 .. LW - 2 /\ k < n /\ k # LW - 2 /\ LW - 2 - k = i /\ k \in 0 .. LW - 2
      BY <1>2, <1>4, <2>2
    <3>2. k \notin T
      BY <1>3, <1>4, <3>1
    <3>3. get_trit_setun(ShiftLeft(S, LW, k), LW, 2) = 0
      BY <3>1, <3>2
    <3> QED
      BY <1>6, <3>1, <3>3
  <2> QED
    BY <1>2, <1>4, <2>1, <2>2
<1> HIDE DEF n
<1>9. f[LW - 2 - n] # 0
  <2>1. CASE n # LW - 2
    <3>1. get_trit_setun(ShiftLeft(S, LW, n), LW, 2) # 0 /\ n \in 0 .. LW - 2
      BY <1>3, <1>4, <2>1
    <3> QED
      BY <1>6, <3>1
  <2>2. CASE n = LW - 2
    <3>1. LW - 2 - n = 0 /\ LW - 1 - n = 1
      BY <1>2, <1>4, <2>2
    <3>2. SUFFICES ASSUME f[0] = 0 PROVE FALSE
      BY <3>1
    <3>3. \A i \in 0 .. LW - 1 : f[i] = 0
      BY <1>2, <1>8, <3>1, <3>2
    <3> QED
      BY <1>2, <1>5, <3>3, NumberOfZeros
  <2> QED
    BY <2>1, <2>2
<1>10. S = Number(f, LW - n) /\ S \in Int
  <2>1. LW - n \in 0 .. LW /\ \A i \in LW - n .. LW - 1 : f[i] = 0
    BY <1>2, <1>4, <1>8
  <2> QED
    BY <1>2, <1>5, <2>1, NumberOfLow, WidthsOfMachine
<1>11. shift_trs(S, LW, n) = ShiftLeft(S, LW, n)
  BY <1>4 DEF shift_trs
<1>12. ShiftLeft(S, LW, n) = S * pow3(n)
  BY <1>2, <1>4, <1>5, <1>10, ShiftLeftNumber
<1>13. pow3(n) \in Nat \ {0} /\ - (- n) = n /\ - n \in -(LW - 2) .. 1 /\ - n # 1
  BY <1>2, <1>4, Pow3
<1>14. /\ get_trit_setun(ShiftLeft(S, LW, n), LW, 1) = 0
       /\ get_trit_setun(ShiftLeft(S, LW, n), LW, 2) # 0
  <2>1. n \in 0 .. LW - 2 /\ LW - 1 - n \in LW - 1 - n .. LW - 1
    BY <1>2, <1>4
  <2> QED
    BY <1>6, <1>8, <1>9, <2>1
<1>15. S * pow3(n) # 0
  BY <1>10, <1>13
<1> HIDE DEF Stops, T
<1> QED
  BY <1>1, <1>11, <1>12, <1>13, <1>14, <1>15 DEF Normalised

(* The number of places fits an address and comes back from S.              *)
LEMMA PlacesComeBack ==
    ASSUME NEW n \in -(LW - 2) .. 1
    PROVE  copy_trs_setun(ShiftLeft(n, LW, LW - AT), LW, AT) = n
<1>1. RT \in {2, 4}
  BY MemoryAssumption, PaperTapeAssumption
<1>2. /\ LW \in Widths /\ AT \in Widths /\ LW - AT \in 0 .. LW - 1 /\ LW - (LW - AT) = AT
      /\ LW - AT \in Widths /\ LW >= AT /\ LW - AT < LW
  BY Sizes DEF Widths
<1>3. n \in Word(AT)
  <2>1. CASE RT = 2
    <3>1. AT = 3 /\ LW = 14 /\ MaxWord(3) = 13
      BY <2>1 DEF AT, LW, SW, MaxWord, pow3, POW3_TABLE
    <3> QED
      BY <3>1 DEF Word
  <2>2. CASE RT = 4
    <3>1. AT = 5 /\ LW = 18 /\ MaxWord(5) = 121
      BY <2>2 DEF AT, LW, SW, MaxWord, pow3, POW3_TABLE
    <3> QED
      BY <3>1 DEF Word
  <2> QED
    BY <1>1, <2>1, <2>2
<1>4. mod_3_n(n, AT) = n /\ n \in Int
  BY <1>2, <1>3, ModIdentity
<1> DEFINE d == LW - AT
<1>5. ShiftLeft(n, LW, d) = n * pow3(d)
  BY <1>2, <1>4 DEF ShiftLeft
<1>6. mod_3_n(n * pow3(d) + 0, d) = 0 /\ ((n * pow3(d) + 0) - 0) \div pow3(d) = n
      /\ pow3(d) \in Nat
  <2>1. 0 \in -MaxWord(d) .. MaxWord(d)
    BY <1>2, Pow3 DEF Widths
  <2>2. d \in Widths /\ pow3(d) \in Nat
    BY <1>2, Pow3 DEF Widths
  <2> HIDE DEF d
  <2> QED
    BY <1>4, <2>1, <2>2, Centered
<1>7. n * pow3(d) + 0 = n * pow3(d) /\ n * pow3(d) \in Int
  BY <1>4, <1>6
<1>8. ShiftRight(n * pow3(d), LW, d) = n
  BY <1>2, <1>6, <1>7 DEF ShiftRight
<1> QED
  BY <1>2, <1>5, <1>8 DEF copy_trs_setun

(* The result of a normalisation is normal and, with the number of places,  *)
(* gives the old accumulator back.                                          *)
THEOREM Normalises == Spec => NormalisationKeepsValue
<1> DEFINE Kept ==
        Step({-7}) /\ Half(A) < 0 =>
          LET n == copy_trs_setun(S', LW, AT)
              r == ld_fram(fram', A).v
          IN  /\ n \in -(LW - 2) .. 1
              /\ S = 0 <=> r = 0
              /\ r # 0 => /\ get_trit_setun(r, LW, 1) = 0
                          /\ get_trit_setun(r, LW, 2) # 0
              /\ IF n = 1 THEN S - 3 * r \in Trit
                          ELSE r = S * pow3(-n)
<1>1. ASSUME TypeOK, Next PROVE Kept
  <2> SUFFICES ASSUME Step({-7}), Half(A) < 0
               PROVE  Normalised(S, copy_trs_setun(S', LW, AT), ld_fram(fram', A).v)
    BY DEF Normalised
  <2>1. op_minusplusminus
    BY <1>1, CountedStep, CodeOfStep DEF Step
  <2>2. /\ fram' = st_fram(fram, A, LW, shift_trs(S, LW, - NormalShift))
        /\ S' = ShiftLeft(NormalShift, LW, LW - AT)
    BY <2>1 DEF op_minusplusminus, SetS
  <2>3. Normalised(S, NormalShift, shift_trs(S, LW, - NormalShift))
    BY <1>1, NormalisedZero, NormalisedRight, NormalisedAlready, NormalisedLeft DEF TypeOK
  <2>4. copy_trs_setun(S', LW, AT) = NormalShift
    BY <2>2, <2>3, PlacesComeBack DEF Normalised
  <2>5. ld_fram(fram', A).v = shift_trs(S, LW, - NormalShift)
    BY <1>1, <2>2, ResultTypes, OperandTypes, LongRoundTrip DEF TypeOK
  <2> QED
    BY <2>3, <2>4, <2>5
<1>2. TypeOK /\ [Next]_vars => [Kept]_vars
  BY <1>1
<1> QED
  BY <1>2, TypeCorrect, PTL DEF Spec, NormalisationKeepsValue

-----------------------------------------------------------------------------
(***************************************************************************)
(* What is put out reads back.  A word of a page goes out in groups of b   *)
(* trits, the first of which may be shorter; a reader adds the groups up.  *)
(***************************************************************************)
GroupSum(w, b, n) == SumTo([j \in 0 .. n - 1 |-> Group(w, b, j) * pow3(b * j)], n)

\* The trits of the groups before group m.
TritsBefore(b, m) == IF b * m < SW THEN b * m ELSE SW

(* A group is the number of its trits.                                      *)
LEMMA GroupNumber ==
    ASSUME NEW f, AreTrits(f, SW), NEW b \in 1 .. 3, NEW j \in Nat, b * j < SW
    PROVE  LET d == TritsBefore(b, j + 1) - b * j
           IN  /\ d \in 1 .. b
               /\ Group(Number(f, SW), b, j) = Number(TritsFrom(f, b * j), d)
               /\ Group(Number(f, SW), b, j) \in Word(b)
<1> DEFINE i == b * j
           d == TritsBefore(b, j + 1) - i
           g == TritsFrom(f, i)
<1>1. i \in Nat /\ i < SW /\ b * (j + 1) = i + b /\ SW \in Widths /\ SW \in 6 .. 9
  BY Sizes
<1>2. d = IF i + b < SW THEN b ELSE SW - i
  BY <1>1 DEF TritsBefore
<1> HIDE DEF i, d
<1>3. d \in 1 .. b /\ d \in Widths /\ SW - i \in Widths /\ d <= SW - i /\ i \in 0 .. SW
  BY <1>1, <1>2 DEF Widths
<1>4. ShiftRight(Number(f, SW), SW, i) = Number(g, SW - i) /\ AreTrits(g, SW - i)
  <2>1. ShiftRight(Number(f, SW), SW, i) = Number(g, SW - i)
    BY <1>1, ShiftRightNumber
  <2>2. SW \in 0 .. 19
    BY <1>1
  <2> QED
    BY <1>3, <2>1, <2>2, NumberSplit
<1> HIDE DEF g
<1>5. mod_3_n(Number(g, SW - i), b) = Number(g, d)
  <2>1. CASE i + b < SW
    <3>1. d = b /\ SW - i \in 0 .. 19
      BY <1>1, <1>2, <2>1
    <3> QED
      BY <1>3, <1>4, <3>1, NumberLow
  <2>2. CASE ~ (i + b < SW)
    <3>1. d = SW - i /\ SW - i \in 0 .. 19
      BY <1>1, <1>2, <2>2
    <3>2. Number(g, d) \in Word(d) /\ Number(g, d) \in Int
      BY <1>4, <3>1, NumberType DEF Word
    <3>3. MaxWord(d) <= MaxWord(b)
      <4>1. MaxWord(1) = 1 /\ MaxWord(2) = 4 /\ MaxWord(3) = 13
        BY DEF MaxWord, pow3, POW3_TABLE
      <4> QED
        BY <1>3, <4>1
    <3>4. MaxWord(d) \in Nat /\ MaxWord(b) \in Nat /\ b \in Widths
      BY <1>3, Pow3 DEF Widths
    <3>5. Number(g, d) \in Word(b)
      BY <3>2, <3>3, <3>4 DEF Word
    <3> QED
      BY <3>1, <3>4, <3>5, ModIdentity
  <2> QED
    BY <2>1, <2>2
<1>6. Group(Number(f, SW), b, j) = Number(g, d)
  BY <1>4, <1>5 DEF Group, i
<1>7. Group(Number(f, SW), b, j) \in Word(b)
  <2>1. Number(g, SW - i) \in Int /\ b \in Widths
    BY <1>3, <1>4, NumberType DEF Widths
  <2> QED
    BY <1>5, <1>6, <2>1, ModType
<1> QED
  BY <1>3, <1>6, <1>7 DEF d, i, g

(* The groups of a short word make the word.                                *)
LEMMA GroupsMakeWord ==
    ASSUME NEW w \in ShortWord, NEW b \in 1 .. 3, NEW n \in 1 .. 17, b * (n - 1) < SW, SW <= b * n
    PROVE  /\ GroupSum(w, b, n) = w
           /\ mod_3_n(GroupSum(w, b, n), SW) = w
           /\ \A j \in 0 .. n - 1 : Group(w, b, j) \in Word(b)
<1>1. SW \in Widths /\ SW \in 6 .. 9 /\ SW \in 0 .. 19
  BY Sizes
<1>2. PICK f : AreTrits(f, SW) /\ Number(f, SW) = w
  BY <1>1, WordHasTrits DEF ShortWord
<1> DEFINE c == [j \in 0 .. n - 1 |-> Group(w, b, j) * pow3(b * j)]
           T == {m \in 0 .. n : SumTo([j \in 0 .. m - 1 |-> Group(w, b, j) * pow3(b * j)], m)
                                   = Number(f, TritsBefore(b, m))}
<1>3. ASSUME NEW j \in 0 .. n - 1 PROVE b * j \in 0 .. SW - 1
  <2>1. b * j <= b * (n - 1)
    OBVIOUS
  <2> QED
    BY <1>1, <2>1
<1>4. ASSUME NEW j \in 0 .. n - 1 PROVE Group(w, b, j) \in Word(b)
  <2>1. j \in Nat /\ b * j < SW
    BY <1>1, <1>3
  <2> QED
    BY <1>2, <2>1, GroupNumber
<1>5. ASSUME NEW j \in 0 .. n - 1 PROVE Group(w, b, j) * pow3(b * j) \in Int
  <2> DEFINE i == b * j
  <2>1. pow3(i) \in Int
    <3>1. i \in 0 .. 19
      BY <1>1, <1>3
    <3> HIDE DEF i
    <3> QED
      BY <3>1, Pow3
  <2>2. Group(w, b, j) \in Int
    BY <1>4, WordIsInt DEF Widths
  <2> QED
    BY <2>1, <2>2
<1>6. 0 \in T
  <2>1. TritsBefore(b, 0) = 0
    BY <1>1 DEF TritsBefore
  <2> QED
    BY <2>1, NumberZero, SumZero
<1>7. ASSUME NEW m \in 0 .. n - 1, m \in T PROVE m + 1 \in T
  <2> DEFINE i == b * m
             d == TritsBefore(b, m + 1) - i
             low == [j \in 0 .. m - 1 |-> Group(w, b, j) * pow3(b * j)]
             all == [j \in 0 .. m |-> Group(w, b, j) * pow3(b * j)]
  <2>1. i \in 0 .. SW - 1 /\ TritsBefore(b, m) = i /\ m \in Nat /\ m \in 0 .. 17
    BY <1>1, <1>3 DEF TritsBefore
  <2>2. d \in 1 .. b /\ Group(w, b, m) = Number(TritsFrom(f, i), d)
    <3>1. m \in Nat /\ b * m < SW
      BY <1>1, <2>1
    <3> QED
      BY <1>2, <3>1, GroupNumber
  <2>3. TritsBefore(b, m + 1) = i + d /\ i + d <= SW
    BY <1>1, <2>1, <2>2 DEF TritsBefore
  <2>4. SumTo(low, m) = Number(f, i)
    BY <1>7, <2>1
  <2>5. SumTo(all, m + 1) = SumTo(low, m) + Group(w, b, m) * pow3(i)
    <3>1. \A j \in 0 .. m : all[j] \in Int
      BY <1>5
    <3>2. all[m] = Group(w, b, m) * pow3(i)
      BY <2>1
    <3>3. SumTo(all, m) = SumTo(low, m)
      <4>1. m \in Widths /\ \A j \in 0 .. m - 1 : all[j] = low[j]
        BY <2>1 DEF Widths
      <4> HIDE DEF all, low
      <4> QED
        BY <4>1, SumSame
    <3> HIDE DEF all, low
    <3> QED
      BY <2>1, <3>1, <3>2, <3>3, SumStep
  <2> HIDE DEF all, low, i, d
  <2>6. Number(f, i + d) = Number(TritsFrom(f, i), d) * pow3(i) + Number(f, i)
    <3>1. i + d \in 0 .. 19 /\ i \in 0 .. i + d /\ (i + d) - i = d
      BY <1>1, <2>1, <2>2, <2>3
    <3>2. AreTrits(f, i + d)
      BY <1>1, <1>2, <2>1, <2>2, <2>3 DEF AreTrits
    <3> HIDE DEF AreTrits
    <3> QED
      BY <3>1, <3>2, NumberSplit
  <2>7. Number(TritsFrom(f, i), d) * pow3(i) \in Int /\ Number(f, i) \in Int
    <3>0. i \in 0 .. 19 /\ i \in 0 .. SW
      BY <1>1, <2>1
    <3>1. pow3(i) \in Int
      BY <3>0, Pow3
    <3>2. Number(TritsFrom(f, i), d) \in Int
      BY <1>4, <2>2, WordIsInt DEF Widths
    <3>3. Number(f, i) \in Int
      BY <1>1, <1>2, <3>0, NumberSplit
    <3> QED
      BY <3>1, <3>2, <3>3
  <2>8. SumTo(all, m + 1) = Number(f, TritsBefore(b, m + 1))
    BY <2>2, <2>3, <2>4, <2>5, <2>6, <2>7
  <2>9. all = [j \in 0 .. (m + 1) - 1 |-> Group(w, b, j) * pow3(b * j)]
    BY DEF all
  <2> QED
    BY <2>8, <2>9
<1>8. n \in T
  <2> HIDE DEF T
  <2>1. 0 .. n \subseteq T
    BY <1>6, <1>7, Induction
  <2> QED
    BY <2>1
<1>9. TritsBefore(b, n) = SW
  BY <1>1 DEF TritsBefore
<1>10. GroupSum(w, b, n) = w
  BY <1>2, <1>8, <1>9 DEF GroupSum
<1>11. mod_3_n(w, SW) = w
  BY <1>1, ModIdentity DEF ShortWord
<1> QED
  BY <1>4, <1>10, <1>11

-----------------------------------------------------------------------------
(***************************************************************************)
(* Concat joins two halves.  Whatever is made of its halves in the same    *)
(* way is the joined sequence.                                             *)
(***************************************************************************)
Middle(i, j) == (i + j) \div 2

MadeOfHalves(g, f, n) ==
    \A i, j \in 1 .. n :
        g[<< i, j >>] = IF i = j THEN f[i]
                        ELSE g[<< i, Middle(i, j) >>] \o g[<< Middle(i, j) + 1, j >>]

(* The middle of a part cuts it in two parts, neither of them empty.       *)
LEMMA MiddleIsBetween ==
    ASSUME NEW n \in Nat, NEW i \in 1 .. n, NEW j \in 1 .. n, i # j
    PROVE  /\ Middle(i, j) \in 1 .. n /\ Middle(i, j) + 1 \in 1 .. n
           /\ i < j => Middle(i, j) \in i .. j - 1
           /\ j < i => Middle(i, j) \in j .. i - 1
  BY DEF Middle

(* Two functions made of the same halves are the same.                     *)
LEMMA HalvesAgree ==
    ASSUME NEW n \in Nat, NEW f, NEW g, NEW h, MadeOfHalves(g, f, n), MadeOfHalves(h, f, n)
    PROVE  \A i, j \in 1 .. n : i <= j => g[<< i, j >>] = h[<< i, j >>]
<1> DEFINE T == {d \in 0 .. n : \A i, j \in 1 .. n :
                                   i <= j /\ j - i <= d => g[<< i, j >>] = h[<< i, j >>]}
<1>1. ASSUME NEW i \in 1 .. n PROVE g[<< i, i >>] = h[<< i, i >>]
  BY DEF MadeOfHalves
<1>2. 0 \in T
  <2>1. \A i, j \in 1 .. n : i <= j /\ j - i <= 0 => i = j
    OBVIOUS
  <2> QED
    BY <1>1, <2>1
<1>3. ASSUME NEW d \in 0 .. n - 1, d \in T PROVE d + 1 \in T
  <2> SUFFICES ASSUME NEW i \in 1 .. n, NEW j \in 1 .. n, i <= j, j - i <= d + 1
               PROVE  g[<< i, j >>] = h[<< i, j >>]
    OBVIOUS
  <2>1. CASE i = j
    BY <1>1, <2>1
  <2>2. CASE i # j
    <3> DEFINE m == Middle(i, j)
    <3>1. m \in i .. j - 1 /\ m \in 1 .. n /\ m + 1 \in 1 .. n
      BY <2>2, MiddleIsBetween
    <3>2. g[<< i, j >>] = g[<< i, m >>] \o g[<< m + 1, j >>]
      BY <2>2 DEF MadeOfHalves
    <3>3. h[<< i, j >>] = h[<< i, m >>] \o h[<< m + 1, j >>]
      BY <2>2 DEF MadeOfHalves
    <3> HIDE DEF m
    <3>4. g[<< i, m >>] = h[<< i, m >>]
      <4>1. i <= m /\ m - i <= d
        BY <3>1
      <4> QED
        BY <1>3, <3>1, <4>1
    <3>5. g[<< m + 1, j >>] = h[<< m + 1, j >>]
      <4> DEFINE k == m + 1
      <4>1. k <= j /\ j - k <= d /\ k \in 1 .. n
        BY <3>1
      <4> HIDE DEF k
      <4>2. g[<< k, j >>] = h[<< k, j >>]
        BY <1>3, <4>1
      <4> QED
        BY <4>2 DEF k
    <3> QED
      BY <3>2, <3>3, <3>4, <3>5
  <2> QED
    BY <2>1, <2>2
<1>4. n \in T
  <2> HIDE DEF T
  <2>1. 0 .. n \subseteq T
    BY <1>2, <1>3, Induction
  <2> QED
    BY <2>1
<1> QED
  BY <1>4

(* The joined sequence is any that is made of its halves.                   *)
LEMMA ConcatIs ==
    ASSUME NEW n \in Nat \ {0}, NEW f, NEW g, MadeOfHalves(g, f, n)
    PROVE  Concat(f, n) = g[<< 1, n >>]
<1> DEFINE E(c) == [part \in (1 .. n) \X (1 .. n) |->
                       IF part[1] = part[2] THEN f[part[1]]
                       ELSE c[<< part[1], (part[1] + part[2]) \div 2 >>]
                            \o c[<< ((part[1] + part[2]) \div 2) + 1, part[2] >>]]
           cat == CHOOSE c : c = E(c)
           h == [part \in (1 .. n) \X (1 .. n) |-> g[<< part[1], part[2] >>]]
<1>1. ASSUME NEW i \in 1 .. n, NEW j \in 1 .. n PROVE h[<< i, j >>] = g[<< i, j >>]
  OBVIOUS
<1>2. h = E(h)
  <2>1. ASSUME NEW part \in (1 .. n) \X (1 .. n) PROVE h[part] = E(h)[part]
    <3>1. PICK i \in 1 .. n, j \in 1 .. n : part = << i, j >>
      OBVIOUS
    <3>2. h[<< i, j >>] = IF i = j THEN f[i]
                          ELSE h[<< i, Middle(i, j) >>] \o h[<< Middle(i, j) + 1, j >>]
      <4> HIDE DEF h
      <4> QED
        BY <1>1, MiddleIsBetween DEF MadeOfHalves
    <3> HIDE DEF h
    <3>3. E(h)[<< i, j >>] = IF i = j THEN f[i]
                             ELSE h[<< i, Middle(i, j) >>] \o h[<< Middle(i, j) + 1, j >>]
      BY DEF Middle
    <3> QED
      BY <3>1, <3>2, <3>3
  <2> QED
    BY <2>1
<1>3. cat = E(cat)
  <2> HIDE DEF E, h
  <2> QED
    BY <1>2
<1> HIDE DEF cat
<1>4. MadeOfHalves(cat, f, n)
  BY <1>3 DEF MadeOfHalves, Middle
<1>5. cat[<< 1, n >>] = g[<< 1, n >>]
  BY <1>4, HalvesAgree
<1>6. Concat(f, n) = cat[<< 1, n >>]
  BY DEF Concat, cat
<1> QED
  BY <1>5, <1>6

(* The numbers from one to another.                                         *)
Segment(i, j) == [m \in 1 .. j - i + 1 |-> i + m - 1]

(* ... are a sequence,                                                     *)
LEMMA SegmentIs ==
    ASSUME NEW i \in Int, NEW j \in Int, i <= j
    PROVE  /\ Segment(i, j) \in Seq(Int) /\ Len(Segment(i, j)) = j - i + 1
           /\ \A x \in 1 .. j - i + 1 : Segment(i, j)[x] = i + x - 1
<1> DEFINE n == j - i + 1
           s == [m \in 1 .. n |-> i + m - 1]
<1>1. n \in Nat
  OBVIOUS
<1>2. \A m \in 1 .. n : i + m - 1 \in Int
  OBVIOUS
<1> HIDE DEF n
<1>3. s \in Seq(Int) /\ Len(s) = n /\ \A x \in 1 .. n : s[x] = i + x - 1
  BY <1>1, <1>2
<1> QED
  BY <1>3 DEF n, Segment

(* ... and two that meet make one.                                         *)
LEMMA SegmentsJoin ==
    ASSUME NEW i \in Int, NEW m \in Int, NEW j \in Int, i <= m, m < j
    PROVE  Segment(i, j) = Segment(i, m) \o Segment(m + 1, j)
<1> DEFINE a == Segment(i, m)
           b == Segment(m + 1, j)
           c == Segment(i, j)
<1>1. a \in Seq(Int) /\ Len(a) = m - i + 1 /\ \A x \in 1 .. m - i + 1 : a[x] = i + x - 1
  BY SegmentIs
<1>2. b \in Seq(Int) /\ Len(b) = j - m /\ \A x \in 1 .. j - m : b[x] = m + x
  <2> DEFINE k == m + 1
  <2>1. k \in Int /\ k <= j /\ j - k + 1 = j - m /\ \A x \in Int : k + x - 1 = m + x
    OBVIOUS
  <2> HIDE DEF k
  <2>2. /\ Segment(k, j) \in Seq(Int) /\ Len(Segment(k, j)) = j - k + 1
        /\ \A x \in 1 .. j - k + 1 : Segment(k, j)[x] = k + x - 1
    BY <2>1, SegmentIs
  <2>3. /\ Segment(k, j) \in Seq(Int) /\ Len(Segment(k, j)) = j - m
        /\ \A x \in 1 .. j - m : Segment(k, j)[x] = m + x
    BY <2>1, <2>2
  <2> QED
    BY <2>3 DEF k
<1>3. c \in Seq(Int) /\ Len(c) = j - i + 1 /\ \A x \in 1 .. j - i + 1 : c[x] = i + x - 1
  <2>1. i <= j
    OBVIOUS
  <2> QED
    BY <2>1, SegmentIs
<1> HIDE DEF a, b, c
<1>4. /\ a \o b \in Seq(Int) /\ Len(a \o b) = Len(a) + Len(b)
      /\ \A x \in 1 .. Len(a) + Len(b) :
            (a \o b)[x] = IF x <= Len(a) THEN a[x] ELSE b[x - Len(a)]
  BY <1>1, <1>2, ConcatProperties
<1>5. Len(a) + Len(b) = Len(c)
  BY <1>1, <1>2, <1>3
<1>6. ASSUME NEW x \in 1 .. Len(c) PROVE (a \o b)[x] = c[x]
  <2>1. c[x] = i + x - 1 /\ x \in 1 .. Len(a) + Len(b)
    BY <1>3, <1>5
  <2>2. CASE x <= Len(a)
    <3>1. x \in 1 .. m - i + 1
      BY <1>1, <1>3, <2>2
    <3>2. a[x] = i + x - 1
      BY <1>1, <3>1
    <3> QED
      BY <1>4, <2>1, <2>2, <3>2
  <2>3. CASE ~ (x <= Len(a))
    <3> DEFINE y == x - Len(a)
    <3>1. y \in 1 .. j - m /\ m + y = i + x - 1
      BY <1>1, <1>3, <2>3
    <3>2. (a \o b)[x] = b[y]
      BY <1>4, <2>1, <2>3
    <3> HIDE DEF y
    <3>3. b[y] = m + y
      BY <1>2, <3>1
    <3> QED
      BY <2>1, <3>1, <3>2, <3>3
  <2> QED
    BY <2>2, <2>3
<1>7. c = a \o b
  BY <1>3, <1>4, <1>5, <1>6, SeqEqual
<1> QED
  BY <1>7 DEF a, b, c

(* The positions, one after the other.                                      *)
LEMMA ConcatOfPositions ==
    ASSUME NEW n \in Nat, NEW f, \A i \in 1 .. n : f[i] = << i >>
    PROVE  Concat(f, n) = Segment(1, n)
<1> DEFINE g == [part \in (1 .. n) \X (1 .. n) |-> Segment(part[1], part[2])]
<1>1. CASE n = 0
  BY <1>1 DEF Concat, Segment
<1>2. CASE n # 0
  <2>1. ASSUME NEW i \in 1 .. n, NEW j \in 1 .. n
        PROVE  g[<< i, j >>] = Segment(i, j)
    OBVIOUS
  <2> HIDE DEF g
  <2>2. ASSUME NEW i \in 1 .. n, NEW j \in 1 .. n, i # j
        PROVE  g[<< i, j >>] = g[<< i, Middle(i, j) >>] \o g[<< Middle(i, j) + 1, j >>]
    <3> DEFINE m == Middle(i, j)
               k == m + 1
    <3>1. m \in 1 .. n /\ k \in 1 .. n
      BY <2>2, MiddleIsBetween
    <3>2. (i < j => m \in i .. j - 1) /\ (j < i => m \in j .. i - 1)
      BY <2>2, MiddleIsBetween
    <3> HIDE DEF m
    <3>3. Segment(i, j) = Segment(i, m) \o Segment(k, j)
      <4>1. CASE i < j
        BY <3>1, <3>2, <4>1, SegmentsJoin
      <4>2. CASE j < i
        <5>1. 1 .. j - i + 1 = {} /\ 1 .. m - i + 1 = {} /\ 1 .. j - k + 1 = {}
          BY <3>1, <3>2, <4>2
        <5>2. Segment(i, j) = << >> /\ Segment(i, m) = << >> /\ Segment(k, j) = << >>
          BY <5>1 DEF Segment
        <5> QED
          BY <5>2
      <4> QED
        BY <2>2, <4>1, <4>2
    <3> HIDE DEF k
    <3>4. g[<< i, j >>] = g[<< i, m >>] \o g[<< k, j >>]
      BY <2>1, <3>1, <3>3
    <3> QED
      BY <3>4 DEF m, k
  <2>3. ASSUME NEW i \in 1 .. n PROVE g[<< i, i >>] = f[i]
    <3>1. Segment(i, i) = << i >>
      BY DEF Segment
    <3> QED
      BY <2>1, <3>1
  <2>4. MadeOfHalves(g, f, n)
    BY <2>2, <2>3 DEF MadeOfHalves
  <2>5. Concat(f, n) = g[<< 1, n >>] /\ 1 \in 1 .. n /\ n \in 1 .. n
    BY <1>2, <2>4, ConcatIs
  <2> QED
    BY <2>1, <2>5
<1> QED
  BY <1>1, <1>2

-----------------------------------------------------------------------------
(* The frames the punch makes of pairs and symbols are lines that the       *)
(* tables of the readers turn into them again.                              *)
LEMMA FramesComeBack ==
    /\ Word(2) = Pairs /\ Word(3) = Symbols
    /\ \A s \in Symbols : tab4_0[s] \in LineCodes /\ tab4_1[tab4_0[s]] = s
    /\ \A s \in Pairs : tab4_2[tab4_0[s]] = s
<1>1. Word(2) = Pairs /\ Word(3) = Symbols
  <2>1. MaxWord(2) = 4 /\ MaxWord(3) = 13
    BY DEF MaxWord, pow3, POW3_TABLE
  <2> QED
    BY <2>1 DEF Word, Pairs, Symbols
<1>2. \A s \in Symbols : tab4_0[s] \in LineCodes
  BY DEF tab4_0, TableFrom, LineCodes, TAB_SIZE, Symbols
<1>3. \A s \in Symbols : tab4_1[tab4_0[s]] = s
  BY DEF tab4_0, tab4_1, TableFrom, Symbols
<1>4. \A s \in Pairs : tab4_2[tab4_0[s]] = s
  BY DEF tab4_0, tab4_2, TableFrom, Pairs, NoPair
<1> QED
  BY <1>1, <1>2, <1>3, <1>4

(* A punched symbol is a line which both decoders know for that symbol.    *)
LEMMA FrameIsLine ==
    /\ \A s \in Symbols : Frame(s) \in Token /\ Decoder_Symbol_Paper_Line(Frame(s))
                          /\ Frame(s).kind = "line" /\ tab4_1[Frame(s).v] = s
    /\ \A s \in Pairs : Frame(s) \in Token /\ Decoder_Command_Paper_Line(Frame(s))
                        /\ Frame(s).kind = "line" /\ tab4_2[Frame(s).v] = s
<1>1. Pairs \subseteq Symbols /\ \A s \in Pairs : s <= 4
  BY DEF Pairs, Symbols
<1>2. \A s : Frame(s).kind = "line" /\ Frame(s).v = tab4_0[s]
  BY DEF Frame, Line
<1>3. \A s \in Symbols : Frame(s) \in Token
  BY FramesComeBack DEF Frame, Line, Token
<1>4. \A s \in Pairs : Decoder_Command_Paper_Line(Frame(s))
  BY <1>1, <1>2, FramesComeBack DEF Decoder_Command_Paper_Line, Decoder_Command
<1> QED
  BY <1>1, <1>2, <1>3, <1>4, FramesComeBack DEF Decoder_Symbol_Paper_Line

(* On a tape without other tokens the reader sees every line.               *)
LEMMA CommandLinesSeen ==
    ASSUME NEW n \in Nat, NEW tape, Len(tape) = n,
           \A i \in 1 .. n : Decoder_Command_Paper_Line(tape[i])
    PROVE  Accepted(tape, Decoder_Command_Paper_Line) = Segment(1, n)
<1> DEFINE f == [i \in 1 .. n |-> IF Decoder_Command_Paper_Line(tape[i]) THEN << i >> ELSE <<>>]
<1>1. \A i \in 1 .. n : f[i] = << i >>
  OBVIOUS
<1>2. Accepted(tape, Decoder_Command_Paper_Line) = Concat(f, n)
  BY DEF Accepted
<1> HIDE DEF f
<1> QED
  BY <1>1, <1>2, ConcatOfPositions

(* On a tape of symbol lines the reader of symbols takes every line.       *)
LEMMA SymbolLinesSeen ==
    ASSUME NEW n \in Nat, NEW tape, Len(tape) = n,
           \A i \in 1 .. n : Decoder_Symbol_Paper_Line(tape[i])
    PROVE  Accepted(tape, Decoder_Symbol_Paper_Line) = Segment(1, n)
<1> DEFINE f == [i \in 1 .. n |-> IF Decoder_Symbol_Paper_Line(tape[i]) THEN << i >> ELSE <<>>]
<1>1. \A i \in 1 .. n : f[i] = << i >>
  OBVIOUS
<1>2. Accepted(tape, Decoder_Symbol_Paper_Line) = Concat(f, n)
  BY DEF Accepted
<1> HIDE DEF f
<1> QED
  BY <1>1, <1>2, ConcatOfPositions

(* The place of a group in a page.                                          *)
LEMMA GroupPlace ==
    ASSUME NEW n \in Nat \ {0}, NEW k \in Nat, NEW j \in 0 .. n - 1
    PROVE  /\ k * n + n - j \in Nat \ {0}
           /\ ((k * n + n - j) - 1) \div n = k /\ ((k * n + n - j) - 1) % n = n - 1 - j
<1> DEFINE m == n - 1 - j
           a == k * n
<1>1. m \in 0 .. n - 1 /\ a \in Nat /\ (a + n - j) - 1 = a + m /\ a + n - j >= 1
  OBVIOUS
<1>2. (k * n + m) \div n = k /\ (k * n + m) % n = m
  BY <1>1, DivMod
<1> QED
  BY <1>1, <1>2

\* A tape has the groups of word k where the reader looks for them.
HasGroups(tape, table, words, b, n, k) ==
    \A j \in 0 .. n - 1 :
        Decoded(tape, k * n + n - j, table) = GroupOfPage(words, b, n, k * n + n - j)

(* A word read from the frames of its groups is the word.                   *)
LEMMA WordComesBack ==
    ASSUME NEW n \in 1 .. 17, NEW b \in 1 .. 3, b * (n - 1) < SW, SW <= b * n,
           NEW words, NEW k \in Nat, words[k] \in ShortWord,
           NEW size \in Nat, (k + 1) * n <= size,
           NEW tape, NEW at, at = Segment(1, size), NEW table,
           HasGroups(tape, table, words, b, n, k)
    PROVE  WordAt(tape, at, k, n, b, table) = words[k]
<1> DEFINE f == [j \in 0 .. n - 1 |->
                    Decoded(tape, at[k * n + n - j], table) * pow3(b * j)]
           g == [j \in 0 .. n - 1 |-> Group(words[k], b, j) * pow3(b * j)]
<1>1. ASSUME NEW j \in 0 .. n - 1 PROVE f[j] = g[j]
  <2> DEFINE p == k * n + n - j
  <2>1. p \in Nat \ {0} /\ (p - 1) \div n = k /\ (p - 1) % n = n - 1 - j
    <3>1. n \in Nat \ {0}
      OBVIOUS
    <3> QED
      BY <3>1, GroupPlace
  <2>2. p <= size
    <3>1. (k + 1) * n = k * n + n /\ k * n \in Nat
      OBVIOUS
    <3> HIDE DEF p
    <3>2. p <= k * n + n
      BY <3>1 DEF p
    <3> QED
      BY <2>1, <3>1, <3>2
  <2>3. at[p] = p
    BY <2>1, <2>2 DEF Segment
  <2>4. Decoded(tape, p, table) = GroupOfPage(words, b, n, p)
    BY DEF HasGroups
  <2> HIDE DEF p
  <2>5. (n - 1) - (n - 1 - j) = j
    OBVIOUS
  <2>6. GroupOfPage(words, b, n, p) = Group(words[k], b, j)
    BY <2>1, <2>5 DEF GroupOfPage
  <2> QED
    BY <2>3, <2>4, <2>6 DEF p
<1>2. n \in Widths
  BY DEF Widths
<1> HIDE DEF f, g
<1>3. SumTo(f, n) = SumTo(g, n)
  BY <1>1, <1>2, SumSame
<1>4. mod_3_n(SumTo(g, n), SW) = words[k]
  BY GroupsMakeWord DEF GroupSum, g
<1> QED
  BY <1>3, <1>4 DEF WordAt, f

(* The sizes of words and pages in frames.                                  *)
LEMMA FrameSizes ==
    /\ CommandFrames \in {4, 5} /\ 2 * (CommandFrames - 1) < SW /\ SW <= 2 * CommandFrames
    /\ SymbolFrames = 3 /\ 3 * (SymbolFrames - 1) < SW /\ SW <= 3 * SymbolFrames
    /\ SIZE_ZONE_TRIT_FRAM \in Nat \ {0}
<1>1. RT = 2 \/ RT = 4
  BY MemoryAssumption, PaperTapeAssumption
<1>2. SW = RT + 5
  BY <1>1 DEF SW, AT
<1>3. SIZE_ZONE_TRIT_FRAM \in Nat \ {0}
  <2>1. pow3(1) = 3 /\ pow3(3) = 27
    BY DEF pow3, POW3_TABLE
  <2>2. RT - 1 = 1 \/ RT - 1 = 3
    BY <1>1
  <2> QED
    BY <2>1, <2>2 DEF SIZE_ZONE_TRIT_FRAM
<1> QED
  BY <1>1, <1>2, <1>3 DEF CommandFrames, SymbolFrames

(* The groups of a page are those of its words.                             *)
LEMMA PlaceOfGroup ==
    ASSUME NEW n \in 1 .. 6, NEW size \in Nat, NEW p \in 1 .. n * size
    PROVE  /\ (p - 1) \div n \in 0 .. size - 1 /\ (p - 1) % n \in 0 .. n - 1
           /\ p - 1 = n * ((p - 1) \div n) + ((p - 1) % n)
<1>1. n = 1 \/ n = 2 \/ n = 3 \/ n = 4 \/ n = 5 \/ n = 6
  OBVIOUS
<1>2. CASE n = 1
  BY <1>2
<1>3. CASE n = 2
  BY <1>3
<1>4. CASE n = 3
  BY <1>4
<1>5. CASE n = 4
  BY <1>5
<1>6. CASE n = 5
  BY <1>6
<1>7. CASE n = 6
  BY <1>7
<1> QED
  BY <1>1, <1>2, <1>3, <1>4, <1>5, <1>6, <1>7

(* A group of a page is a word of its width.                               *)
LEMMA GroupType ==
    ASSUME NEW words \in [Places -> ShortWord], NEW b \in 1 .. 3, NEW n \in 1 .. 6,
           b * (n - 1) < SW, SW <= b * n, NEW p \in 1 .. n * SIZE_ZONE_TRIT_FRAM
    PROVE  GroupOfPage(words, b, n, p) \in Word(b)
<1> DEFINE k == (p - 1) \div n
           j == (n - 1) - ((p - 1) % n)
<1>1. k \in Places /\ j \in 0 .. n - 1
  <2>1. SIZE_ZONE_TRIT_FRAM \in Nat
    BY FrameSizes
  <2>2. (p - 1) \div n \in 0 .. SIZE_ZONE_TRIT_FRAM - 1 /\ (p - 1) % n \in 0 .. n - 1
    BY <2>1, PlaceOfGroup
  <2> QED
    BY <2>2 DEF Places
<1> HIDE DEF k, j
<1>2. words[k] \in ShortWord /\ n \in 1 .. 17
  BY <1>1
<1>3. Group(words[k], b, j) \in Word(b)
  BY <1>1, <1>2, GroupsMakeWord
<1> QED
  BY <1>3 DEF GroupOfPage, k, j

(* A page punched as commands is read as that page.                         *)
LEMMA PunchedCommands ==
    ASSUME NEW words \in [Places -> ShortWord]
    PROVE  LET frames == Perforation_Commands(words)
           IN  /\ frames \in Tape /\ Len(frames) = CommandFrames * SIZE_ZONE_TRIT_FRAM
               /\ Read_Commands_from_FT1(frames).words = words
<1> DEFINE n == CommandFrames
           size == n * SIZE_ZONE_TRIT_FRAM
           tape == Perforation_Commands(words)
           at == Accepted(tape, Decoder_Command_Paper_Line)
<1>1. /\ n \in 1 .. 6 /\ n \in 1 .. 17 /\ n \in Nat \ {0} /\ size \in Nat
      /\ 2 * (n - 1) < SW /\ SW <= 2 * n
      /\ SIZE_ZONE_TRIT_FRAM \in Nat \ {0} /\ size \div n = SIZE_ZONE_TRIT_FRAM
  BY FrameSizes
<1> HIDE DEF n
<1>2. ASSUME NEW p \in 1 .. size
      PROVE  /\ tape[p] = Frame(GroupOfPage(words, 2, n, p))
             /\ GroupOfPage(words, 2, n, p) \in Pairs
  <2>1. tape[p] = Frame(GroupOfPage(words, 2, n, p))
    BY DEF Perforation_Commands, n
  <2>2. GroupOfPage(words, 2, n, p) \in Pairs
    BY <1>1, GroupType, FramesComeBack
  <2> QED
    BY <2>1, <2>2
<1>3. tape \in Seq(Token) /\ Len(tape) = size
  <2>1. tape = [p \in 1 .. size |-> Frame(GroupOfPage(words, 2, n, p))]
    BY DEF Perforation_Commands, n
  <2>2. \A p \in 1 .. size : Frame(GroupOfPage(words, 2, n, p)) \in Token
    BY <1>2, FrameIsLine
  <2> HIDE DEF tape, size
  <2> QED
    BY <1>1, <2>1, <2>2
<1>4. DOMAIN tape = 1 .. size
  BY DEF Perforation_Commands, n
<1> HIDE DEF tape, size, at
<1>5. at = Segment(1, size)
  <2>1. \A i \in 1 .. size : Decoder_Command_Paper_Line(tape[i])
    BY <1>2, FrameIsLine
  <2>2. Accepted(tape, Decoder_Command_Paper_Line) = Segment(1, size)
    BY <1>1, <1>3, <2>1, CommandLinesSeen
  <2> QED
    BY <2>2 DEF at
<1>6. Len(at) = size
  BY <1>1, <1>5 DEF Segment
<1>7. ASSUME NEW k \in 0 .. SIZE_ZONE_TRIT_FRAM - 1 PROVE CommandAt(tape, at, k) = words[k]
  <2>1. k \in Nat /\ words[k] \in ShortWord
    BY DEF Places
  <2>2. (k + 1) * n <= size
    <3>1. (k + 1) * n <= SIZE_ZONE_TRIT_FRAM * n
      BY <1>1
    <3> QED
      BY <1>1, <3>1 DEF size
  <2>3. HasGroups(tape, tab4_2, words, 2, n, k)
    <3> SUFFICES ASSUME NEW j \in 0 .. n - 1
                 PROVE  Decoded(tape, k * n + n - j, tab4_2) = GroupOfPage(words, 2, n, k * n + n - j)
      BY DEF HasGroups
    <3> DEFINE p == k * n + n - j
    <3>1. p \in Nat \ {0}
      BY <1>1, <2>1, GroupPlace
    <3>2. p <= size
      <4>1. (k + 1) * n = k * n + n /\ k * n \in Nat
        BY <1>1
      <4> HIDE DEF p
      <4>2. p <= k * n + n
        BY <1>1, <4>1 DEF p
      <4> QED
        BY <1>1, <2>2, <3>1, <4>1, <4>2
    <3>3. p \in 1 .. size
      BY <1>1, <3>1, <3>2
    <3> HIDE DEF p
    <3>4. Decoded(tape, p, tab4_2) = GroupOfPage(words, 2, n, p)
      BY <1>2, <1>4, <3>3, FrameIsLine DEF Decoded
    <3> QED
      BY <3>4 DEF p
  <2>4. WordAt(tape, at, k, n, 2, tab4_2) = words[k]
    BY <1>1, <1>5, <2>1, <2>2, <2>3, WordComesBack
  <2> QED
    BY <2>4 DEF CommandAt, n
<1>8. Read_Commands_from_FT1(tape).words = [k \in 0 .. SIZE_ZONE_TRIT_FRAM - 1 |-> CommandAt(tape, at, k)]
  <2>1. Least(Len(at) \div CommandFrames, SIZE_ZONE_TRIT_FRAM) = SIZE_ZONE_TRIT_FRAM
    BY <1>1, <1>6 DEF Least, size, n
  <2> QED
    BY <2>1 DEF Read_Commands_from_FT1, at
<1>9. Read_Commands_from_FT1(tape).words = words
  BY <1>7, <1>8 DEF Places
<1> QED
  BY <1>3, <1>9 DEF tape, size, n, Tape

-----------------------------------------------------------------------------
(* The words before the first one that ends with the stop symbol.           *)
LEMMA BeforeStopIs ==
    ASSUME NEW words
    PROVE  /\ BeforeStop(words) \in 0 .. SIZE_ZONE_TRIT_FRAM
           /\ \A i \in Places : i < BeforeStop(words) => Group(words[i], 3, 0) # StopSymbol
<1> DEFINE stops == {i \in Places : Group(words[i], 3, 0) = StopSymbol}
<1>1. SIZE_ZONE_TRIT_FRAM \in Nat
  BY FrameSizes
<1>2. CASE stops = {}
  BY <1>1, <1>2 DEF BeforeStop, Places
<1>3. CASE stops # {}
  <2>1. stops \in SUBSET Nat
    BY <1>1 DEF Places
  <2>2. PICK x \in stops : \A y \in stops : x <= y
    <3> HIDE DEF stops
    <3> QED
      BY <1>3, <2>1, LeastElement
  <2>3. Min(stops) \in stops /\ \A y \in stops : Min(stops) <= y
    <3> HIDE DEF stops
    <3> QED
      BY <2>2 DEF Min
  <2>4. BeforeStop(words) = Min(stops)
    BY <1>3 DEF BeforeStop
  <2> DEFINE x0 == Min(stops)
  <2> HIDE DEF x0
  <2>5. x0 \in stops /\ (\A y \in stops : x0 <= y) /\ BeforeStop(words) = x0
    BY <2>3, <2>4 DEF x0
  <2>6. x0 \in Places /\ x0 \in 0 .. SIZE_ZONE_TRIT_FRAM
    BY <1>1, <2>5 DEF Places
  <2>7. ASSUME NEW i \in Places, i < x0 PROVE Group(words[i], 3, 0) # StopSymbol
    <3>1. i \notin stops
      BY <2>5, <2>6, <2>7 DEF Places
    <3> QED
      BY <3>1
  <2> QED
    BY <2>5, <2>6, <2>7
<1> QED
  BY <1>2, <1>3

\* The number of symbols of a page up to the stop.
SymbolCount(words) ==
    SymbolFrames * BeforeStop(words)
    + IF BeforeStop(words) < SIZE_ZONE_TRIT_FRAM THEN SymbolFrames - 1 ELSE 0

(* Three symbols for each word in front of the stop, two for the stop.     *)
LEMMA SymbolCountIs ==
    ASSUME NEW words
    PROVE  LET c == BeforeStop(words)
           IN  /\ SymbolCount(words) = 3 * c + IF c < SIZE_ZONE_TRIT_FRAM THEN 2 ELSE 0
               /\ SymbolCount(words) \in 0 .. 3 * SIZE_ZONE_TRIT_FRAM
               /\ 3 * c <= SymbolCount(words) /\ SymbolCount(words) \div 3 = c
<1> DEFINE c == BeforeStop(words)
           size == SIZE_ZONE_TRIT_FRAM
<1>1. SymbolFrames = 3 /\ size \in Nat /\ c \in 0 .. size
  BY FrameSizes, BeforeStopIs
<1>2. SymbolCount(words) = 3 * c + IF c < size THEN 2 ELSE 0
  BY <1>1 DEF SymbolCount
<1> HIDE DEF c, size
<1>3. CASE c < size
  BY <1>1, <1>2, <1>3 DEF c, size
<1>4. CASE ~ (c < size)
  BY <1>1, <1>2, <1>4 DEF c, size
<1> QED
  BY <1>3, <1>4

(* The symbols of a page are its groups of three trits.                    *)
LEMMA SymbolsOfPage ==
    ASSUME NEW words \in [Places -> ShortWord]
    PROVE  /\ SymbolsOf(words) \in Seq(Symbols)
           /\ Len(SymbolsOf(words)) = SymbolCount(words)
           /\ \A p \in 1 .. SymbolCount(words) :
                 SymbolsOf(words)[p] = GroupOfPage(words, 3, 3, p)
<1> DEFINE n == SymbolCount(words)
           s == [p \in 1 .. n |-> GroupOfPage(words, 3, 3, p)]
<1>1. n \in Nat /\ n \in 0 .. 3 * SIZE_ZONE_TRIT_FRAM /\ SIZE_ZONE_TRIT_FRAM \in Nat
  BY SymbolCountIs, FrameSizes
<1>2. SymbolsOf(words) = s
  BY FrameSizes DEF SymbolsOf, SymbolCount
<1> HIDE DEF n
<1>3. ASSUME NEW p \in 1 .. n PROVE GroupOfPage(words, 3, 3, p) \in Symbols
  <2>1. p \in 1 .. 3 * SIZE_ZONE_TRIT_FRAM
    BY <1>1
  <2>2. 3 * (3 - 1) < SW /\ SW <= 3 * 3 /\ 3 \in 1 .. 6 /\ 3 \in 1 .. 3
    BY FrameSizes
  <2>3. GroupOfPage(words, 3, 3, p) \in Word(3)
    BY <2>1, <2>2, GroupType
  <2> QED
    BY <2>3, FramesComeBack
<1>4. s \in Seq(Symbols) /\ Len(s) = n /\ \A p \in 1 .. n : s[p] = GroupOfPage(words, 3, 3, p)
  BY <1>1, <1>3
<1> QED
  BY <1>2, <1>4 DEF n

(* A page punched as symbols is read as that page, up to the stop.          *)
LEMMA PunchedSymbols ==
    ASSUME NEW words \in [Places -> ShortWord]
    PROVE  LET frames == Perforation_Symbols(words)
           IN  /\ frames \in Tape /\ Len(frames) = SymbolCount(words)
               /\ \A i \in 0 .. BeforeStop(words) - 1 :
                     Read_Symbols_from_FT1(frames).words[i] = words[i]
<1> DEFINE n == SymbolFrames
           size == SymbolCount(words)
           c == BeforeStop(words)
           tape == Perforation_Symbols(words)
           at == Accepted(tape, Decoder_Symbol_Paper_Line)
<1>1. /\ n = 3 /\ 3 * (n - 1) < SW /\ SW <= 3 * n /\ SIZE_ZONE_TRIT_FRAM \in Nat \ {0}
      /\ size \in Nat /\ c \in 0 .. SIZE_ZONE_TRIT_FRAM /\ 3 * c <= size /\ size \div 3 = c
  BY FrameSizes, BeforeStopIs, SymbolCountIs
<1>2. ASSUME NEW p \in 1 .. size
      PROVE  /\ tape[p] = Frame(GroupOfPage(words, 3, 3, p))
             /\ GroupOfPage(words, 3, 3, p) \in Symbols
  <2>1. /\ SymbolsOf(words) \in Seq(Symbols) /\ Len(SymbolsOf(words)) = size
        /\ SymbolsOf(words)[p] = GroupOfPage(words, 3, 3, p)
    BY SymbolsOfPage
  <2>2. tape[p] = Frame(SymbolsOf(words)[p])
    BY <2>1 DEF Perforation_Symbols
  <2> HIDE DEF size
  <2>3. SymbolsOf(words)[p] \in Symbols
    BY <2>1, ElementOfSeq
  <2> QED
    BY <2>1, <2>2, <2>3
<1>3. tape \in Seq(Token) /\ Len(tape) = size /\ DOMAIN tape = 1 .. size
  <2> DEFINE s == SymbolsOf(words)
  <2>1. tape = [p \in 1 .. size |-> Frame(s[p])]
    BY SymbolsOfPage DEF Perforation_Symbols
  <2>2. ASSUME NEW p \in 1 .. size PROVE Frame(s[p]) \in Token
    <3>1. s[p] = GroupOfPage(words, 3, 3, p)
      BY SymbolsOfPage
    <3> QED
      BY <1>2, <3>1, FrameIsLine
  <2> HIDE DEF tape, size, s
  <2> QED
    BY <1>1, <2>1, <2>2
<1> HIDE DEF n, tape, size, at
<1>4. at = Segment(1, size)
  <2>1. \A i \in 1 .. size : Decoder_Symbol_Paper_Line(tape[i])
    BY <1>2, FrameIsLine
  <2>2. Accepted(tape, Decoder_Symbol_Paper_Line) = Segment(1, size)
    BY <1>1, <1>3, <2>1, SymbolLinesSeen
  <2> QED
    BY <2>2 DEF at
<1>5. Len(at) = size /\ \A p \in 1 .. size : at[p] = p
  BY <1>1, <1>4 DEF Segment
<1>6. ASSUME NEW p \in 1 .. size
      PROVE  /\ Decoded(tape, p, tab4_1) = GroupOfPage(words, 3, 3, p)
             /\ tab4_1[tape[p].v] = GroupOfPage(words, 3, 3, p)
  BY <1>2, <1>3, FrameIsLine DEF Decoded
<1>7. ASSUME NEW k \in 0 .. c - 1
      PROVE  /\ SymbolsAt(tape, at, k) = words[k]
             /\ tab4_1[tape[at[(k + 1) * n]].v] # StopSymbol
  <2>1. k \in Nat /\ k \in Places /\ words[k] \in ShortWord /\ (k + 1) * 3 <= size
    BY <1>1 DEF Places
  <2>2. HasGroups(tape, tab4_1, words, 3, 3, k)
    <3> SUFFICES ASSUME NEW j \in 0 .. 3 - 1
                 PROVE  Decoded(tape, k * 3 + 3 - j, tab4_1) = GroupOfPage(words, 3, 3, k * 3 + 3 - j)
      BY DEF HasGroups
    <3>1. k * 3 + 3 - j \in 1 .. size
      BY <1>1, <2>1
    <3> DEFINE p == k * 3 + 3 - j
    <3> HIDE DEF p
    <3>2. Decoded(tape, p, tab4_1) = GroupOfPage(words, 3, 3, p)
      BY <1>6, <3>1 DEF p
    <3> QED
      BY <3>2 DEF p
  <2>3. WordAt(tape, at, k, 3, 3, tab4_1) = words[k]
    <3>1. 3 \in 1 .. 17 /\ 3 \in 1 .. 3 /\ 3 * (3 - 1) < SW /\ SW <= 3 * 3
      BY <1>1
    <3> QED
      BY <1>1, <1>4, <2>1, <2>2, <3>1, WordComesBack
  <2>4. SymbolsAt(tape, at, k) = words[k]
    BY <1>1, <2>3 DEF SymbolsAt, n
  <2>5. tab4_1[tape[at[(k + 1) * n]].v] # StopSymbol
    <3> DEFINE p == (k + 1) * 3
    <3>1. p \in 1 .. size /\ (p - 1) \div 3 = k /\ (3 - 1) - ((p - 1) % 3) = 0
      BY <1>1, <2>1
    <3> HIDE DEF p
    <3>2. tab4_1[tape[at[p]].v] = Group(words[k], 3, 0)
      BY <1>5, <1>6, <3>1 DEF GroupOfPage
    <3>3. Group(words[k], 3, 0) # StopSymbol
      <4>1. k < c
        BY <1>1
      <4> QED
        BY <2>1, <4>1, BeforeStopIs
    <3> QED
      BY <1>1, <3>2, <3>3 DEF p
  <2> QED
    BY <2>4, <2>5
<1>8. Read_Symbols_from_FT1(tape).words = [k \in 0 .. c - 1 |-> SymbolsAt(tape, at, k)]
  <2> DEFINE whole == Least(Len(at) \div SymbolFrames, SIZE_ZONE_TRIT_FRAM)
             stops == {k \in 1 .. whole : tab4_1[tape[at[k * SymbolFrames]].v] = StopSymbol}
  <2>1. whole = c
    BY <1>1, <1>5 DEF Least, n
  <2>2. stops = {}
    <3>1. ASSUME NEW k \in 1 .. c PROVE tab4_1[tape[at[k * SymbolFrames]].v] # StopSymbol
      <4> DEFINE i == k - 1
      <4>1. i \in 0 .. c - 1 /\ i + 1 = k
        BY <1>1
      <4> HIDE DEF i
      <4>2. tab4_1[tape[at[(i + 1) * n]].v] # StopSymbol
        BY <1>7, <4>1
      <4> QED
        BY <4>1, <4>2 DEF n
    <3> QED
      BY <2>1, <3>1
  <2> HIDE DEF whole, stops
  <2>3. Read_Symbols_from_FT1(tape).words
          = [k \in 0 .. (IF stops = {} THEN whole ELSE Min(stops)) - 1 |-> SymbolsAt(tape, at, k)]
    BY DEF Read_Symbols_from_FT1, at, whole, stops
  <2> QED
    BY <2>1, <2>2, <2>3
<1>9. \A i \in 0 .. c - 1 : Read_Symbols_from_FT1(tape).words[i] = words[i]
  <2> HIDE DEF c
  <2> QED
    BY <1>7, <1>8
<1> QED
  BY <1>3, <1>9 DEF tape, size, Tape

-----------------------------------------------------------------------------
(***************************************************************************)
(* The typewriter.  Typed joins two halves, the second typed with the      *)
(* switch as the first has left it; it does what typing the symbols one    *)
(* after the other does.                                                   *)
(***************************************************************************)
Languages == {Russian, Latin}
Switches  == {Letters, Digits}
Glyphs    == {Glyph(key[1], key[2], key[3]) : key \in Languages \X Switches \X Symbols}
Typing    == [sw : Switches, text : Seq(Glyphs)]

Start(b)       == [sw |-> b, text |-> <<>>]
Joined(a, c)   == [sw |-> c.sw, text |-> a.text \o c.text]
One(lang, b, s) == electrified_typewriter(lang, Start(b), s)

(* A text begins with nothing typed.                                       *)
LEMMA StartType == \A b \in Switches : Start(b) \in Typing
  BY EmptySeq DEF Start, Typing

(* A text joined to another: the switch is the one the second leaves.      *)
LEMMA JoinedIs == \A a, c : Joined(a, c).sw = c.sw /\ Joined(a, c).text = a.text \o c.text
  BY DEF Joined

(* ... and the two are a text.                                             *)
LEMMA JoinedType == \A a, c \in Typing : Joined(a, c) \in Typing
<1> SUFFICES ASSUME NEW a \in Typing, NEW c \in Typing PROVE Joined(a, c) \in Typing
  OBVIOUS
<1>1. a.text \o c.text \in Seq(Glyphs)
  BY ConcatProperties DEF Typing
<1> QED
  BY <1>1 DEF Joined, Typing

(* One symbol: it sets the switch, or types its glyph.                      *)
LEMMA OneIs ==
    ASSUME NEW lang \in Languages, NEW b \in Switches, NEW s \in Symbols
    PROVE  /\ One(lang, b, s) \in Typing
           /\ One(lang, b, s).sw = IF s = LetterShift THEN Letters
                                   ELSE IF s = DigitShift THEN Digits ELSE b
           /\ One(lang, b, s).text = IF Glyph(lang, b, s) = Nothing THEN <<>>
                                     ELSE << Glyph(lang, b, s) >>
           /\ Joined(Start(b), One(lang, b, s)) = One(lang, b, s)
<1> DEFINE g == Glyph(lang, b, s)
           sw == IF s = LetterShift THEN Letters ELSE IF s = DigitShift THEN Digits ELSE b
           text == IF g = Nothing THEN <<>> ELSE << g >>
<1>1. g \in Glyphs
  <2>1. << lang, b, s >> \in Languages \X Switches \X Symbols
    OBVIOUS
  <2> QED
    BY <2>1 DEF Glyphs
<1> HIDE DEF g
<1>2. text \in Seq(Glyphs) /\ sw \in Switches
  BY <1>1, EmptySeq DEF Switches
<1>3. One(lang, b, s) = [sw |-> sw, text |-> text]
  <2>1. Append(<<>>, g) = << g >>
    OBVIOUS
  <2> QED
    BY <2>1 DEF One, electrified_typewriter, Start, g
<1> HIDE DEF sw, text
<1>4. <<>> \o text = text
  BY <1>2, ConcatEmptySeq
<1>5. Joined(Start(b), One(lang, b, s)) = One(lang, b, s)
  BY <1>3, <1>4 DEF Joined, Start
<1> QED
  BY <1>2, <1>3, <1>5 DEF Typing, sw, text, g

\* What is typed of the symbols from "first" on, one after the other.
IsRun(h, lang, symbols, first, b) ==
    /\ h \in [0 .. Len(symbols) + 1 - first -> Typing]
    /\ h[0] = Start(b)
    /\ \A k \in 1 .. Len(symbols) + 1 - first :
          h[k] = Joined(h[k - 1], One(lang, h[k - 1].sw, symbols[first + k - 1]))

Run(lang, symbols, first, b) == CHOOSE h : IsRun(h, lang, symbols, first, b)

(* There is such a run.                                                    *)
LEMMA RunExists ==
    ASSUME NEW lang \in Languages, NEW symbols \in Seq(Symbols),
           NEW first \in 1 .. Len(symbols) + 1, NEW b \in Switches
    PROVE  IsRun(Run(lang, symbols, first, b), lang, symbols, first, b)
<1> DEFINE n == Len(symbols) + 1 - first
           step == [k \in 1 .. n |-> [v \in Typing |->
                      Joined(v, One(lang, v.sw, symbols[first + k - 1]))]]
<1>1. n \in Nat /\ 0 \in Nat /\ 0 <= n /\ Start(b) \in Typing
  BY StartType, LenProperties
<1>2. ASSUME NEW k \in 0 + 1 .. n, NEW v \in Typing PROVE step[k][v] \in Typing
  <2>1. first + k - 1 \in 1 .. Len(symbols)
    BY <1>1
  <2>2. symbols[first + k - 1] \in Symbols
    BY <2>1, ElementOfSeq
  <2>3. v.sw \in Switches
    BY DEF Typing
  <2>4. One(lang, v.sw, symbols[first + k - 1]) \in Typing
    BY <2>2, <2>3, OneIs
  <2>5. Joined(v, One(lang, v.sw, symbols[first + k - 1])) \in Typing
    BY <2>4, JoinedType
  <2>6. k \in 1 .. n
    OBVIOUS
  <2> QED
    BY <2>5, <2>6
<1>3. Solvable(0, n, Typing, Start(b), step)
  <2>1. Steps(0, n, Typing, step)
    BY <1>2 DEF Steps
  <2> HIDE DEF n, step
  <2> QED
    BY <1>1, <2>1, RecursionHasSolution
<1>4. PICK h \in [0 .. n -> Typing] :
         h[0] = Start(b) /\ \A k \in 0 + 1 .. n : h[k] = step[k][h[k - 1]]
  BY <1>3 DEF Solvable
<1>5. ASSUME NEW k \in 1 .. n
      PROVE  h[k] = Joined(h[k - 1], One(lang, h[k - 1].sw, symbols[first + k - 1]))
  <2>1. k \in 0 + 1 .. n /\ h[k - 1] \in Typing
    BY <1>1
  <2> QED
    BY <1>4, <2>1
<1>6. IsRun(h, lang, symbols, first, b)
  BY <1>4, <1>5 DEF IsRun
<1> QED
  BY <1>6 DEF Run

(* A run goes on as the run does that starts with its switch.               *)
LEMMA RunGoesOn ==
    ASSUME NEW lang \in Languages, NEW symbols \in Seq(Symbols),
           NEW first \in 1 .. Len(symbols) + 1, NEW b \in Switches,
           NEW k \in Nat, NEW next \in 1 .. Len(symbols) + 1, next = first + k,
           NEW h, NEW g, IsRun(h, lang, symbols, first, b),
           IsRun(g, lang, symbols, next, h[k].sw)
    PROVE  \A j \in 0 .. Len(symbols) + 1 - next : h[k + j] = Joined(h[k], g[j])
<1> DEFINE L == Len(symbols)
           n == L + 1 - next
           T == {j \in 0 .. n : h[k + j] = Joined(h[k], g[j])}
<1>1. L \in Nat /\ n \in Nat /\ k \in 0 .. L + 1 - first
  BY LenProperties
<1>2. h[k] \in Typing /\ g[0] = Start(h[k].sw)
  BY <1>1 DEF IsRun
<1>3. 0 \in T
  <2>1. h[k].text \o <<>> = h[k].text
    BY <1>2, ConcatEmptySeq DEF Typing
  <2>2. h[k] = [sw |-> h[k].sw, text |-> h[k].text]
    BY <1>2 DEF Typing
  <2>3. Joined(h[k], g[0]) = h[k]
    BY <1>2, <2>1, <2>2 DEF Joined, Start
  <2>4. k + 0 = k
    OBVIOUS
  <2> QED
    BY <1>1, <2>3, <2>4
<1>4. ASSUME NEW j \in 0 .. n - 1, j \in T PROVE j + 1 \in T
  <2> DEFINE s == symbols[next + j]
             o == One(lang, g[j].sw, s)
  <2>1. /\ k + j \in 0 .. L + 1 - first /\ k + j + 1 \in 1 .. L + 1 - first
        /\ (k + j + 1) - 1 = k + j /\ first + (k + j + 1) - 1 = next + j
        /\ j + 1 \in 1 .. n /\ (j + 1) - 1 = j /\ next + (j + 1) - 1 = next + j
        /\ next + j \in 1 .. L /\ j \in 0 .. n
    BY <1>1
  <2>2. g[j + 1] = Joined(g[j], o) /\ g[j] \in Typing
    BY <2>1 DEF IsRun
  <2>3. h[k + j] = Joined(h[k], g[j])
    BY <1>4
  <2>4. h[k + j].sw = g[j].sw /\ h[k + j].text = h[k].text \o g[j].text
    <3> DEFINE x == h[k + j]
    <3>1. x = Joined(h[k], g[j])
      BY <2>3
    <3> HIDE DEF x
    <3>2. x.sw = g[j].sw /\ x.text = h[k].text \o g[j].text
      BY <3>1, JoinedIs
    <3> QED
      BY <3>2 DEF x
  <2>5. h[k + j + 1] = Joined(h[k + j], o)
    <3> DEFINE i == k + j + 1
    <3>1. i \in 1 .. L + 1 - first /\ i - 1 = k + j /\ first + i - 1 = next + j
      BY <2>1
    <3> HIDE DEF i
    <3>2. h[i] = Joined(h[i - 1], One(lang, h[i - 1].sw, symbols[first + i - 1]))
      BY <3>1 DEF IsRun
    <3> QED
      BY <2>4, <3>1, <3>2 DEF i
  <2>6. o \in Typing
    <3>1. s \in Symbols
      BY <2>1, ElementOfSeq
    <3>2. g[j].sw \in Switches
      BY <2>2 DEF Typing
    <3> QED
      BY <3>1, <3>2, OneIs
  <2> HIDE DEF o
  <2>7. (h[k].text \o g[j].text) \o o.text = h[k].text \o (g[j].text \o o.text)
    <3>1. \A x, y, z \in Seq(Glyphs) : (x \o y) \o z = x \o (y \o z)
      BY ConcatAssociative
    <3>2. h[k].text \in Seq(Glyphs) /\ g[j].text \in Seq(Glyphs) /\ o.text \in Seq(Glyphs)
      BY <1>2, <2>2, <2>6 DEF Typing
    <3> QED
      BY <3>1, <3>2
  <2>8. Joined(h[k + j], o) = Joined(h[k], Joined(g[j], o))
    BY <2>4, <2>7 DEF Joined
  <2>9. h[k + (j + 1)] = Joined(h[k], g[j + 1])
    <3>1. k + (j + 1) = k + j + 1
      OBVIOUS
    <3> QED
      BY <2>2, <2>5, <2>8, <3>1
  <2> QED
    BY <2>1, <2>9
<1>5. 0 .. n \subseteq T
  <2>1. 0 \in Nat
    OBVIOUS
  <2> HIDE DEF T, n
  <2> QED
    BY <1>1, <1>3, <1>4, <2>1, Induction
<1> QED
  BY <1>5

-----------------------------------------------------------------------------
\* What is typed of the symbols from i to j, and what is made of it by halves.
Part(lang, symbols, i, j, b) ==
    IF j < i THEN Start(b) ELSE Run(lang, symbols, i, b)[j - i + 1]

TypedByHalves(g, lang, symbols) ==
    \A i, j \in 1 .. Len(symbols), b \in Switches :
        g[<< i, j, b >>] =
            IF i = j THEN One(lang, b, symbols[i])
            ELSE Joined(g[<< i, Middle(i, j), b >>],
                        g[<< Middle(i, j) + 1, j, g[<< i, Middle(i, j), b >>].sw >>])

(* The text of a part is made of the texts of its halves,                  *)
LEMMA PartIs ==
    ASSUME NEW lang \in Languages, NEW symbols \in Seq(Symbols),
           NEW i \in 1 .. Len(symbols), NEW j \in 1 .. Len(symbols), NEW b \in Switches
    PROVE  /\ Part(lang, symbols, i, j, b) \in Typing
           /\ i = j => Part(lang, symbols, i, j, b) = One(lang, b, symbols[i])
           /\ \A m \in i .. j - 1 :
                 Part(lang, symbols, i, j, b) =
                    Joined(Part(lang, symbols, i, m, b),
                           Part(lang, symbols, m + 1, j, Part(lang, symbols, i, m, b).sw))
<1> DEFINE L == Len(symbols)
           h == Run(lang, symbols, i, b)
<1>1. L \in Nat
  BY LenProperties
<1>2. IsRun(h, lang, symbols, i, b)
  BY <1>1, RunExists
<1> HIDE DEF h
<1>3. h \in [0 .. L + 1 - i -> Typing] /\ h[0] = Start(b)
  BY <1>2 DEF IsRun
<1>4. Part(lang, symbols, i, j, b) \in Typing
  <2>1. CASE j < i
    BY <2>1, StartType DEF Part
  <2>2. CASE ~ (j < i)
    <3>1. j - i + 1 \in 0 .. L + 1 - i
      BY <2>2
    <3> QED
      BY <1>3, <2>2, <3>1 DEF Part, h
  <2> QED
    BY <2>1, <2>2
<1>5. ASSUME i = j PROVE Part(lang, symbols, i, j, b) = One(lang, b, symbols[i])
  <2>1. 1 \in 1 .. L + 1 - i /\ i + 1 - 1 = i /\ j - i + 1 = 1 /\ 1 - 1 = 0
    BY <1>5
  <2>2. h[1] = Joined(h[1 - 1], One(lang, h[1 - 1].sw, symbols[i + 1 - 1]))
    BY <1>2, <2>1 DEF IsRun
  <2>3. Start(b).sw = b
    BY DEF Start
  <2>4. symbols[i] \in Symbols
    BY ElementOfSeq
  <2>5. h[1] = One(lang, b, symbols[i])
    BY <1>3, <2>1, <2>2, <2>3, <2>4, OneIs
  <2>6. ~ (j < i)
    BY <1>5
  <2> QED
    BY <2>1, <2>5, <2>6 DEF Part, h
<1>6. ASSUME NEW m \in i .. j - 1
      PROVE  Part(lang, symbols, i, j, b) =
                Joined(Part(lang, symbols, i, m, b),
                       Part(lang, symbols, m + 1, j, Part(lang, symbols, i, m, b).sw))
  <2> DEFINE k == m - i + 1
             next == m + 1
             c == h[k].sw
             g == Run(lang, symbols, next, c)
             rest == j - m
  <2>1. /\ k \in Nat /\ next \in 1 .. L + 1 /\ next = i + k /\ k \in 0 .. L + 1 - i
        /\ rest \in 0 .. L + 1 - next /\ k + rest = j - i + 1 /\ rest = j - next + 1
        /\ ~ (j < i) /\ ~ (m < i) /\ ~ (j < next)
    BY <1>1
  <2>2. Part(lang, symbols, i, m, b) = h[k] /\ c \in Switches
    BY <1>3, <2>1 DEF Part, h, Typing
  <2>3. Part(lang, symbols, i, j, b) = h[k + rest]
    BY <2>1 DEF Part, h
  <2> HIDE DEF k, next, rest
  <2> HIDE DEF c
  <2>4. IsRun(g, lang, symbols, next, c)
    BY <2>1, <2>2, RunExists
  <2>5. Part(lang, symbols, next, j, c) = g[rest]
    BY <2>1 DEF Part
  <2> HIDE DEF g
  <2>6. \A x \in 0 .. Len(symbols) + 1 - next : h[k + x] = Joined(h[k], g[x])
    <3>1. IsRun(g, lang, symbols, next, h[k].sw)
      BY <2>4 DEF c
    <3>2. i \in 1 .. L + 1
      BY <1>1
    <3> QED
      BY <1>2, <2>1, <3>1, <3>2, RunGoesOn
  <2>7. h[k + rest] = Joined(h[k], g[rest])
    BY <2>1, <2>6
  <2>8. Part(lang, symbols, i, j, b) = Joined(h[k], Part(lang, symbols, next, j, c))
    BY <2>3, <2>5, <2>7
  <2> QED
    BY <2>2, <2>8 DEF next, c
<1> QED
  BY <1>4, <1>5, <1>6

(* ... so what is typed by halves is what is typed in a run.               *)
LEMMA TypedHalvesAgree ==
    ASSUME NEW lang \in Languages, NEW symbols \in Seq(Symbols),
           NEW g, TypedByHalves(g, lang, symbols)
    PROVE  \A i, j \in 1 .. Len(symbols), b \in Switches :
              i <= j => g[<< i, j, b >>] = Part(lang, symbols, i, j, b)
<1> DEFINE n == Len(symbols)
           P(i, j, b) == Part(lang, symbols, i, j, b)
           T == {d \in 0 .. n : \A i, j \in 1 .. n, b \in Switches :
                                   i <= j /\ j - i <= d => g[<< i, j, b >>] = P(i, j, b)}
<1>1. n \in Nat
  BY LenProperties
<1>2. ASSUME NEW i \in 1 .. n, NEW b \in Switches PROVE g[<< i, i, b >>] = P(i, i, b)
  <2>1. P(i, i, b) = One(lang, b, symbols[i])
    BY PartIs
  <2>2. g[<< i, i, b >>] = One(lang, b, symbols[i])
    BY DEF TypedByHalves
  <2> QED
    BY <2>1, <2>2
<1>3. 0 \in T
  <2>1. \A i, j \in 1 .. n : i <= j /\ j - i <= 0 => i = j
    OBVIOUS
  <2> HIDE DEF P
  <2> QED
    BY <1>1, <1>2, <2>1
<1>4. ASSUME NEW d \in 0 .. n - 1, d \in T PROVE d + 1 \in T
  <2> SUFFICES ASSUME NEW i \in 1 .. n, NEW j \in 1 .. n, NEW b \in Switches,
                      i <= j, j - i <= d + 1
               PROVE  g[<< i, j, b >>] = P(i, j, b)
    BY <1>1
  <2>1. CASE i = j
    BY <1>2, <2>1
  <2>2. CASE i # j
    <3> DEFINE m == Middle(i, j)
               k == m + 1
               c == P(i, m, b).sw
    <3>1. m \in i .. j - 1 /\ m \in 1 .. n /\ k \in 1 .. n /\ k <= j
      BY <1>1, <2>2, MiddleIsBetween
    <3>2. g[<< i, j, b >>] = Joined(g[<< i, m, b >>], g[<< k, j, g[<< i, m, b >>].sw >>])
      BY <2>2 DEF TypedByHalves
    <3> HIDE DEF m
    <3>3. P(i, j, b) = Joined(P(i, m, b), P(k, j, c))
      BY <3>1, PartIs
    <3>4. P(i, m, b) \in Typing
      BY <3>1, PartIs
    <3> HIDE DEF P
    <3>5. c \in Switches
      BY <3>4 DEF Typing
    <3> HIDE DEF k
    <3>6. m - i <= d /\ i <= m /\ j - k <= d
      BY <3>1 DEF k
    <3>7. g[<< i, m, b >>] = P(i, m, b)
      BY <1>4, <3>1, <3>6
    <3> HIDE DEF c
    <3>8. g[<< k, j, c >>] = P(k, j, c)
      BY <1>4, <3>1, <3>5, <3>6
    <3> QED
      BY <3>2, <3>3, <3>7, <3>8 DEF c
  <2> QED
    BY <2>1, <2>2
<1>5. n \in T
  <2>1. 0 \in Nat
    OBVIOUS
  <2> HIDE DEF T, n
  <2>2. 0 .. n \subseteq T
    BY <1>1, <1>3, <1>4, <2>1, Induction
  <2> QED
    BY <1>1, <2>2
<1> HIDE DEF P
<1>6. ASSUME NEW i \in 1 .. n, NEW j \in 1 .. n, NEW b \in Switches, i <= j
      PROVE  g[<< i, j, b >>] = P(i, j, b)
  <2>1. j - i <= n
    BY <1>1
  <2> QED
    BY <1>5, <1>6, <2>1
<1> QED
  BY <1>6 DEF P

(* Typed is the run of all the symbols.                                     *)
LEMMA TypedIs ==
    ASSUME NEW lang \in Languages, NEW symbols \in Seq(Symbols), NEW sw \in Switches
    PROVE  Typed(lang, sw, symbols) = Run(lang, symbols, 1, sw)[Len(symbols)]
<1> DEFINE n == Len(symbols)
           D == (1 .. n) \X (1 .. n) \X {Letters, Digits}
           mid(p) == (p[1] + p[2]) \div 2
           left(t, p) == t[<< p[1], mid(p), p[3] >>]
           right(t, p) == t[<< mid(p) + 1, p[2], left(t, p).sw >>]
           E(t) == [p \in D |->
                      IF p[1] = p[2]
                      THEN electrified_typewriter(lang, [sw |-> p[3], text |-> <<>>], symbols[p[1]])
                      ELSE [sw |-> right(t, p).sw, text |-> left(t, p).text \o right(t, p).text]]
           typed == CHOOSE t : t = E(t)
           h == [p \in D |-> Part(lang, symbols, p[1], p[2], p[3])]
<1>1. n \in Nat
  BY LenProperties
<1>2. ASSUME NEW i \in 1 .. n, NEW j \in 1 .. n, NEW b \in Switches
      PROVE  << i, j, b >> \in D /\ h[<< i, j, b >>] = Part(lang, symbols, i, j, b)
  BY DEF Switches
<1> HIDE DEF h
<1>4. TypedByHalves(h, lang, symbols)
  <2> SUFFICES ASSUME NEW i \in 1 .. n, NEW j \in 1 .. n, NEW b \in Switches
               PROVE  h[<< i, j, b >>] =
                        IF i = j THEN One(lang, b, symbols[i])
                        ELSE Joined(h[<< i, Middle(i, j), b >>],
                                    h[<< Middle(i, j) + 1, j, h[<< i, Middle(i, j), b >>].sw >>])
    BY DEF TypedByHalves
  <2>1. CASE i = j
    BY <1>2, <2>1, PartIs
  <2>2. CASE i # j
    <3> DEFINE m == Middle(i, j)
               k == m + 1
               c == Part(lang, symbols, i, m, b).sw
    <3>1. m \in 1 .. n /\ k \in 1 .. n
      BY <1>1, <2>2, MiddleIsBetween
    <3>2. (i < j => m \in i .. j - 1) /\ (j < i => m \in j .. i - 1)
      BY <1>1, <2>2, MiddleIsBetween
    <3> HIDE DEF m
    <3>3. Part(lang, symbols, i, m, b) \in Typing /\ c \in Switches
      BY <3>1, PartIs DEF Typing
    <3>4. Part(lang, symbols, i, j, b) = Joined(Part(lang, symbols, i, m, b), Part(lang, symbols, k, j, c))
      <4>1. CASE i < j
        BY <3>1, <3>2, <4>1, PartIs
      <4>2. CASE j < i
        <5>1. m < i /\ j < k
          BY <3>1, <3>2, <4>2
        <5>2. /\ Part(lang, symbols, i, j, b) = Start(b) /\ Part(lang, symbols, i, m, b) = Start(b)
              /\ Part(lang, symbols, k, j, b) = Start(b) /\ c = b
          BY <4>2, <5>1 DEF Part, Start
        <5>3. Joined(Start(b), Start(b)) = Start(b)
          BY DEF Joined, Start
        <5> QED
          BY <5>2, <5>3
      <4> QED
        BY <2>2, <4>1, <4>2
    <3>5. h[<< i, m, b >>] = Part(lang, symbols, i, m, b)
      BY <1>2, <3>1
    <3> HIDE DEF k, c
    <3>6. h[<< k, j, c >>] = Part(lang, symbols, k, j, c)
      BY <1>2, <3>1, <3>3
    <3>7. h[<< i, j, b >>] = Joined(h[<< i, m, b >>], h[<< k, j, h[<< i, m, b >>].sw >>])
      BY <1>2, <3>4, <3>5, <3>6 DEF c
    <3> QED
      BY <2>2, <3>7 DEF k, m
  <2> QED
    BY <2>1, <2>2
<1>5. h = E(h)
  <2> DEFINE e == E(h)
  <2>1. ASSUME NEW i \in 1 .. n, NEW j \in 1 .. n, NEW b \in Switches
        PROVE  h[<< i, j, b >>] = e[<< i, j, b >>]
    <3>1. e[<< i, j, b >>] =
             IF i = j THEN One(lang, b, symbols[i])
             ELSE Joined(h[<< i, Middle(i, j), b >>],
                         h[<< Middle(i, j) + 1, j, h[<< i, Middle(i, j), b >>].sw >>])
      BY DEF One, Joined, Start, Middle, Switches
    <3> HIDE DEF e
    <3> QED
      BY <1>4, <3>1 DEF TypedByHalves
  <2>2. h = [p \in D |-> h[p]] /\ e = [p \in D |-> e[p]]
    BY DEF h
  <2>3. \A p \in D : \E i, j \in 1 .. n, b \in Switches : p = << i, j, b >>
    BY DEF Switches
  <2> HIDE DEF e, D
  <2>4. \A p \in D : h[p] = e[p]
    BY <2>1, <2>3
  <2>5. h = e
    BY <2>2, <2>4
  <2> QED
    BY <2>5 DEF e
<1>6. typed = E(typed)
  <2> HIDE DEF E
  <2> QED
    BY <1>5
<1> HIDE DEF typed
<1>7. TypedByHalves(typed, lang, symbols)
  <2> DEFINE e == E(typed)
  <2> SUFFICES ASSUME NEW i \in 1 .. n, NEW j \in 1 .. n, NEW b \in Switches
               PROVE  typed[<< i, j, b >>] =
                        IF i = j THEN One(lang, b, symbols[i])
                        ELSE Joined(typed[<< i, Middle(i, j), b >>],
                                    typed[<< Middle(i, j) + 1, j,
                                             typed[<< i, Middle(i, j), b >>].sw >>])
    BY DEF TypedByHalves
  <2>1. e[<< i, j, b >>] =
           IF i = j THEN One(lang, b, symbols[i])
           ELSE Joined(typed[<< i, Middle(i, j), b >>],
                       typed[<< Middle(i, j) + 1, j, typed[<< i, Middle(i, j), b >>].sw >>])
    BY DEF One, Joined, Start, Middle, Switches
  <2>2. typed = e
    BY <1>6
  <2> HIDE DEF e
  <2> QED
    BY <2>1, <2>2
<1>8. Typed(lang, sw, symbols) = IF n = 0 THEN Start(sw) ELSE typed[<< 1, n, sw >>]
  BY DEF Typed, typed, Start
<1>9. CASE n = 0
  <2>1. IsRun(Run(lang, symbols, 1, sw), lang, symbols, 1, sw)
    BY <1>1, RunExists
  <2> QED
    BY <1>8, <1>9, <2>1 DEF IsRun
<1>10. CASE n # 0
  <2>1. 1 \in 1 .. n /\ n \in 1 .. n /\ 1 <= n /\ ~ (n < 1) /\ n - 1 + 1 = n
    BY <1>1, <1>10
  <2>2. typed[<< 1, n, sw >>] = Part(lang, symbols, 1, n, sw)
    BY <1>7, <2>1, TypedHalvesAgree
  <2> QED
    BY <1>8, <1>10, <2>1, <2>2 DEF Part
<1> QED
  BY <1>9, <1>10

-----------------------------------------------------------------------------
(* The switch after a page is the one its last shift sets.                  *)
LEMMA SwitchOfTyped ==
    ASSUME NEW lang \in Languages, NEW symbols \in Seq(Symbols), NEW sw \in Switches
    PROVE  /\ Typed(lang, sw, symbols) \in Typing
           /\ Typed(lang, sw, symbols).sw = SwitchAfter(sw, symbols)
<1> DEFINE n == Len(symbols)
           h == Run(lang, symbols, 1, sw)
           X == Shifts(symbols)
           Sets(x) == IF symbols[x] = LetterShift THEN Letters ELSE Digits
           Last(x, k) == x <= k /\ \A y \in X : y <= k => y <= x
           T == {k \in 0 .. n : /\ \A x \in X : Last(x, k) => h[k].sw = Sets(x)
                                /\ (\A y \in X : ~ (y <= k)) => h[k].sw = sw}
<1>1. n \in Nat /\ DOMAIN symbols = 1 .. n
  BY LenProperties
<1>2. IsRun(h, lang, symbols, 1, sw)
  BY <1>1, RunExists
<1> HIDE DEF h
<1>3. h \in [0 .. n -> Typing] /\ h[0] = Start(sw)
  <2>1. n + 1 - 1 = n
    BY <1>1
  <2> QED
    BY <1>2, <2>1 DEF IsRun
<1>4. ASSUME NEW k \in 1 .. n
      PROVE  /\ h[k] = Joined(h[k - 1], One(lang, h[k - 1].sw, symbols[k]))
             /\ h[k - 1].sw \in Switches /\ symbols[k] \in Symbols
             /\ h[k].sw = IF symbols[k] = LetterShift THEN Letters
                          ELSE IF symbols[k] = DigitShift THEN Digits ELSE h[k - 1].sw
  <2>1. k \in 1 .. Len(symbols) + 1 - 1 /\ 1 + k - 1 = k /\ k - 1 \in 0 .. n
    BY <1>1
  <2>2. h[k] = Joined(h[k - 1], One(lang, h[k - 1].sw, symbols[1 + k - 1]))
    BY <1>2, <2>1 DEF IsRun
  <2>3. h[k - 1].sw \in Switches
    BY <1>3, <2>1 DEF Typing
  <2>4. symbols[k] \in Symbols
    BY ElementOfSeq
  <2> DEFINE o == One(lang, h[k - 1].sw, symbols[k])
  <2>5. o.sw = IF symbols[k] = LetterShift THEN Letters
               ELSE IF symbols[k] = DigitShift THEN Digits ELSE h[k - 1].sw
    <3> DEFINE b == h[k - 1].sw
               s == symbols[k]
    <3>1. b \in Switches /\ s \in Symbols
      BY <2>3, <2>4
    <3> HIDE DEF b, s
    <3>2. One(lang, b, s).sw = IF s = LetterShift THEN Letters
                               ELSE IF s = DigitShift THEN Digits ELSE b
      BY <3>1, OneIs
    <3> QED
      BY <3>2 DEF b, s
  <2>6. h[k] = Joined(h[k - 1], o)
    BY <2>1, <2>2
  <2> HIDE DEF o
  <2>7. h[k].sw = o.sw
    <3> DEFINE a == h[k]
    <3>1. a = Joined(h[k - 1], o)
      BY <2>6
    <3> HIDE DEF a
    <3>2. a.sw = o.sw
      BY <3>1, JoinedIs
    <3> QED
      BY <3>2 DEF a
  <2> QED
    BY <2>3, <2>4, <2>5, <2>6, <2>7 DEF o
<1>5. X = {i \in 1 .. n : symbols[i] \in {LetterShift, DigitShift}}
  BY <1>1 DEF Shifts
<1> HIDE DEF X, n
<1>6. 0 \in T
  BY <1>1, <1>3, <1>5 DEF Start
<1>7. ASSUME NEW k \in 0 .. n - 1, k \in T PROVE k + 1 \in T
  <2> DEFINE m == k + 1
  <2>1. m \in 1 .. n /\ m - 1 = k /\ m \in 0 .. n /\ k \in 0 .. n /\ ~ (m <= k)
    BY <1>1
  <2>2. h[m].sw = IF symbols[m] = LetterShift THEN Letters
                  ELSE IF symbols[m] = DigitShift THEN Digits ELSE h[k].sw
    BY <1>4, <2>1
  <2>3. \A y \in X : y <= m <=> y <= k \/ y = m
    BY <1>5
  <2> HIDE DEF m
  <2>4. CASE m \in X
    <3>1. ASSUME NEW x \in X, Last(x, m) PROVE h[m].sw = Sets(x)
      <4>1. x = m
        BY <1>5, <2>1, <2>4, <3>1
      <4> QED
        BY <1>5, <2>2, <2>4, <4>1
    <3>2. ~ \A y \in X : ~ (y <= m)
      BY <2>1, <2>4
    <3> QED
      BY <2>1, <3>1, <3>2 DEF m
  <2>5. CASE m \notin X
    <3>1. h[m].sw = h[k].sw
      BY <1>5, <2>1, <2>2, <2>5
    <3>2. \A y \in X : y <= m <=> y <= k
      BY <2>3, <2>5
    <3>3. \A x \in X : Last(x, m) => h[m].sw = Sets(x)
      BY <1>7, <3>1, <3>2
    <3>4. (\A y \in X : ~ (y <= m)) => h[m].sw = sw
      BY <1>7, <3>1, <3>2
    <3> QED
      BY <2>1, <3>3, <3>4 DEF m
  <2> QED
    BY <2>4, <2>5
<1>8. n \in T
  <2>1. 0 \in Nat
    OBVIOUS
  <2> HIDE DEF T
  <2>2. 0 .. n \subseteq T
    BY <1>1, <1>6, <1>7, <2>1, Induction
  <2> QED
    BY <1>1, <2>2
<1>9. h[n].sw = SwitchAfter(sw, symbols)
  <2>1. CASE X = {}
    BY <1>8, <2>1 DEF SwitchAfter, X
  <2>2. CASE X # {}
    <3> DEFINE Rest == {n - x : x \in X}
    <3>1. Rest \in SUBSET Nat /\ Rest # {}
      BY <1>1, <1>5, <2>2
    <3>2. PICK f \in Rest : \A y \in Rest : f <= y
      <4> HIDE DEF Rest
      <4> QED
        BY <3>1, LeastElement
    <3>3. PICK x \in X : f = n - x
      BY <3>2
    <3>4. \A y \in X : x >= y
      <4>1. \A y \in X : n - y \in Rest /\ y \in Nat
        BY <1>5
      <4>2. \A y \in X : n - x <= n - y
        BY <3>2, <3>3, <4>1
      <4> QED
        BY <1>1, <1>5, <4>1, <4>2
    <3>5. Max(X) \in X /\ \A y \in X : Max(X) >= y
      BY <3>4 DEF Max
    <3> DEFINE z == Max(X)
    <3> HIDE DEF z
    <3>6. z \in X /\ \A y \in X : z >= y
      BY <3>5 DEF z
    <3>7. Last(z, n)
      BY <1>1, <1>5, <3>6
    <3>8. h[n].sw = Sets(z)
      BY <1>8, <3>6, <3>7
    <3>9. SwitchAfter(sw, symbols) = Sets(z)
      BY <2>2 DEF SwitchAfter, X, z
    <3> QED
      BY <3>8, <3>9
  <2> QED
    BY <2>1, <2>2
<1>10. Typed(lang, sw, symbols) = h[n]
  BY TypedIs DEF h, n
<1>11. h[n] \in Typing
  BY <1>1, <1>3
<1> QED
  BY <1>9, <1>10, <1>11

(* A page without shifts, of symbols that all have a glyph, is typed symbol *)
(* by symbol.                                                               *)
LEMMA PlainText ==
    ASSUME NEW lang \in Languages, NEW symbols \in Seq(Symbols), NEW sw \in Switches,
           \A i \in 1 .. Len(symbols) : /\ symbols[i] \notin {LetterShift, DigitShift}
                                        /\ Glyph(lang, sw, symbols[i]) # Nothing
    PROVE  /\ Len(Typed(lang, sw, symbols).text) = Len(symbols)
           /\ \A i \in 1 .. Len(symbols) :
                 Typed(lang, sw, symbols).text[i] = Glyph(lang, sw, symbols[i])
<1> DEFINE n == Len(symbols)
           h == Run(lang, symbols, 1, sw)
           G(i) == Glyph(lang, sw, symbols[i])
           T == {k \in 0 .. n : /\ h[k].sw = sw /\ Len(h[k].text) = k
                                /\ \A i \in 1 .. k : h[k].text[i] = G(i)}
<1>1. n \in Nat
  BY LenProperties
<1>2. IsRun(h, lang, symbols, 1, sw)
  BY <1>1, RunExists
<1> HIDE DEF h
<1>3. h \in [0 .. n -> Typing] /\ h[0] = Start(sw)
  <2>1. n + 1 - 1 = n
    BY <1>1
  <2> QED
    BY <1>2, <2>1 DEF IsRun
<1>4. 0 \in T
  BY <1>1, <1>3 DEF Start
<1>5. ASSUME NEW k \in 0 .. n - 1, k \in T PROVE k + 1 \in T
  <2> DEFINE m == k + 1
             o == One(lang, h[k].sw, symbols[m])
             t == h[k].text
             u == h[m].text
  <2>1. /\ m \in 1 .. Len(symbols) + 1 - 1 /\ 1 + m - 1 = m /\ m - 1 = k
        /\ m \in 1 .. n /\ k \in 0 .. n /\ m \in 0 .. n /\ k \in Nat
    BY <1>1
  <2>2. h[m] = Joined(h[k], o)
    <3> HIDE DEF m
    <3>1. h[m] = Joined(h[m - 1], One(lang, h[m - 1].sw, symbols[1 + m - 1]))
      BY <1>2, <2>1 DEF IsRun
    <3> QED
      BY <2>1, <3>1
  <2> HIDE DEF m
  <2>3. h[k].sw = sw /\ Len(t) = k /\ \A i \in 1 .. k : t[i] = G(i)
    BY <1>5
  <2>4. symbols[m] \in Symbols /\ symbols[m] \notin {LetterShift, DigitShift} /\ G(m) # Nothing
    BY <2>1, ElementOfSeq
  <2>5. o.sw = sw /\ o.text = << G(m) >> /\ o \in Typing
    <3> HIDE DEF G
    <3>1. Glyph(lang, sw, symbols[m]) = G(m)
      BY DEF G
    <3> DEFINE s == symbols[m]
    <3>2. o = One(lang, sw, s) /\ s \in Symbols
      BY <2>3, <2>4
    <3>3. s # LetterShift /\ s # DigitShift /\ Glyph(lang, sw, s) # Nothing
      BY <2>4, <3>1
    <3> HIDE DEF s, o
    <3>4. /\ One(lang, sw, s) \in Typing /\ One(lang, sw, s).sw = sw
          /\ One(lang, sw, s).text = << Glyph(lang, sw, s) >>
      BY <3>2, <3>3, OneIs
    <3> QED
      BY <3>1, <3>2, <3>4 DEF s
  <2> HIDE DEF o
  <2>6. h[m].sw = sw /\ u = t \o << G(m) >>
    <3> DEFINE a == h[m]
    <3>1. a = Joined(h[k], o)
      BY <2>2
    <3> HIDE DEF a
    <3>2. a.sw = o.sw /\ a.text = h[k].text \o o.text
      BY <3>1, JoinedIs
    <3> QED
      BY <2>5, <3>2 DEF a
  <2>7. t \in Seq(Glyphs) /\ << G(m) >> \in Seq(Glyphs)
    BY <1>3, <2>1, <2>5 DEF Typing
  <2> HIDE DEF t, u, G
  <2>8. /\ Len(t \o << G(m) >>) = k + 1
        /\ \A i \in 1 .. k + 1 : (t \o << G(m) >>)[i] = IF i <= k THEN t[i] ELSE G(m)
    <3> DEFINE last == << G(m) >>
    <3>1. Len(last) = 1 /\ last[1] = G(m)
      OBVIOUS
    <3>2. last \in Seq(Glyphs)
      BY <2>7
    <3> HIDE DEF last
    <3>3. /\ Len(t \o last) = Len(t) + Len(last)
          /\ \A i \in 1 .. Len(t) + Len(last) :
                (t \o last)[i] = IF i <= Len(t) THEN t[i] ELSE last[i - Len(t)]
      BY <2>7, <3>2, ConcatProperties
    <3>4. Len(t \o last) = k + 1
      BY <2>3, <3>1, <3>3
    <3>5. ASSUME NEW i \in 1 .. k + 1 PROVE (t \o last)[i] = IF i <= k THEN t[i] ELSE G(m)
      <4>1. CASE i <= k
        BY <2>1, <2>3, <3>1, <3>3, <4>1
      <4>2. CASE ~ (i <= k)
        <5>1. i - Len(t) = 1 /\ i \in 1 .. Len(t) + Len(last) /\ ~ (i <= Len(t))
          BY <2>1, <2>3, <3>1, <4>2
        <5> QED
          BY <3>1, <3>3, <4>2, <5>1
      <4> QED
        BY <4>1, <4>2
    <3> QED
      BY <3>4, <3>5 DEF last
  <2>9. Len(u) = m /\ \A i \in 1 .. m : u[i] = G(i)
    <3>1. m = k + 1
      BY DEF m
    <3>2. ASSUME NEW i \in 1 .. m PROVE u[i] = G(i)
      <4>1. CASE i <= k
        BY <2>1, <2>3, <2>6, <2>8, <3>1, <4>1
      <4>2. CASE ~ (i <= k)
        <5>1. i = m
          BY <2>1, <3>1, <4>2
        <5> QED
          BY <2>6, <2>8, <3>1, <4>2, <5>1
      <4> QED
        BY <4>1, <4>2
    <3> QED
      BY <2>6, <2>8, <3>1, <3>2
  <2> QED
    BY <2>1, <2>6, <2>9 DEF m, u
<1>6. n \in T
  <2>1. 0 \in Nat
    OBVIOUS
  <2> HIDE DEF T, n
  <2>2. 0 .. n \subseteq T
    BY <1>1, <1>4, <1>5, <2>1, Induction
  <2> QED
    BY <1>1, <2>2
<1>7. Typed(lang, sw, symbols) = h[n]
  BY TypedIs DEF h
<1> QED
  BY <1>6, <1>7

-----------------------------------------------------------------------------
(* What was put out before does not change what a step puts out.            *)
LEMMA AppendedPart ==
    ASSUME NEW V, NEW s \in Seq(V), NEW t \in Seq(V)
    PROVE  /\ s \o t \in Seq(V) /\ Len(s \o t) = Len(s) + Len(t)
           /\ SubSeq(s \o t, Len(s) + 1, Len(s \o t)) = t
<1> DEFINE u == s \o t
           m == Len(s) + 1
           n == Len(u)
           r == SubSeq(u, m, n)
<1>1. /\ u \in Seq(V) /\ Len(u) = Len(s) + Len(t)
      /\ \A i \in 1 .. Len(s) + Len(t) : u[i] = IF i <= Len(s) THEN s[i] ELSE t[i - Len(s)]
  BY ConcatProperties
<1>2. Len(s) \in Nat /\ Len(t) \in Nat
  BY LenProperties
<1>3. m \in Int /\ n \in Int /\ n - m + 1 = Len(t) /\ \A i \in m .. n : u[i] \in V
  <2>1. \A i \in 1 .. Len(u) : u[i] \in V
    BY <1>1, ElementOfSeq
  <2> HIDE DEF u
  <2>2. \A i \in m .. n : i \in 1 .. Len(u)
    BY <1>1, <1>2
  <2> QED
    BY <1>1, <1>2, <2>1, <2>2
<1> HIDE DEF u, m, n
<1>4. /\ r \in Seq(V) /\ Len(r) = IF m <= n THEN n - m + 1 ELSE 0
      /\ \A i \in 1 .. n - m + 1 : r[i] = u[m + i - 1]
  BY <1>3, SubSeqProperties
<1>5. Len(r) = Len(t)
  BY <1>2, <1>3, <1>4
<1> HIDE DEF r
<1>6. ASSUME NEW i \in 1 .. Len(r) PROVE r[i] = t[i]
  <2> DEFINE j == m + i - 1
  <2>1. j \in 1 .. Len(s) + Len(t) /\ ~ (j <= Len(s)) /\ j - Len(s) = i
    BY <1>2, <1>5 DEF m
  <2>2. r[i] = u[j]
    BY <1>3, <1>4, <1>5
  <2> HIDE DEF j
  <2>3. u[j] = t[j - Len(s)]
    BY <1>1, <2>1
  <2> QED
    BY <2>1, <2>2, <2>3
<1>7. r = t
  BY <1>4, <1>5, <1>6, SeqEqual
<1> QED
  BY <1>1, <1>7 DEF r, u, m, n

(* The operands of -00 tell the device.                                     *)
LEMMA DeviceOfCode ==
    ASSUME op_minus00
    PROVE  /\ OtherTrits(A) = 27 => Punch_Commands
           /\ OtherTrits(A) = -27 => Punch_Symbols
           /\ OtherTrits(A) = 9 => Print_Commands
           /\ OtherTrits(A) \in {-9, 18} => Print_Symbols
<1>1. \A code : InputOutput(code) => OtherTrits(A) = code
  BY DEF InputOutput
<1>2. No_Device => OtherTrits(A) \notin {27, -27, 9, -9, 18}
  BY DEF No_Device, DeviceCodes
<1>3. Punch_Commands => OtherTrits(A) = 27
  BY <1>1 DEF Punch_Commands
<1>4. Punch_Symbols => OtherTrits(A) = -27
  BY <1>1 DEF Punch_Symbols
<1>5. Print_Commands => OtherTrits(A) = 9
  BY <1>1 DEF Print_Commands
<1>6. Print_Symbols => OtherTrits(A) \in {-9, 18}
  BY <1>1 DEF Print_Symbols
<1>7. Commands_FT1 \/ Commands_FT2 \/ Symbols_FT1 \/ Symbols_FT2
        => OtherTrits(A) \in {1, 3, -1, -3}
  BY <1>1 DEF Commands_FT1, Commands_FT2, Symbols_FT1, Symbols_FT2
<1> QED
  BY <1>2, <1>3, <1>4, <1>5, <1>6, <1>7 DEF op_minus00

(* A page printed as commands: the groups of its words, line by line.       *)
LEMMA CommandSymbolsIs ==
    ASSUME NEW words \in [Places -> ShortWord]
    PROVE  /\ CommandSymbols(words) \in Seq(Symbols)
           /\ Len(CommandSymbols(words)) = LineLength * SIZE_ZONE_TRIT_FRAM
           /\ \A p \in 1 .. LineLength * SIZE_ZONE_TRIT_FRAM :
                 CommandSymbols(words)[p] \in Pairs \cup {NewLine}
           /\ \A i \in Places : /\ CommandSymbols(words)[LineLength * (i + 1)] = NewLine
                                /\ \A j \in 0 .. CommandFrames - 1 :
                                      CommandSymbols(words)[LineLength * i + CommandFrames - j]
                                         = Group(words[i], 2, j)
<1> DEFINE size == SIZE_ZONE_TRIT_FRAM
           n == LineLength
           c == CommandFrames
           all == n * size
           at(p) == IF p % n = 0 THEN NewLine
                    ELSE Group(words[(p - 1) \div n], 2, c - (p % n))
           s == [p \in 1 .. all |-> at(p)]
<1>1. /\ c \in 4 .. 5 /\ c \in 1 .. 17 /\ n = c + 1 /\ n \in 1 .. 6 /\ n \in Nat \ {0}
      /\ size \in Nat \ {0} /\ 2 * (c - 1) < SW /\ SW <= 2 * c /\ Places = 0 .. size - 1
  BY FrameSizes DEF LineLength, Places
<1>2. CommandSymbols(words) = s
  BY DEF CommandSymbols, LineLength
<1> HIDE DEF size, n, c
<1>3. ASSUME NEW i \in Places, NEW j \in 0 .. c - 1 PROVE Group(words[i], 2, j) \in Pairs
  <2>1. 2 \in 1 .. 3 /\ words[i] \in ShortWord
    OBVIOUS
  <2> QED
    BY <1>1, <2>1, GroupsMakeWord, FramesComeBack
<1>4. all \in Nat
  BY <1>1
<1> HIDE DEF all
<1>5. ASSUME NEW p \in 1 .. all PROVE at(p) \in Pairs \cup {NewLine}
  <2> DEFINE i == (p - 1) \div n
             m == p % n
  <2>1. i \in Places
    <3>1. p \in 1 .. n * size
      BY DEF all
    <3>2. size \in Nat
      BY <1>1
    <3> QED
      BY <1>1, <3>1, <3>2, PlaceOfGroup
  <2>2. m \in 0 .. c
    BY <1>1
  <2> HIDE DEF i, m
  <2>3. m # 0 => c - m \in 0 .. c - 1
    BY <1>1, <2>2
  <2>4. m # 0 => Group(words[i], 2, c - m) \in Pairs
    BY <1>3, <2>1, <2>3
  <2> QED
    BY <2>4 DEF i, m
<1>6. s \in Seq(Symbols) /\ Len(s) = all
  <2>1. Pairs \cup {NewLine} \subseteq Symbols
    BY DEF Pairs, Symbols, NewLine
  <2> HIDE DEF at
  <2>2. \A p \in 1 .. all : at(p) \in Symbols
    BY <1>5, <2>1
  <2> QED
    BY <1>4, <2>2
<1>7. ASSUME NEW i \in Places
      PROVE  /\ s[n * (i + 1)] = NewLine
             /\ n * (i + 1) \in 1 .. all
  <2> DEFINE p == n * (i + 1)
  <2>1. p = n * i + n /\ n * i \in Nat /\ p <= all /\ p >= 1
    <3>1. i \in Nat /\ i + 1 <= size
      BY <1>1
    <3>2. n * (i + 1) <= n * size
      BY <1>1, <3>1
    <3> QED
      BY <1>1, <3>1, <3>2 DEF all
  <2>2. p % n = 0
    <3>1. i + 1 \in Int /\ 0 \in 0 .. n - 1 /\ (i + 1) * n + 0 = p
      BY <1>1
    <3>2. ((i + 1) * n + 0) % n = 0
      BY <1>1, <3>1, DivMod
    <3> QED
      BY <3>1, <3>2
  <2> HIDE DEF p
  <2>3. p \in 1 .. all
    BY <1>1, <1>4, <2>1
  <2>4. s[p] = NewLine
    BY <2>2, <2>3
  <2> QED
    BY <2>3, <2>4 DEF p
<1>8. ASSUME NEW i \in Places, NEW j \in 0 .. c - 1
      PROVE  s[n * i + c - j] = Group(words[i], 2, j)
  <2> DEFINE m == c - j
             p == i * n + m
  <2>1. m \in 1 .. c /\ m \in 0 .. n - 1 /\ m - 1 \in 0 .. n - 1 /\ c - m = j /\ m # 0
    BY <1>1
  <2>2. i \in Int /\ i \in Nat
    BY <1>1
  <2> HIDE DEF m
  <2>3. p % n = m
    BY <1>1, <2>1, <2>2, DivMod
  <2>4. (p - 1) \div n = i
    <3> DEFINE x == m - 1
    <3>1. x \in 0 .. n - 1 /\ p - 1 = i * n + x
      BY <1>1, <2>1, <2>2
    <3> HIDE DEF x, p
    <3>2. (i * n + x) \div n = i
      BY <1>1, <2>2, <3>1, DivMod
    <3> QED
      BY <3>1, <3>2
  <2>5. p \in 1 .. all
    <3>1. n * (i + 1) = i * n + n /\ i * n \in Nat
      BY <1>1, <2>2
    <3> DEFINE q == n * (i + 1)
    <3>2. q \in 1 .. all
      BY <1>7
    <3>3. q = i * n + n
      BY <3>1
    <3> HIDE DEF q
    <3> QED
      BY <1>1, <1>4, <2>1, <3>1, <3>2, <3>3
  <2>6. n * i + c - j = p
    BY <1>1, <2>2 DEF m
  <2> HIDE DEF p
  <2>7. s[p] = Group(words[i], 2, j)
    BY <2>1, <2>3, <2>4, <2>5
  <2> QED
    BY <2>6, <2>7
<1> HIDE DEF s, at
<1>9. \A p \in 1 .. all : s[p] \in Pairs \cup {NewLine}
  BY <1>5 DEF s
<1> QED
  BY <1>2, <1>6, <1>7, <1>8, <1>9 DEF n, c, size, all

-----------------------------------------------------------------------------
(***************************************************************************)
(* What has been punched and typed is a tape and a text.                   *)
(***************************************************************************)
Output == ptp1 \in Tape /\ tty1 \in Seq(Glyphs)

(* The page an instruction puts out.                                        *)
LEMMA PageType == ASSUME TypeOK PROVE Page \in [Places -> ShortWord]
  BY OperandTypes, AddressParts, LoadRunCells DEF Page, TypeOK

(* The two switches of the typewriter have their values.                   *)
LEMMA SwitchTypes ==
    ASSUME TypeOK
    PROVE  russian_latin_sw \in Languages /\ letter_number_sw \in Switches /\ Digits \in Switches
  BY DEF TypeOK, Languages, Switches

(* An instruction other than -00 leaves the devices alone.                  *)
LEMMA DevicesKept ==
    ASSUME Emu_Step, ~ op_minus00 PROVE UNCHANGED devices
<1>1. CASE \/ op_plus00 \/ op_plus0plus \/ op_plus0minus
           \/ op_plusplus0 \/ op_plusplusplus \/ op_plusplusminus
           \/ op_plusminus0 \/ op_plusminusplus \/ op_plusminusminus
  BY <1>1 DEF op_plus00, op_plus0plus, op_plus0minus, op_plusplus0, op_plusplusplus,
              op_plusplusminus, op_plusminus0, op_plusminusplus, op_plusminusminus
<1>2. CASE op_0plus0 \/ op_0plusplus \/ op_0plusminus \/ op_000
  BY <1>2 DEF op_0plus0, op_0plusplus, op_0plusminus, op_000, Jump
<1>3. CASE \/ op_minusplus0 \/ op_minusplusplus \/ op_minusplusminus
           \/ op_minus0plus \/ op_minus0minus \/ op_error
           \/ op_00plus \/ op_00minus \/ op_0minus0 \/ op_0minusplus \/ op_0minusminus
  BY <1>3 DEF op_minusplus0, op_minusplusplus, op_minusplusminus, op_minus0plus,
              op_minus0minus, op_error, op_00plus, op_00minus, op_0minus0,
              op_0minusplus, op_0minusminus
<1> QED
  BY <1>1, <1>2, <1>3 DEF Emu_Step

(* A step keeps what is put out a tape and a text.                         *)
LEMMA OutputStays ==
    ASSUME TypeOK, Output, [Next]_vars PROVE Output'
<1>1. <<>> \in Tape /\ <<>> \in Seq(Glyphs)
  BY EmptySeq DEF Tape
<1>2. CASE UNCHANGED << ptp1, tty1 >>
  BY <1>2 DEF Output
<1>3. CASE Operator
  <2>1. CASE Emu_Open_Files \/ Emu_Begin
    BY <1>1, <2>1 DEF Output, Emu_Open_Files, Emu_Begin
  <2>2. CASE reg_cmd \/ dump_cmd \/ prn_cmd
    BY <1>2, <2>2 DEF reg_cmd, dump_cmd, prn_cmd, devices
  <2> QED
    BY <1>3, <2>1, <2>2 DEF Operator
<1>4. CASE op_minus00
  <2>1. CASE Commands_FT1 \/ Commands_FT2 \/ Symbols_FT1 \/ Symbols_FT2 \/ No_Device
    BY <1>2, <2>1 DEF Commands_FT1, Commands_FT2, Symbols_FT1, Symbols_FT2, Reads,
                      No_Device, devices
  <2>2. ASSUME NEW frames \in Tape, Punches(frames) PROVE Output'
    <3>1. ptp1 \o frames \in Tape
      BY <2>2, ConcatProperties DEF Output, Tape
    <3> QED
      BY <2>2, <3>1 DEF Punches, Output
  <2>3. ASSUME NEW sw \in Switches, NEW symbols \in Seq(Symbols), Types(sw, symbols) PROVE Output'
    <3> DEFINE t == Typed(russian_latin_sw, sw, symbols)
    <3>1. t \in Typing
      BY <2>3, SwitchTypes, SwitchOfTyped
    <3>2. tty1' = IF opened THEN tty1 \o t.text ELSE tty1
      BY <2>3 DEF Types
    <3> HIDE DEF t
    <3>3. tty1 \o t.text \in Seq(Glyphs)
      BY <3>1, ConcatProperties DEF Output, Typing
    <3> QED
      BY <2>3, <3>2, <3>3 DEF Types, Output
  <2>4. CASE Punch_Commands \/ Punch_Symbols
    BY <2>2, <2>4, PageType, PunchedCommands, PunchedSymbols DEF Punch_Commands, Punch_Symbols
  <2>5. CASE Print_Commands \/ Print_Symbols
    BY <2>3, <2>5, PageType, SwitchTypes, CommandSymbolsIs, SymbolsOfPage
       DEF Print_Commands, Print_Symbols
  <2> QED
    BY <1>4, <2>1, <2>4, <2>5 DEF op_minus00
<1>5. CASE Emu_Step /\ ~ op_minus00
  BY <1>2, <1>5, DevicesKept DEF devices
<1>6. CASE UNCHANGED vars
  BY <1>2, <1>6 DEF vars, devices
<1> QED
  BY <1>3, <1>4, <1>5, <1>6 DEF Next

(* What is put out is always a tape and a text.                            *)
LEMMA OutputType == Spec => []Output
<1>1. Init => Output
  BY EmptySeq DEF Init, Output, Tape
<1>2. TypeOK /\ Output /\ [Next]_vars => Output'
  BY OutputStays
<1> QED
  BY <1>1, <1>2, TypeCorrect, PTL DEF Spec

(* What is punched from a page is read as that page.                        *)
THEOREM PunchReads == Spec => PunchReadsBack
<1>1. TypeOK /\ Output /\ [Next]_vars =>
        [ Step({-9}) /\ opened =>
          /\ OtherTrits(A) = 27 =>
                Read_Commands_from_FT1(Punched).words = Page
          /\ OtherTrits(A) = -27 =>
                LET n == BeforeStop(Page)
                IN  /\ Len(Punched) = SymbolFrames * n
                                      + IF n < SIZE_ZONE_TRIT_FRAM THEN 2 ELSE 0
                    /\ \A i \in 0 .. n - 1 :
                          Read_Symbols_from_FT1(Punched).words[i] = Page[i] ]_vars
  <2> DEFINE n == BeforeStop(Page)
  <2> SUFFICES ASSUME TypeOK, Output, Next, Step({-9}), opened
               PROVE  /\ OtherTrits(A) = 27 =>
                            Read_Commands_from_FT1(Punched).words = Page
                      /\ OtherTrits(A) = -27 =>
                            /\ Len(Punched) = SymbolFrames * n
                                              + IF n < SIZE_ZONE_TRIT_FRAM THEN 2 ELSE 0
                            /\ \A i \in 0 .. n - 1 :
                                  Read_Symbols_from_FT1(Punched).words[i] = Page[i]
    BY DEF Step
  <2>1. op_minus00
    BY CountedStep, CodeOfStep DEF Step
  <2>2. Page \in [Places -> ShortWord]
    BY PageType
  <2>3. ASSUME NEW frames \in Tape, ptp1' = ptp1 \o frames PROVE Punched = frames
    <3>1. /\ ptp1 \o frames \in Tape /\ Len(ptp1 \o frames) = Len(ptp1) + Len(frames)
          /\ SubSeq(ptp1 \o frames, Len(ptp1) + 1, Len(ptp1 \o frames)) = frames
      BY <2>3, AppendedPart DEF Output, Tape
    <3>2. Len(ptp1) \in Nat /\ Len(frames) \in Nat
      BY <2>3, LenProperties DEF Output, Tape
    <3>3. CASE Len(frames) = 0
      <4>1. frames = <<>>
        BY <3>3, EmptySeq DEF Tape
      <4>2. Len(ptp1) + 1 \notin 1 .. Len(ptp1 \o frames)
        BY <3>1, <3>2, <3>3
      <4> QED
        BY <2>3, <4>1, <4>2 DEF Punched, From
    <3>4. CASE Len(frames) # 0
      <4>1. Len(ptp1) + 1 \in 1 .. Len(ptp1 \o frames)
        BY <3>1, <3>2, <3>4
      <4> QED
        BY <2>3, <3>1, <4>1 DEF Punched, From
    <3> QED
      BY <3>3, <3>4
  <2>4. CASE OtherTrits(A) = 27
    <3>1. Punch_Commands
      BY <2>1, <2>4, DeviceOfCode
    <3>2. ptp1' = ptp1 \o Perforation_Commands(Page)
      BY <3>1 DEF Punch_Commands, Punches
    <3>3. /\ Perforation_Commands(Page) \in Tape
          /\ Read_Commands_from_FT1(Perforation_Commands(Page)).words = Page
      BY <2>2, PunchedCommands
    <3>4. Punched = Perforation_Commands(Page)
      BY <2>3, <3>2, <3>3
    <3> QED
      BY <2>4, <3>3, <3>4
  <2>5. CASE OtherTrits(A) = -27
    <3>1. Punch_Symbols
      BY <2>1, <2>5, DeviceOfCode
    <3>2. ptp1' = ptp1 \o Perforation_Symbols(Page)
      BY <3>1 DEF Punch_Symbols, Punches
    <3>3. /\ Perforation_Symbols(Page) \in Tape
          /\ Len(Perforation_Symbols(Page)) = SymbolCount(Page)
          /\ \A i \in 0 .. n - 1 :
                Read_Symbols_from_FT1(Perforation_Symbols(Page)).words[i] = Page[i]
      BY <2>2, PunchedSymbols
    <3>4. Punched = Perforation_Symbols(Page)
      BY <2>3, <3>2, <3>3
    <3>5. SymbolCount(Page) = SymbolFrames * n + IF n < SIZE_ZONE_TRIT_FRAM THEN 2 ELSE 0
      BY SymbolCountIs, FrameSizes
    <3> QED
      BY <2>5, <3>3, <3>4, <3>5
  <2> QED
    BY <2>4, <2>5
<1> QED
  BY <1>1, TypeCorrect, OutputType, PTL DEF Spec, PunchReadsBack

-----------------------------------------------------------------------------
(* The glyphs of nonary digits are digits of a source file.                 *)
LEMMA NonaryGlyphs ==
    /\ \A s \in Pairs : /\ Glyph(Latin, Digits, s) # Nothing
                        /\ Digit(Glyph(Latin, Digits, s)) = s
    /\ Glyph(Latin, Digits, NewLine) = Line_end(Latin) /\ Line_end(Latin) # Nothing
    /\ \A s \in Pairs \cup {NewLine} : s \notin {LetterShift, DigitShift}
<1> DEFINE rows == << "-", "?", "", "/", ".", "x", "+", "V", "W", "X",
                      "Y", "Z", "O", "1", "2", "3", "4", "5", "6",
                      "7", "8", "9", " ", "", "", ")" >>
<1>1. \A s \in Pairs : s \in -12 .. 13 /\ s # NewLine /\ s \notin {LetterShift, DigitShift}
  BY DEF Pairs, NewLine, LetterShift, DigitShift
<1>2. NewLine \notin {LetterShift, DigitShift} /\ NewLine \in -12 .. 13
  BY DEF NewLine, LetterShift, DigitShift
<1>3. \A s \in Pairs : Glyph(Latin, Digits, s) = latin_numbers[s]
  BY <1>1 DEF Glyph, Latin, Russian, Letters, Digits
<1>4. latin_numbers = TableFrom(-12, rows)
  BY Zenon DEF latin_numbers
<1>5. Len(rows) = 26
  BY Zenon
<1>6. /\ rows[9] = "W" /\ rows[10] = "X" /\ rows[11] = "Y" /\ rows[12] = "Z" /\ rows[13] = "O"
      /\ rows[14] = "1" /\ rows[15] = "2" /\ rows[16] = "3" /\ rows[17] = "4"
  BY Zenon
<1> HIDE DEF rows
<1>7. \A s \in Pairs : latin_numbers[s] = rows[s + 13] /\ s + 13 \in 9 .. 17
  BY <1>4, <1>5 DEF TableFrom, Pairs
<1>8. \A i \in 9 .. 17 : Digit(rows[i]) = i - 13
  BY <1>6 DEF Digit, lt2symtrs
<1>9. \A i \in 9 .. 17 : rows[i] # Nothing
  <2>1. /\ rows[9] # Nothing /\ rows[10] # Nothing /\ rows[11] # Nothing /\ rows[12] # Nothing
        /\ rows[13] # Nothing /\ rows[14] # Nothing /\ rows[15] # Nothing
        /\ rows[16] # Nothing /\ rows[17] # Nothing
    BY <1>6, Zenon DEF Nothing
  <2> QED
    BY <2>1
<1>10. \A s \in Pairs : latin_numbers[s] # Nothing /\ Digit(latin_numbers[s]) = s
  BY <1>7, <1>8, <1>9 DEF Pairs
<1>11. Glyph(Latin, Digits, NewLine) = Line_end(Latin)
  BY <1>2 DEF Glyph
<1>12. Line_end(Latin) # Nothing
  BY DEF Line_end, Latin, Russian, Nothing
<1> QED
  BY <1>1, <1>2, <1>3, <1>10, <1>11, <1>12

(* A line of nonary digits spells its word.                                 *)
LEMMA LineIsWord ==
    ASSUME NEW w \in ShortWord, NEW line,
           \A j \in 0 .. CommandFrames - 1 :
               line[CommandFrames - j] = Glyph(Latin, Digits, Group(w, 2, j))
    PROVE  NonaryWord(line) = w
<1> DEFINE c == CommandFrames
           f == [j \in 0 .. c - 1 |-> Digit(line[c - j]) * pow3(2 * j)]
           g == [j \in 0 .. c - 1 |-> Group(w, 2, j) * pow3(2 * j)]
<1>1. /\ c \in 1 .. 17 /\ c \in Widths /\ 2 \in 1 .. 3
      /\ 2 * (c - 1) < SW /\ SW <= 2 * c
  BY FrameSizes DEF Widths
<1>2. /\ mod_3_n(GroupSum(w, 2, c), SW) = w
      /\ \A j \in 0 .. c - 1 : Group(w, 2, j) \in Word(2)
  <2> HIDE DEF c
  <2> QED
    BY <1>1, GroupsMakeWord
<1>3. ASSUME NEW j \in 0 .. c - 1 PROVE Digit(line[c - j]) = Group(w, 2, j)
  BY <1>2, NonaryGlyphs, FramesComeBack
<1>4. \A j \in 0 .. c - 1 : f[j] = g[j]
  BY <1>3
<1>5. SumTo(f, c) = SumTo(g, c)
  <2> HIDE DEF f, g, c
  <2> QED
    BY <1>1, <1>4, SumSame
<1> QED
  BY <1>2, <1>5 DEF NonaryWord, GroupSum

(* What is printed as commands reads as the page.                           *)
THEOREM PrintReads == Spec => PrintedCommandsReadBack
<1>1. TypeOK /\ Output /\ [Next]_vars =>
        [ Step({-9}) /\ opened /\ OtherTrits(A) = 9 /\ russian_latin_sw = Latin =>
            /\ Len(TypedNow) = LineLength * SIZE_ZONE_TRIT_FRAM
            /\ \A i \in Places :
                  /\ NonaryWord(SubSeq(TypedNow, LineLength * i + 1,
                                       LineLength * (i + 1))) = Page[i]
                  /\ TypedNow[LineLength * (i + 1)] = Line_end(Latin) ]_vars
  <2> DEFINE all     == LineLength * SIZE_ZONE_TRIT_FRAM
             symbols == CommandSymbols(Page)
             text    == Typed(Latin, Digits, symbols).text
  <2> SUFFICES ASSUME TypeOK, Output, Next, Step({-9}), opened, OtherTrits(A) = 9,
                      russian_latin_sw = Latin
               PROVE  /\ Len(TypedNow) = all
                      /\ \A i \in Places :
                            /\ NonaryWord(SubSeq(TypedNow, LineLength * i + 1,
                                                 LineLength * (i + 1))) = Page[i]
                            /\ TypedNow[LineLength * (i + 1)] = Line_end(Latin)
    BY DEF Step
  <2>1. tty1' = tty1 \o text
    <3>1. op_minus00
      BY CountedStep, CodeOfStep DEF Step
    <3>2. Print_Commands
      BY <3>1, DeviceOfCode
    <3> QED
      BY <3>2 DEF Print_Commands, Types
  <2>2. Page \in [Places -> ShortWord] /\ Latin \in Languages /\ Digits \in Switches
    BY PageType, SwitchTypes DEF Languages
  <2>3. /\ symbols \in Seq(Symbols) /\ Len(symbols) = all
        /\ \A p \in 1 .. all : symbols[p] \in Pairs \cup {NewLine}
        /\ \A i \in Places : /\ symbols[LineLength * (i + 1)] = NewLine
                             /\ \A j \in 0 .. CommandFrames - 1 :
                                   symbols[LineLength * i + CommandFrames - j]
                                      = Group(Page[i], 2, j)
    BY <2>2, CommandSymbolsIs
  <2>4. Typed(Latin, Digits, symbols) \in Typing
    BY <2>2, <2>3, SwitchOfTyped
  <2> HIDE DEF symbols
  <2>5. Len(text) = all /\ \A p \in 1 .. all : text[p] = Glyph(Latin, Digits, symbols[p])
    <3>1. \A p \in 1 .. Len(symbols) : /\ symbols[p] \notin {LetterShift, DigitShift}
                                       /\ Glyph(Latin, Digits, symbols[p]) # Nothing
      BY <2>3, NonaryGlyphs
    <3> QED
      BY <2>2, <2>3, <3>1, PlainText
  <2>6. text \in Seq(Glyphs)
    BY <2>4 DEF Typing
  <2> HIDE DEF text
  <2>7. TypedNow = text
    BY <2>1, <2>6, AppendedPart DEF Output, TypedNow
  <2> HIDE DEF all
  <2>8. ASSUME NEW i \in Places
        PROVE  /\ NonaryWord(SubSeq(text, LineLength * i + 1, LineLength * (i + 1))) = Page[i]
               /\ text[LineLength * (i + 1)] = Line_end(Latin)
    <3> DEFINE first == LineLength * i + 1
               last  == LineLength * (i + 1)
               line  == SubSeq(text, first, last)
    <3>1. /\ first \in Int /\ last \in Int /\ 1 <= first /\ last <= all
          /\ last = first + CommandFrames /\ CommandFrames \in 4 .. 5 /\ all \in Nat
      <4>1. /\ LineLength = CommandFrames + 1 /\ CommandFrames \in 4 .. 5
            /\ SIZE_ZONE_TRIT_FRAM \in Nat /\ i \in Nat /\ i + 1 <= SIZE_ZONE_TRIT_FRAM
        BY FrameSizes DEF LineLength, Places
      <4>2. LineLength * (i + 1) = LineLength * i + LineLength /\ LineLength * i \in Nat
        BY <4>1
      <4>3. LineLength * (i + 1) <= LineLength * SIZE_ZONE_TRIT_FRAM
        BY <4>1
      <4>4. LineLength * SIZE_ZONE_TRIT_FRAM \in Nat
        BY <4>1
      <4> QED
        BY <4>1, <4>2, <4>3, <4>4 DEF all
    <3>2. text[last] = Line_end(Latin)
      <4>1. symbols[last] = NewLine
        BY <2>3
      <4> HIDE DEF last
      <4>2. last \in 1 .. all
        BY <3>1
      <4> QED
        BY <2>5, <4>1, <4>2, NonaryGlyphs
    <3>3. ASSUME NEW j \in 0 .. CommandFrames - 1
          PROVE  symbols[first + CommandFrames - j - 1] = Group(Page[i], 2, j)
      <4>1. LineLength * i + CommandFrames - j = first + CommandFrames - j - 1
        <5>1. LineLength * i \in Int
          BY <3>1 DEF LineLength, Places
        <5> QED
          BY <3>1, <5>1
      <4> QED
        BY <2>3, <4>1
    <3>4. \A p \in first .. last : text[p] \in Glyphs
      <4> HIDE DEF first, last
      <4>1. \A p \in first .. last : p \in 1 .. Len(text)
        BY <2>5, <3>1
      <4> QED
        BY <2>6, <4>1, ElementOfSeq
    <3> HIDE DEF first, last
    <3>5. \A p \in 1 .. last - first + 1 : line[p] = text[first + p - 1]
      BY <3>1, <3>4, SubSeqProperties
    <3> HIDE DEF line
    <3>6. ASSUME NEW j \in 0 .. CommandFrames - 1
          PROVE  line[CommandFrames - j] = Glyph(Latin, Digits, Group(Page[i], 2, j))
      <4> DEFINE p == CommandFrames - j
                 q == first + p - 1
      <4>1. p \in 1 .. last - first + 1 /\ q \in 1 .. all
        BY <3>1
      <4>2. q = first + CommandFrames - j - 1
        BY <3>1
      <4>3. symbols[q] = Group(Page[i], 2, j)
        BY <3>3, <4>2
      <4>4. line[p] = text[q]
        BY <3>5, <4>1
      <4> HIDE DEF p, q
      <4>5. line[p] = Glyph(Latin, Digits, Group(Page[i], 2, j))
        BY <2>5, <4>1, <4>3, <4>4
      <4> QED
        BY <4>5 DEF p
    <3>7. Page[i] \in ShortWord
      BY <2>2
    <3>8. NonaryWord(line) = Page[i]
      BY <3>6, <3>7, LineIsWord
    <3> QED
      BY <3>2, <3>8 DEF line, first, last
  <2> QED
    BY <2>5, <2>7, <2>8
<1> QED
  BY <1>1, TypeCorrect, OutputType, PTL DEF Spec, PrintedCommandsReadBack

-----------------------------------------------------------------------------
(***************************************************************************)
(* A tape from the loader reads back page by page.  First: a sequence      *)
(* joined of others has each of them in its place.                         *)
(***************************************************************************)
\* f[1] to f[n] lie in s one after the other, f[k] behind position at[k - 1].
Joins(s, at, f, n, V) ==
    /\ s \in Seq(V) /\ Len(s) = at[n]
    /\ \A k \in 1 .. n : \A x \in 1 .. Len(f[k]) : s[at[k - 1] + x] = f[k][x]

IsOffset(at, f, n) ==
    /\ at \in [0 .. n -> Nat] /\ at[0] = 0
    /\ \A k \in 1 .. n : at[k] = at[k - 1] + Len(f[k])

(* The places of the sequences are the sums of their lengths.              *)
LEMMA OffsetExists ==
    ASSUME NEW V, NEW n \in Nat, NEW f \in [1 .. n -> Seq(V)]
    PROVE  \E at : IsOffset(at, f, n)
<1> DEFINE step == [k \in 1 .. n |-> [v \in Nat |-> v + Len(f[k])]]
<1>1. 0 \in Nat /\ n \in Nat /\ 0 <= n
  OBVIOUS
<1>2. Steps(0, n, Nat, step)
  <2>1. ASSUME NEW k \in 0 + 1 .. n, NEW v \in Nat PROVE step[k][v] \in Nat
    <3>1. k \in 1 .. n /\ Len(f[k]) \in Nat
      BY LenProperties
    <3> QED
      BY <3>1
  <2> QED
    BY <2>1 DEF Steps
<1>3. Solvable(0, n, Nat, 0, step)
  <2> HIDE DEF step
  <2> QED
    BY <1>1, <1>2, RecursionHasSolution
<1>4. PICK at \in [0 .. n -> Nat] :
         at[0] = 0 /\ \A k \in 0 + 1 .. n : at[k] = step[k][at[k - 1]]
  BY <1>3 DEF Solvable
<1>5. ASSUME NEW k \in 1 .. n PROVE at[k] = at[k - 1] + Len(f[k])
  <2>1. k \in 0 + 1 .. n /\ at[k - 1] \in Nat
    OBVIOUS
  <2> QED
    BY <1>4, <2>1
<1> QED
  BY <1>4, <1>5 DEF IsOffset

(* A later one lies behind an earlier one.                                 *)
LEMMA OffsetsGrow ==
    ASSUME NEW V, NEW n \in Nat, NEW f \in [1 .. n -> Seq(V)], NEW at, IsOffset(at, f, n),
           NEW i \in 0 .. n, NEW j \in i .. n
    PROVE  at[i] <= at[j]
<1> DEFINE T == {k \in i .. n : at[i] <= at[k]}
<1>1. at \in [0 .. n -> Nat] /\ i \in Nat /\ i \in 0 .. n
  BY DEF IsOffset
<1>2. i \in T
  BY <1>1
<1>3. ASSUME NEW k \in i .. n - 1, k \in T PROVE k + 1 \in T
  <2> DEFINE m == k + 1
  <2>1. m \in 1 .. n /\ m - 1 = k /\ k \in 0 .. n /\ m \in 0 .. n /\ m \in i .. n
    OBVIOUS
  <2> HIDE DEF m
  <2>2. at[m] = at[k] + Len(f[m]) /\ Len(f[m]) \in Nat
    BY <2>1, LenProperties DEF IsOffset
  <2>3. m \in T
    BY <1>1, <1>3, <2>1, <2>2
  <2> QED
    BY <2>3 DEF m
<1>4. i .. n \subseteq T
  <2> HIDE DEF T
  <2> QED
    BY <1>1, <1>2, <1>3, Induction
<1> QED
  BY <1>4

(* The next one is joined to those that are joined.                         *)
LEMMA JoinStep ==
    ASSUME NEW V, NEW n \in Nat, NEW f \in [1 .. n -> Seq(V)], NEW at, IsOffset(at, f, n),
           NEW k \in 0 .. n - 1, NEW m, m = k + 1, NEW s, Joins(s, at, f, k, V)
    PROVE  Joins(s \o f[m], at, f, m, V)
<1>0. at \in [0 .. n -> Nat] /\ at[0] = 0
  BY DEF IsOffset
<1>1. m \in 1 .. n /\ m - 1 = k /\ k \in 0 .. n /\ m \in 0 .. n
  OBVIOUS
<1>2. Joins(s, at, f, k, V)
  OBVIOUS
<1>3. at[m] = at[k] + Len(f[m]) /\ f[m] \in Seq(V) /\ at[k] \in Nat
  BY <1>0, <1>1 DEF IsOffset
<1>4. s \in Seq(V) /\ Len(s) = at[k] /\ Len(f[m]) \in Nat
  BY <1>2, <1>3, LenProperties DEF Joins
<1> DEFINE t == s \o f[m]
<1>5. /\ t \in Seq(V) /\ Len(t) = at[k] + Len(f[m])
      /\ \A x \in 1 .. at[k] + Len(f[m]) :
            t[x] = IF x <= at[k] THEN s[x] ELSE f[m][x - at[k]]
  <2> DEFINE w == f[m]
  <2>1. s \in Seq(V) /\ w \in Seq(V) /\ Len(s) = at[k]
    BY <1>3, <1>4
  <2> HIDE DEF w
  <2>2. /\ s \o w \in Seq(V) /\ Len(s \o w) = Len(s) + Len(w)
        /\ \A x \in 1 .. Len(s) + Len(w) :
              (s \o w)[x] = IF x <= Len(s) THEN s[x] ELSE w[x - Len(s)]
    BY <2>1, ConcatProperties
  <2>3. /\ s \o w \in Seq(V) /\ Len(s \o w) = at[k] + Len(w)
        /\ \A x \in 1 .. at[k] + Len(w) :
              (s \o w)[x] = IF x <= at[k] THEN s[x] ELSE w[x - at[k]]
    BY <2>1, <2>2
  <2> QED
    BY <2>3 DEF w
<1> HIDE DEF t
<1>6. ASSUME NEW i \in 1 .. m, NEW x \in 1 .. Len(f[i]) PROVE t[at[i - 1] + x] = f[i][x]
  <2>1. CASE i = m
    <3> DEFINE y == at[k] + x
    <3>1. y \in 1 .. at[k] + Len(f[m]) /\ ~ (y <= at[k]) /\ y - at[k] = x
      BY <1>3, <1>4, <2>1
    <3> HIDE DEF y
    <3>2. t[y] = f[m][x]
      BY <1>5, <3>1
    <3> QED
      BY <1>1, <2>1, <3>2 DEF y
  <2>2. CASE i # m
    <3>1. i \in 1 .. k /\ i \in 1 .. n /\ i - 1 \in 0 .. n /\ k \in i .. n /\ i \in 0 .. n
      BY <1>1, <2>2
    <3>2. at[i] = at[i - 1] + Len(f[i]) /\ at[i] <= at[k] /\ at[i - 1] \in Nat
      BY <1>0, <3>1, OffsetsGrow DEF IsOffset
    <3>3. Len(f[i]) \in Nat
      BY <3>1, LenProperties
    <3> DEFINE y == at[i - 1] + x
    <3>4. y \in 1 .. at[k] + Len(f[m]) /\ y <= at[k]
      <4>1. x \in Nat /\ x >= 1 /\ x <= Len(f[i])
        BY <3>3
      <4>2. y \in Nat /\ y >= 1 /\ y <= at[i - 1] + Len(f[i])
        BY <3>2, <3>3, <4>1
      <4>3. y <= at[k]
        BY <1>3, <3>2, <4>2
      <4> HIDE DEF y
      <4> QED
        BY <1>3, <1>4, <4>2, <4>3
    <3>5. s[y] = f[i][x]
      BY <1>2, <3>1 DEF Joins
    <3> HIDE DEF y
    <3>6. t[y] = f[i][x]
      BY <1>5, <3>4, <3>5
    <3> QED
      BY <3>6 DEF y
  <2> QED
    BY <2>1, <2>2
<1>7. Joins(t, at, f, m, V)
  BY <1>3, <1>5, <1>6 DEF Joins
<1> QED
  BY <1>7 DEF t

(* Some sequence joins them.                                                *)
LEMMA JoinExists ==
    ASSUME NEW V, NEW n \in Nat, NEW f \in [1 .. n -> Seq(V)], NEW at, IsOffset(at, f, n)
    PROVE  \E s : Joins(s, at, f, n, V)
<1> DEFINE T == {m \in 0 .. n : \E s : Joins(s, at, f, m, V)}
<1>1. at \in [0 .. n -> Nat] /\ at[0] = 0
  BY DEF IsOffset
<1>2. 0 \in T
  <2>1. <<>> \in Seq(V) /\ Len(<<>>) = 0
    BY EmptySeq
  <2>2. Joins(<<>>, at, f, 0, V)
    BY <1>1, <2>1 DEF Joins
  <2> QED
    BY <2>2
<1>3. ASSUME NEW k \in 0 .. n - 1, k \in T PROVE k + 1 \in T
  <2> DEFINE m == k + 1
  <2>1. m \in 1 .. n /\ m - 1 = k /\ k \in 0 .. n /\ m \in 0 .. n
    OBVIOUS
  <2> HIDE DEF m
  <2>2. PICK s : Joins(s, at, f, k, V)
    BY <1>3
  <2>3. Joins(s \o f[k + 1], at, f, k + 1, V)
    BY <2>2, JoinStep
  <2> QED
    BY <2>1, <2>3 DEF m
<1>4. n \in T
  <2>0. 0 \in Nat
    OBVIOUS
  <2> HIDE DEF T
  <2>1. 0 .. n \subseteq T
    BY <1>2, <1>3, <2>0, Induction
  <2> QED
    BY <2>1
<1> QED
  BY <1>4

-----------------------------------------------------------------------------
(* A part of a sequence is its parts up to a place and behind it.           *)
LEMMA PartIsPart ==
    ASSUME NEW V, NEW s \in Seq(V), NEW a \in 0 .. Len(s), NEW b \in a .. Len(s)
    PROVE  /\ SubSeq(s, a + 1, b) \in Seq(V) /\ Len(SubSeq(s, a + 1, b)) = b - a
           /\ \A x \in 1 .. b - a : SubSeq(s, a + 1, b)[x] = s[a + x]
<1> DEFINE m == a + 1
<1>1. Len(s) \in Nat
  BY LenProperties
<1>2. m \in Int /\ b \in Int /\ \A i \in m .. b : i \in 1 .. Len(s)
  BY <1>1
<1>3. \A i \in m .. b : s[i] \in V
  BY <1>2, ElementOfSeq
<1>4. b - m + 1 = b - a /\ (IF m <= b THEN b - m + 1 ELSE 0) = b - a
      /\ \A x \in Int : m + x - 1 = a + x
  BY <1>1
<1> HIDE DEF m
<1>5. /\ SubSeq(s, m, b) \in Seq(V)
      /\ Len(SubSeq(s, m, b)) = IF m <= b THEN b - m + 1 ELSE 0
      /\ \A i \in 1 .. b - m + 1 : SubSeq(s, m, b)[i] = s[m + i - 1]
  BY <1>2, <1>3, SubSeqProperties
<1>6. /\ SubSeq(s, m, b) \in Seq(V) /\ Len(SubSeq(s, m, b)) = b - a
      /\ \A x \in 1 .. b - a : SubSeq(s, m, b)[x] = s[a + x]
  BY <1>4, <1>5
<1> QED
  BY <1>6 DEF m

(* Two parts that meet make one.                                           *)
LEMMA PartsJoin ==
    ASSUME NEW V, NEW s \in Seq(V), NEW a \in 0 .. Len(s), NEW b \in a .. Len(s),
           NEW c \in b .. Len(s)
    PROVE  SubSeq(s, a + 1, c) = SubSeq(s, a + 1, b) \o SubSeq(s, b + 1, c)
<1> DEFINE p == SubSeq(s, a + 1, b)
           q == SubSeq(s, b + 1, c)
           r == SubSeq(s, a + 1, c)
<1>1. Len(s) \in Nat /\ b \in 0 .. Len(s) /\ c \in a .. Len(s)
  BY LenProperties
<1>2. p \in Seq(V) /\ Len(p) = b - a /\ \A x \in 1 .. b - a : p[x] = s[a + x]
  BY PartIsPart
<1>3. q \in Seq(V) /\ Len(q) = c - b /\ \A x \in 1 .. c - b : q[x] = s[b + x]
  BY <1>1, PartIsPart
<1>4. r \in Seq(V) /\ Len(r) = c - a /\ \A x \in 1 .. c - a : r[x] = s[a + x]
  BY <1>1, PartIsPart
<1> HIDE DEF p, q, r
<1>5. /\ p \o q \in Seq(V) /\ Len(p \o q) = Len(p) + Len(q)
      /\ \A x \in 1 .. Len(p) + Len(q) :
            (p \o q)[x] = IF x <= Len(p) THEN p[x] ELSE q[x - Len(p)]
  BY <1>2, <1>3, ConcatProperties
<1>6. Len(p) + Len(q) = c - a
  BY <1>1, <1>2, <1>3
<1>7. ASSUME NEW x \in 1 .. c - a PROVE r[x] = (p \o q)[x]
  <2>1. CASE x <= b - a
    <3>1. x \in 1 .. b - a
      BY <1>1, <2>1
    <3> QED
      BY <1>2, <1>4, <1>5, <1>6, <3>1
  <2>2. CASE ~ (x <= b - a)
    <3> DEFINE y == x - (b - a)
    <3>1. y \in 1 .. c - b /\ b + y = a + x
      BY <1>1, <2>2
    <3>2. q[y] = s[a + x]
      BY <1>3, <3>1
    <3>3. (p \o q)[x] = q[y]
      BY <1>2, <1>5, <1>6, <2>2
    <3> QED
      BY <1>4, <3>2, <3>3
  <2> QED
    BY <2>1, <2>2
<1>8. r = p \o q
  BY <1>4, <1>5, <1>6, <1>7, SeqEqual
<1> QED
  BY <1>8 DEF p, q, r

(* Concat joins them, in halves.                                            *)
LEMMA ConcatIsJoin ==
    ASSUME NEW V, NEW n \in Nat, NEW f \in [1 .. n -> Seq(V)], NEW at, IsOffset(at, f, n),
           NEW s, Joins(s, at, f, n, V)
    PROVE  Concat(f, n) = s
<1>1. Joins(s, at, f, n, V)
  OBVIOUS
<1>2. at \in [0 .. n -> Nat] /\ at[0] = 0 /\ s \in Seq(V) /\ Len(s) = at[n]
  BY <1>1 DEF IsOffset, Joins
<1>3. CASE n = 0
  <2>1. s = <<>>
    BY <1>2, <1>3, EmptySeq
  <2>2. Concat(f, n) = <<>>
    BY <1>3 DEF Concat
  <2> QED
    BY <1>1, <2>1, <2>2
<1>4. CASE n # 0
  <2> DEFINE g == [part \in (1 .. n) \X (1 .. n) |->
                     SubSeq(s, at[part[1] - 1] + 1, at[part[2]])]
  <2>1. ASSUME NEW i \in 1 .. n, NEW j \in 1 .. n
        PROVE  g[<< i, j >>] = SubSeq(s, at[i - 1] + 1, at[j])
    OBVIOUS
  <2> HIDE DEF g
  <2>2. ASSUME NEW i \in 0 .. n, NEW j \in i .. n
        PROVE  at[i] \in 0 .. Len(s) /\ at[j] \in at[i] .. Len(s)
    <3>1. j \in 0 .. n /\ n \in j .. n /\ n \in i .. n
      OBVIOUS
    <3>2. at[i] <= at[j] /\ at[j] <= at[n] /\ at[i] <= at[n]
      BY <3>1, OffsetsGrow
    <3> QED
      BY <1>2, <3>1, <3>2
  <2>3. ASSUME NEW i \in 1 .. n PROVE g[<< i, i >>] = f[i]
    <3> DEFINE a == at[i - 1]
               b == at[i]
               p == SubSeq(s, a + 1, b)
    <3>1. i - 1 \in 0 .. n /\ i \in i - 1 .. n /\ a \in 0 .. Len(s) /\ b \in a .. Len(s)
      <4>1. i - 1 \in 0 .. n /\ i \in i - 1 .. n
        OBVIOUS
      <4> QED
        BY <2>2, <4>1
    <3>2. b = a + Len(f[i]) /\ f[i] \in Seq(V) /\ Len(f[i]) \in Nat
      BY LenProperties DEF IsOffset
    <3>3. \A x \in 1 .. Len(f[i]) : s[a + x] = f[i][x]
      BY <1>1 DEF Joins
    <3> HIDE DEF a, b
    <3>4. p \in Seq(V) /\ Len(p) = b - a /\ \A x \in 1 .. b - a : p[x] = s[a + x]
      BY <1>2, <3>1, PartIsPart
    <3> HIDE DEF p
    <3>5. b - a = Len(f[i])
      BY <1>2, <3>1, <3>2, LenProperties
    <3>6. p = f[i]
      BY <3>2, <3>3, <3>4, <3>5, SeqEqual
    <3> QED
      BY <2>1, <3>6 DEF p, a, b
  <2>4. ASSUME NEW i \in 1 .. n, NEW j \in 1 .. n, i # j
        PROVE  g[<< i, j >>] = g[<< i, Middle(i, j) >>] \o g[<< Middle(i, j) + 1, j >>]
    <3> DEFINE m == Middle(i, j)
               k == m + 1
    <3>1. m \in 1 .. n /\ k \in 1 .. n /\ k - 1 = m
      <4>1. Middle(i, j) \in 1 .. n /\ Middle(i, j) + 1 \in 1 .. n
        BY <2>4, MiddleIsBetween
      <4> HIDE DEF m
      <4>2. m \in 1 .. n /\ m + 1 \in 1 .. n
        BY <4>1 DEF m
      <4> QED
        BY <4>2
    <3>2. (i < j => m \in i .. j - 1) /\ (j < i => m \in j .. i - 1)
      BY <2>4, MiddleIsBetween
    <3> HIDE DEF m, k
    <3>3. /\ g[<< i, j >>] = SubSeq(s, at[i - 1] + 1, at[j])
          /\ g[<< i, m >>] = SubSeq(s, at[i - 1] + 1, at[m])
          /\ g[<< k, j >>] = SubSeq(s, at[m] + 1, at[j])
      <4>1. g[<< k, j >>] = SubSeq(s, at[k - 1] + 1, at[j])
        BY <2>1, <3>1
      <4> QED
        BY <2>1, <3>1, <4>1
    <3>4. CASE i < j
      <4>1. i - 1 \in 0 .. n /\ m \in 0 .. n /\ m \in i - 1 .. n /\ j \in m .. n
        BY <3>1, <3>2, <3>4
      <4>2. /\ at[i - 1] \in 0 .. Len(s) /\ at[m] \in at[i - 1] .. Len(s)
            /\ at[j] \in at[m] .. Len(s)
        BY <2>2, <4>1
      <4>3. SubSeq(s, at[i - 1] + 1, at[j])
              = SubSeq(s, at[i - 1] + 1, at[m]) \o SubSeq(s, at[m] + 1, at[j])
        BY <1>2, <4>2, PartsJoin
      <4> QED
        BY <3>3, <4>3 DEF m, k
    <3>5. CASE j < i
      <4>1. /\ i - 1 \in j .. n /\ i - 1 \in m .. n /\ m \in j .. n
            /\ j \in 0 .. n /\ m \in 0 .. n /\ i - 1 \in 0 .. n
        BY <3>1, <3>2, <3>5
      <4>2. at[j] <= at[i - 1] /\ at[m] <= at[i - 1] /\ at[j] <= at[m]
        BY <4>1, OffsetsGrow
      <4>3. at[j] \in Nat /\ at[m] \in Nat /\ at[i - 1] \in Nat
        BY <1>2, <4>1
      <4>4. /\ at[i - 1] + 1 \in Int /\ at[m] + 1 \in Int /\ at[j] < at[i - 1] + 1
            /\ at[m] < at[i - 1] + 1 /\ at[j] < at[m] + 1
        BY <4>2, <4>3
      <4>5. \A x, y \in Int : y < x => SubSeq(s, x, y) = <<>>
        BY SubSeqEmpty
      <4> DEFINE a == at[i - 1] + 1
                 b == at[m] + 1
      <4>6. a \in Int /\ b \in Int /\ at[j] < a /\ at[m] < a /\ at[j] < b
            /\ at[j] \in Int /\ at[m] \in Int
        BY <4>3, <4>4
      <4> HIDE DEF a, b
      <4>7. SubSeq(s, a, at[j]) = <<>> /\ SubSeq(s, a, at[m]) = <<>>
            /\ SubSeq(s, b, at[j]) = <<>>
        BY <4>5, <4>6
      <4>8. <<>> \o <<>> = <<>>
        BY <1>2, EmptySeq, ConcatEmptySeq
      <4>9. g[<< i, j >>] = <<>> /\ g[<< i, m >>] = <<>> /\ g[<< k, j >>] = <<>>
        BY <3>3, <4>7 DEF a, b
      <4>10. g[<< i, j >>] = g[<< i, m >>] \o g[<< k, j >>]
        BY <4>8, <4>9
      <4> QED
        BY <4>10 DEF m, k
    <3>6. i < j \/ j < i
      BY <2>4
    <3> QED
      BY <3>4, <3>5, <3>6
  <2>5. MadeOfHalves(g, f, n)
    BY <2>3, <2>4 DEF MadeOfHalves
  <2>6. Concat(f, n) = g[<< 1, n >>]
    BY <1>4, <2>5, ConcatIs
  <2>7. g[<< 1, n >>] = s
    <3>1. 1 \in 1 .. n /\ n \in 1 .. n /\ 1 - 1 = 0 /\ Len(s) \in Nat
      BY <1>2, <1>4
    <3>2. g[<< 1, n >>] = SubSeq(s, at[1 - 1] + 1, at[n])
      BY <2>1, <3>1
    <3>3. at[1 - 1] = 0 /\ at[n] = Len(s)
      BY <1>2, <3>1
    <3> DEFINE p == SubSeq(s, 0 + 1, Len(s))
    <3>4. 0 \in 0 .. Len(s) /\ Len(s) \in 0 .. Len(s) /\ Len(s) - 0 = Len(s)
      BY <3>1
    <3>5. p \in Seq(V) /\ Len(p) = Len(s) - 0 /\ \A x \in 1 .. Len(s) - 0 : p[x] = s[0 + x]
      BY <1>2, <3>4, PartIsPart
    <3>6. g[<< 1, n >>] = p
      BY <3>2, <3>3
    <3> HIDE DEF p
    <3>7. p = s
      BY <1>2, <3>4, <3>5, SeqEqual
    <3> QED
      BY <3>6, <3>7
  <2> QED
    BY <1>1, <2>6, <2>7
<1> QED
  BY <1>3, <1>4

(* What Concat makes has each of the sequences in its place.               *)
LEMMA ConcatJoins ==
    ASSUME NEW V, NEW n \in Nat, NEW f \in [1 .. n -> Seq(V)], NEW at, IsOffset(at, f, n)
    PROVE  Joins(Concat(f, n), at, f, n, V)
<1>1. PICK s : Joins(s, at, f, n, V)
  BY JoinExists
<1>2. Concat(f, n) = s
  BY <1>1, ConcatIsJoin
<1> QED
  BY <1>1, <1>2

-----------------------------------------------------------------------------
(* The lines of commands on a tape: c counts them up to each position.      *)
Counts(c, tape) ==
    /\ c \in [0 .. Len(tape) -> Nat] /\ c[0] = 0
    /\ \A i \in 1 .. Len(tape) :
          c[i] = c[i - 1] + IF Decoder_Command_Paper_Line(tape[i]) THEN 1 ELSE 0

CommandLinesOf(tape) == Accepted(tape, Decoder_Command_Paper_Line)

(* There is such a count, and the k-th line lies where it comes to k.      *)
LEMMA CommandLinesCounted ==
    ASSUME NEW tape, Len(tape) \in Nat
    PROVE  \E c : /\ Counts(c, tape) /\ Len(CommandLinesOf(tape)) = c[Len(tape)]
                  /\ \A i \in 0 .. Len(tape) : c[i] <= c[Len(tape)]
                  /\ \A i \in 1 .. Len(tape) :
                        Decoder_Command_Paper_Line(tape[i]) => CommandLinesOf(tape)[c[i]] = i
<1> DEFINE n == Len(tape)
           f == [i \in 1 .. n |-> IF Decoder_Command_Paper_Line(tape[i]) THEN << i >> ELSE <<>>]
           at == CommandLinesOf(tape)
<1>1. at = Concat(f, n)
  BY DEF Accepted, CommandLinesOf
<1>2. ASSUME NEW i \in 1 .. n
      PROVE  /\ f[i] \in Seq(Nat)
             /\ Len(f[i]) = IF Decoder_Command_Paper_Line(tape[i]) THEN 1 ELSE 0
             /\ Decoder_Command_Paper_Line(tape[i]) => f[i] = << i >>
  <2>1. i \in Nat /\ << i >> \in Seq(Nat) /\ Len(<< i >>) = 1
    OBVIOUS
  <2>2. <<>> \in Seq(Nat) /\ Len(<<>>) = 0
    BY EmptySeq
  <2> QED
    BY <2>1, <2>2
<1>3. f \in [1 .. n -> Seq(Nat)]
  <2>1. DOMAIN f = 1 .. n /\ f = [i \in DOMAIN f |-> f[i]]
    OBVIOUS
  <2> HIDE DEF f
  <2> QED
    BY <1>2, <2>1
<1> HIDE DEF f, at
<1>4. PICK c : IsOffset(c, f, n)
  BY <1>3, OffsetExists
<1>5. Joins(at, c, f, n, Nat)
  BY <1>1, <1>3, <1>4, ConcatJoins
<1>6. Counts(c, tape)
  <2>1. \A i \in 1 .. n : c[i] = c[i - 1] + Len(f[i])
    BY <1>4 DEF IsOffset
  <2>2. c \in [0 .. n -> Nat] /\ c[0] = 0
    BY <1>4 DEF IsOffset
  <2> QED
    BY <1>2, <2>1, <2>2 DEF Counts
<1>7. Len(at) = c[n]
  BY <1>5 DEF Joins
<1>8. ASSUME NEW i \in 0 .. n PROVE c[i] <= c[n]
  <2>1. n \in i .. n
    OBVIOUS
  <2> QED
    BY <1>3, <1>4, <2>1, OffsetsGrow
<1>9. ASSUME NEW i \in 1 .. n, Decoder_Command_Paper_Line(tape[i]) PROVE at[c[i]] = i
  <2>1. f[i] = << i >> /\ 1 \in 1 .. Len(f[i])
    BY <1>2, <1>9
  <2>2. at[c[i - 1] + 1] = f[i][1]
    BY <1>5, <2>1 DEF Joins
  <2>3. c[i] = c[i - 1] + 1
    BY <1>6, <1>9 DEF Counts
  <2> QED
    BY <2>1, <2>2, <2>3
<1> QED
  BY <1>6, <1>7, <1>8, <1>9 DEF at

(***************************************************************************)
(* The frames of each word of a page and a separator, behind position p.   *)
(* What is left in the first frame from the word before it (stale) does    *)
(* not matter.                                                             *)
(***************************************************************************)
PageFrames == LineLength * SIZE_ZONE_TRIT_FRAM

\* Where the frames of word k are, and the lines of commands in front of them.
LinePlace(p, k) == p + LineLength * k
FramesBefore(k) == CommandFrames * k

LineAt(tape, q, frames) == \A i \in 1 .. LineLength : tape[q + i] = frames[i]

PageAt(tape, p, words, stale) ==
    \A k \in Places : LineAt(tape, LinePlace(p, k), WordFrames(words[k], stale[k]))

\* The m tokens behind position q are lines of commands, or none of them is.
AllLines(tape, q, m) == \A i \in 1 .. m : Decoder_Command_Paper_Line(tape[q + i])
NoLines(tape, q, m)  == \A i \in 1 .. m : ~ Decoder_Command_Paper_Line(tape[q + i])

(* The frames of a word are lines of commands, the separator is none.       *)
LEMMA LoaderFrames ==
    ASSUME NEW w \in ShortWord, NEW stale \in Trit
    PROVE  /\ \A i \in 1 .. LineLength : WordFrames(w, stale)[i] \in Token
           /\ \A i \in 1 .. CommandFrames :
                 /\ Decoder_Command_Paper_Line(WordFrames(w, stale)[i])
                 /\ WordFrames(w, stale)[i].kind = "line"
                 /\ tab4_2[WordFrames(w, stale)[i].v]
                      = Group(w, 2, CommandFrames - i) + IF i = 1 THEN 3 * stale ELSE 0
           /\ ~ Decoder_Command_Paper_Line(WordFrames(w, stale)[LineLength])
           /\ ~ Decoder_Command_Paper_Line(Blank) /\ Blank \in Token
<1> DEFINE c == CommandFrames
           f == WordFrames(w, stale)
<1>1. \A g \in Pairs : tab4_7[g] \in LineCodes /\ tab4_2[tab4_7[g]] = g
  BY DEF tab4_7, tab4_2, TableFrom, Pairs, LineCodes, TAB_SIZE, NoPair
<1>2. \A g \in Pairs : g <= 4 /\ g \in Int
  BY DEF Pairs
<1>3. \A v : Line(v).kind = "line" /\ Line(v).v = v
  BY DEF Line
<1>4. \A v \in LineCodes : Line(v) \in Token
  BY DEF Line, Token
<1>5. /\ c \in 4 .. 5 /\ c \in 1 .. 17 /\ 2 \in 1 .. 3 /\ LineLength = c + 1
      /\ 2 * (c - 1) < SW /\ SW <= 2 * c /\ SW = 2 * (c - 1) + 1
  <2>1. RT \in {2, 4}
    BY MemoryAssumption, PaperTapeAssumption
  <2>2. SW = RT + 5 /\ c = (SW + 1) \div 2
    BY DEF SW, AT, CommandFrames
  <2>3. SW = 2 * (c - 1) + 1
    BY <2>1, <2>2
  <2> QED
    BY <2>3, FrameSizes DEF LineLength
<1>6. \A j \in 0 .. c - 1 : Group(w, 2, j) \in Pairs
  <2> HIDE DEF c
  <2> QED
    BY <1>5, GroupsMakeWord, FramesComeBack
<1>7. Group(w, 2, c - 1) \in Trit
  <2>1. SW \in Widths
    BY Sizes
  <2>2. PICK d : AreTrits(d, SW) /\ Number(d, SW) = w
    BY <2>1, WordHasTrits DEF ShortWord
  <2> DEFINE j == c - 1
             g == TritsFrom(d, 2 * j)
  <2>3. j \in Nat /\ 2 * j < SW /\ TritsBefore(2, j + 1) - 2 * j = 1
    BY <1>5 DEF TritsBefore
  <2> HIDE DEF j
  <2>4. Group(Number(d, SW), 2, j) = Number(g, 1)
    BY <2>2, <2>3, GroupNumber
  <2>5. AreTrits(g, 1) /\ g[0] \in -1 .. 1
    <3> DEFINE e == 2 * j
    <3>1. e \in 0 .. SW - 1 /\ e \in Nat
      BY <1>5, <2>3
    <3>2. d[e] \in -1 .. 1
      BY <2>2, <3>1 DEF AreTrits
    <3> HIDE DEF e
    <3>3. TritsFrom(d, e)[0] = d[e + 0] /\ e + 0 = e
      BY <3>1 DEF TritsFrom
    <3>4. AreTrits(TritsFrom(d, e), 1)
      BY <3>2, <3>3 DEF AreTrits
    <3> QED
      BY <3>2, <3>3, <3>4 DEF e
  <2>6. Number(g, 1) \in -1 .. 1
    BY <2>5, NumberOfOne
  <2> QED
    BY <2>2, <2>4, <2>6 DEF j, Trit
<1> DEFINE p(i) == IF i = 1 THEN Group(w, 2, c - i) + 3 * stale ELSE Group(w, 2, c - i)
<1>8. ASSUME NEW i \in 1 .. c PROVE f[i] = Line(tab4_7[p(i)])
  <2>1. i \in 1 .. c + 1 /\ ~ (i > c)
    BY <1>5
  <2> QED
    BY <2>1 DEF WordFrames
<1>9. ASSUME NEW i \in 1 .. c
      PROVE  p(i) \in Pairs /\ p(i) = Group(w, 2, c - i) + IF i = 1 THEN 3 * stale ELSE 0
  <2> DEFINE q == Group(w, 2, c - i)
  <2>1. q \in Pairs
    <3>1. c - i \in 0 .. c - 1
      BY <1>5
    <3> QED
      BY <1>6, <3>1
  <2>2. i = 1 => q \in Trit
    BY <1>7
  <2> HIDE DEF q
  <2>3. (IF i = 1 THEN q + 3 * stale ELSE q) \in Pairs
    BY <2>1, <2>2 DEF Pairs, Trit
  <2>4. (IF i = 1 THEN q + 3 * stale ELSE q) = q + IF i = 1 THEN 3 * stale ELSE 0
    BY <2>1 DEF Pairs, Trit
  <2> QED
    BY <2>3, <2>4 DEF q
<1>10. f[c + 1] = Separator
  <2>1. c + 1 \in 1 .. c + 1 /\ c + 1 > c
    BY <1>5
  <2> QED
    BY <2>1 DEF WordFrames
<1> HIDE DEF f, p, c
<1>11. ASSUME NEW i \in 1 .. c
       PROVE  /\ f[i] \in Token /\ f[i].kind = "line" /\ tab4_2[f[i].v] = p(i)
              /\ Decoder_Command_Paper_Line(f[i])
  <2> DEFINE v == tab4_7[p(i)]
  <2>1. v \in LineCodes /\ tab4_2[v] = p(i) /\ p(i) <= 4
    BY <1>1, <1>2, <1>9
  <2>2. f[i] = Line(v)
    BY <1>8
  <2> HIDE DEF v
  <2> QED
    BY <1>3, <1>4, <2>1, <2>2 DEF Decoder_Command_Paper_Line, Decoder_Command
<1>12. /\ ~ Decoder_Command_Paper_Line(Separator) /\ Separator \in Token
       /\ ~ Decoder_Command_Paper_Line(Blank) /\ Blank \in Token
  <2>1. tab4_2[0] = 13 /\ tab4_2[17] = 13 /\ 0 \in LineCodes /\ 17 \in LineCodes
    BY DEF tab4_2, TableFrom, NoPair, LineCodes, TAB_SIZE
  <2> QED
    BY <1>3, <1>4, <2>1 DEF Decoder_Command_Paper_Line, Decoder_Command, Separator, Blank
<1>13. ASSUME NEW i \in 1 .. LineLength PROVE f[i] \in Token
  <2>1. i \in 1 .. c \/ i = c + 1
    BY <1>5
  <2> QED
    BY <1>10, <1>11, <1>12, <2>1
<1> QED
  BY <1>5, <1>9, <1>10, <1>11, <1>12, <1>13 DEF f, c

-----------------------------------------------------------------------------
(* The weights of the groups of two trits are numbers.                     *)
LEMMA EvenPowers == \A j \in 0 .. 9 : pow3(2 * j) \in Int
<1> TAKE j \in 0 .. 9
<1>1. 2 * j \in 0 .. 19
  OBVIOUS
<1> QED
  BY <1>1, Pow3Nat

\* The reader has found the frames of word k behind position q.
FoundAt(at, k, q) == \A i \in 1 .. CommandFrames : at[FramesBefore(k) + i] = q + i

(* The word whose frames lie behind position q is read where the reader     *)
(* finds them, in front of the word before it a trit that does not fit.     *)
LEMMA WordFromLoader ==
    ASSUME NEW tape \in Tape, NEW at, NEW k \in Nat, NEW w \in ShortWord, NEW stale \in Trit,
           NEW q \in Nat, q + LineLength <= Len(tape),
           LineAt(tape, q, WordFrames(w, stale)), FoundAt(at, k, q)
    PROVE  CommandAt(tape, at, k) = w
<1> DEFINE n == CommandFrames
           f == [j \in 0 .. n - 1 |-> Decoded(tape, at[k * n + n - j], tab4_2) * pow3(2 * j)]
           g == [j \in 0 .. n - 1 |-> Group(w, 2, j) * pow3(2 * j)]
<1>1. /\ n \in 4 .. 5 /\ n \in 1 .. 17 /\ n \in Widths /\ n - 1 \in Widths /\ n - 1 \in 0 .. 17
      /\ 2 \in 1 .. 3 /\ LineLength = n + 1
      /\ 2 * (n - 1) < SW /\ SW <= 2 * n /\ SW = 2 * (n - 1) + 1
  <2>1. RT \in {2, 4}
    BY MemoryAssumption, PaperTapeAssumption
  <2>2. SW = RT + 5 /\ n = (SW + 1) \div 2
    BY DEF SW, AT, CommandFrames
  <2>3. SW = 2 * (n - 1) + 1
    BY <2>1, <2>2
  <2> QED
    BY <2>3, FrameSizes DEF LineLength, Widths
<1>2. Len(tape) \in Nat /\ DOMAIN tape = 1 .. Len(tape)
  BY LenProperties DEF Tape
<1>3. \A i \in 1 .. n : /\ WordFrames(w, stale)[i].kind = "line"
                        /\ tab4_2[WordFrames(w, stale)[i].v]
                             = Group(w, 2, n - i) + IF i = 1 THEN 3 * stale ELSE 0
  BY LoaderFrames
<1>4. \A i \in 1 .. n : at[n * k + i] = q + i
  BY DEF FoundAt, FramesBefore
<1> HIDE DEF n
<1>5. \A j \in 0 .. n - 1 : Group(w, 2, j) \in Int /\ pow3(2 * j) \in Int
  <2>1. ASSUME NEW j \in 0 .. n - 1 PROVE pow3(2 * j) \in Int
    <3>1. j \in 0 .. 9
      BY <1>1
    <3> QED
      BY <3>1, EvenPowers, ZenonT(20)
  <2>2. \A j \in 0 .. n - 1 : Group(w, 2, j) \in Word(2)
    BY <1>1, GroupsMakeWord
  <2> QED
    BY <2>1, <2>2, FramesComeBack DEF Pairs
<1>6. ASSUME NEW j \in 0 .. n - 1
      PROVE  f[j] = (Group(w, 2, j) + IF j = n - 1 THEN 3 * stale ELSE 0) * pow3(2 * j)
  <2> DEFINE i == n - j
             p == q + i
  <2>1. i \in 1 .. n /\ i \in 1 .. LineLength /\ n - i = j /\ (i = 1 <=> j = n - 1)
    BY <1>1
  <2>2. k * n + n - j = n * k + i
    <3>1. k * n = n * k /\ n * k \in Nat
      BY <1>1
    <3> QED
      BY <1>1, <3>1
  <2>3. p \in DOMAIN tape
    BY <1>1, <1>2, <2>1
  <2> HIDE DEF i
  <2>4. at[k * n + n - j] = p
    BY <1>4, <2>1, <2>2
  <2>5. tape[p] = WordFrames(w, stale)[i]
    BY <2>1 DEF LineAt
  <2> HIDE DEF p
  <2>6. Decoded(tape, p, tab4_2) = tab4_2[WordFrames(w, stale)[i].v]
    BY <1>3, <2>1, <2>3, <2>5 DEF Decoded
  <2> DEFINE d == Decoded(tape, p, tab4_2)
  <2>7. d = Group(w, 2, j) + IF j = n - 1 THEN 3 * stale ELSE 0
    BY <1>3, <2>1, <2>6
  <2> HIDE DEF d
  <2>8. f[j] = d * pow3(2 * j)
    BY <2>4 DEF d
  <2> QED
    BY <2>7, <2>8
<1>7. \A j \in 0 .. n - 1 : g[j] = Group(w, 2, j) * pow3(2 * j)
  OBVIOUS
<1> HIDE DEF f, g
<1> DEFINE m == n - 1
           t == pow3(2 * m)
<1>8. m \in 0 .. n - 1 /\ m + 1 = n /\ m \in 0 .. 17 /\ m \in Widths /\ \A j \in 0 .. m - 1 : j \in 0 .. n - 1 /\ j # n - 1
  BY <1>1
<1>9. \A j \in 0 .. m - 1 : f[j] = g[j]
  <2>1. ASSUME NEW j \in 0 .. m - 1 PROVE f[j] = g[j]
    <3>1. f[j] = (Group(w, 2, j) + 0) * pow3(2 * j)
      BY <1>6, <1>8
    <3> QED
      BY <1>5, <1>7, <1>8, <3>1
  <2> QED
    BY <2>1
<1>10. t \in Int /\ 3 * t = pow3(SW) /\ stale \in Int
  <2>1. 2 * m \in Widths /\ 2 * m + 1 = SW
    BY <1>1 DEF Widths
  <2>2. pow3(2 * m + 1) = 3 * pow3(2 * m)
    BY <2>1, Pow3Next
  <2> QED
    BY <1>5, <1>8, <2>1, <2>2 DEF Trit
<1>11. f[m] = g[m] + 3 * stale * t
  <2> DEFINE y == Group(w, 2, m)
  <2>1. f[m] = (y + 3 * stale) * t /\ g[m] = y * t /\ y \in Int
    BY <1>5, <1>6, <1>7, <1>8
  <2> HIDE DEF y, t
  <2> QED
    BY <1>10, <2>1
<1>12. \A j \in 0 .. m : f[j] \in Int /\ g[j] \in Int
  <2>1. \A j \in 0 .. n - 1 : g[j] \in Int
    <3>1. ASSUME NEW j \in 0 .. n - 1 PROVE g[j] \in Int
      <4> DEFINE y == Group(w, 2, j)
                 z == pow3(2 * j)
      <4>1. y \in Int /\ z \in Int /\ g[j] = y * z
        BY <1>5, <1>7
      <4> HIDE DEF y, z
      <4> QED
        BY <4>1
    <3> QED
      BY <3>1
  <2>2. \A j \in 0 .. m : j \in 0 .. n - 1 /\ (j \in 0 .. m - 1 \/ j = m)
    BY <1>8
  <2> HIDE DEF m, t
  <2>3. f[m] \in Int
    <3>1. g[m] \in Int
      BY <1>8, <2>1
    <3> QED
      BY <1>10, <1>11, <3>1
  <2> QED
    BY <1>9, <2>1, <2>2, <2>3
<1> HIDE DEF m, t
<1>13. SumTo(f, m + 1) = SumTo(f, m) + f[m] /\ SumTo(g, m + 1) = SumTo(g, m) + g[m]
  BY <1>8, <1>12, SumStep
<1>14. SumTo(f, m) = SumTo(g, m)
  BY <1>8, <1>9, SumSame
<1>15. SumTo(f, n) = SumTo(g, n) + 3 * stale * t
  <2>1. SumTo(g, m) \in Int
    <3>1. \A j \in 0 .. m - 1 : g[j] \in Int
      BY <1>8, <1>12
    <3> QED
      BY <1>8, <3>1, SumType
  <2>2. f[m] \in Int /\ g[m] \in Int
    BY <1>8, <1>12
  <2> DEFINE u == SumTo(f, m)
             v == SumTo(g, m)
             x == f[m]
             y == g[m]
             z == 3 * stale * t
  <2>3. u = v /\ v \in Int /\ x = y + z /\ y \in Int /\ z \in Int
    BY <1>10, <1>11, <1>14, <2>1, <2>2
  <2>4. SumTo(f, n) = u + x /\ SumTo(g, n) = v + y
    BY <1>8, <1>13
  <2> HIDE DEF u, v, x, y, z
  <2>5. SumTo(f, n) = SumTo(g, n) + z
    BY <2>3, <2>4
  <2> QED
    BY <2>5 DEF z
<1>16. SumTo(g, n) = w
  <2>1. GroupSum(w, 2, n) = w
    BY <1>1, GroupsMakeWord
  <2> QED
    BY <2>1 DEF GroupSum, g
<1>17. mod_3_n(SumTo(f, n), SW) = w
  <2>1. 3 * stale * t = stale * pow3(SW)
    BY <1>10
  <2>2. w \in -MaxWord(SW) .. MaxWord(SW) /\ w \in Int /\ SW \in Widths /\ pow3(SW) \in Int
    <3>1. SW \in Widths /\ SW \in 0 .. 19
      BY Sizes
    <3>2. MaxWord(SW) \in Nat /\ pow3(SW) \in Nat
      BY <3>1, Pow3
    <3> QED
      BY <3>1, <3>2 DEF ShortWord, Word
  <2>3. SumTo(f, n) = stale * pow3(SW) + w
    BY <1>10, <1>15, <1>16, <2>1, <2>2
  <2>4. mod_3_n(stale * pow3(SW) + w, SW) = w
    BY <1>10, <2>2, Centered
  <2> QED
    BY <2>3, <2>4
<1> QED
  BY <1>17 DEF CommandAt, WordAt, f, n

-----------------------------------------------------------------------------
(* Lines of commands in a row, and tokens in a row that are none.           *)
LEMMA LinesInARow ==
    ASSUME NEW tape, Len(tape) \in Nat, NEW c, Counts(c, tape), NEW q \in Nat, NEW m \in Nat,
           q + m <= Len(tape), AllLines(tape, q, m)
    PROVE  \A i \in 0 .. m : c[q + i] = c[q] + i
<1> DEFINE T == {i \in 0 .. m : c[q + i] = c[q] + i}
<1>1. c \in [0 .. Len(tape) -> Nat] /\ q \in 0 .. Len(tape)
  BY DEF Counts
<1>2. 0 \in T
  BY <1>1
<1>3. ASSUME NEW i \in 0 .. m - 1, i \in T PROVE i + 1 \in T
  <2> DEFINE x == q + (i + 1)
  <2>1. x \in 1 .. Len(tape) /\ x - 1 = q + i /\ i + 1 \in 1 .. m
    OBVIOUS
  <2>2. Decoder_Command_Paper_Line(tape[x])
    BY <2>1 DEF AllLines
  <2> HIDE DEF x
  <2>3. c[x] = c[x - 1] + 1
    BY <2>1, <2>2 DEF Counts
  <2>4. c[x] = c[q] + i + 1
    BY <1>1, <1>3, <2>1, <2>3
  <2>5. c[x] = c[q] + (i + 1)
    BY <1>1, <2>4
  <2> QED
    BY <2>1, <2>5 DEF x
<1>4. 0 .. m \subseteq T
  <2>1. 0 \in Nat
    OBVIOUS
  <2> HIDE DEF T
  <2> QED
    BY <1>2, <1>3, <2>1, Induction
<1> QED
  BY <1>4

(* Tokens which are no lines of commands do not count.                     *)
LEMMA OtherTokensInARow ==
    ASSUME NEW tape, Len(tape) \in Nat, NEW c, Counts(c, tape), NEW q \in Nat, NEW m \in Nat,
           q + m <= Len(tape), NoLines(tape, q, m)
    PROVE  c[q + m] = c[q]
<1> DEFINE T == {i \in 0 .. m : c[q + i] = c[q]}
<1>1. c \in [0 .. Len(tape) -> Nat] /\ q \in 0 .. Len(tape)
  BY DEF Counts
<1>2. 0 \in T
  BY <1>1
<1>3. ASSUME NEW i \in 0 .. m - 1, i \in T PROVE i + 1 \in T
  <2> DEFINE x == q + (i + 1)
  <2>1. x \in 1 .. Len(tape) /\ x - 1 = q + i /\ i + 1 \in 1 .. m /\ x - 1 \in 0 .. Len(tape)
    OBVIOUS
  <2>2. ~ Decoder_Command_Paper_Line(tape[x])
    BY <2>1 DEF NoLines
  <2> HIDE DEF x
  <2>3. c[x] = c[x - 1] + 0
    BY <2>1, <2>2 DEF Counts
  <2>4. c[x] = c[q]
    BY <1>1, <1>3, <2>1, <2>3
  <2> QED
    BY <2>1, <2>4 DEF x
<1>4. 0 .. m \subseteq T
  <2>1. 0 \in Nat
    OBVIOUS
  <2> HIDE DEF T
  <2> QED
    BY <1>2, <1>3, <2>1, Induction
<1>5. m \in T
  BY <1>4
<1> QED
  BY <1>5

(* The place of a word within the frames of a page.                         *)
LEMMA PlaceInPage ==
    ASSUME NEW p \in Nat
    PROVE  /\ LinePlace(p, 0) = p /\ FramesBefore(0) = 0
           /\ LinePlace(p, SIZE_ZONE_TRIT_FRAM) = p + PageFrames
           /\ \A k \in 0 .. SIZE_ZONE_TRIT_FRAM :
                 /\ LinePlace(p, k) \in Nat /\ p <= LinePlace(p, k) /\ FramesBefore(k) \in Nat
                 /\ LinePlace(p, k) <= p + PageFrames
           /\ \A k \in Places :
                 /\ LinePlace(p, k + 1) = LinePlace(p, k) + LineLength
                 /\ FramesBefore(k + 1) = FramesBefore(k) + CommandFrames
                 /\ LinePlace(p, k) + LineLength <= p + PageFrames
<1> DEFINE n == CommandFrames
           l == LineLength
           z == SIZE_ZONE_TRIT_FRAM
<1>1. n \in Nat /\ l \in Nat /\ z \in Nat
  BY FrameSizes DEF LineLength
<1>2. PageFrames = l * z /\ Places = 0 .. z - 1
  BY DEF PageFrames, Places
<1> HIDE DEF n, l, z
<1>3. l * 0 = 0 /\ n * 0 = 0
  BY <1>1
<1>4. ASSUME NEW k \in 0 .. z
      PROVE  l * k \in Nat /\ n * k \in Nat /\ l * k <= l * z
  BY <1>1
<1>5. ASSUME NEW k \in 0 .. z - 1
      PROVE  l * (k + 1) = l * k + l /\ n * (k + 1) = n * k + n /\ l * (k + 1) <= l * z
  <2>1. l * (k + 1) = l * k + l /\ n * (k + 1) = n * k + n
    BY <1>1
  <2>2. k + 1 \in 0 .. z
    BY <1>1
  <2>3. l * (k + 1) <= l * z
    BY <1>4, <2>2
  <2> QED
    BY <2>1, <2>3
<1>6. ASSUME NEW k \in 0 .. z
      PROVE  p + l * k \in Nat /\ p <= p + l * k /\ n * k \in Nat /\ p + l * k <= p + l * z
  <2> DEFINE x == l * k
             y == l * z
  <2>1. x \in Nat /\ y \in Nat /\ x <= y
    BY <1>1, <1>4
  <2> HIDE DEF x, y
  <2>2. p + x \in Nat /\ p <= p + x /\ p + x <= p + y
    BY <2>1
  <2> QED
    BY <1>4, <2>2 DEF x, y
<1>7. ASSUME NEW k \in 0 .. z - 1
      PROVE  p + l * (k + 1) = (p + l * k) + l /\ (p + l * k) + l <= p + l * z
  <2> DEFINE x == l * k
             y == l * z
             v == l * (k + 1)
  <2>1. x \in Nat /\ y \in Nat /\ v = x + l /\ v <= y
    BY <1>1, <1>4, <1>5
  <2> HIDE DEF x, y, v
  <2>2. p + v = (p + x) + l /\ (p + x) + l <= p + y
    BY <1>1, <2>1
  <2> QED
    BY <2>2 DEF x, y, v
<1> QED
  BY <1>2, <1>3, <1>5, <1>6, <1>7 DEF LinePlace, FramesBefore, n, l, z

(* The lines of commands in front of each frame of a page.                  *)
LEMMA LinesOfPage ==
    ASSUME NEW tape \in Tape, NEW p \in Nat, p + PageFrames <= Len(tape),
           NEW words \in [Places -> ShortWord], NEW stale \in [Places -> Trit],
           PageAt(tape, p, words, stale), NoLines(tape, 0, p),
           NEW c, Counts(c, tape)
    PROVE  \A k \in Places :
              /\ AllLines(tape, LinePlace(p, k), CommandFrames)
              /\ \A i \in 1 .. CommandFrames : c[LinePlace(p, k) + i] = FramesBefore(k) + i
<1> DEFINE n == CommandFrames
           l == LineLength
           z == SIZE_ZONE_TRIT_FRAM
           T == {k \in 0 .. z - 1 : c[LinePlace(p, k)] = FramesBefore(k)}
<1>1. /\ n \in Nat /\ n > 0 /\ l = n + 1 /\ z \in Nat \ {0}
      /\ Places = 0 .. z - 1 /\ Len(tape) \in Nat /\ PageFrames \in Nat
  <2>1. Len(tape) \in Nat
    BY LenProperties DEF Tape
  <2> QED
    BY <2>1, FrameSizes DEF LineLength, PageFrames, Places
<1> HIDE DEF n, l, z
<1>2. ASSUME NEW k \in Places
      PROVE  /\ LinePlace(p, k) \in Nat /\ LinePlace(p, k) + l <= Len(tape)
             /\ FramesBefore(k) \in Nat
             /\ LinePlace(p, k + 1) = LinePlace(p, k) + l
             /\ FramesBefore(k + 1) = FramesBefore(k) + n
  <2>1. k \in 0 .. z
    BY <1>1
  <2>2. /\ LinePlace(p, k) \in Nat /\ LinePlace(p, k) + l <= p + PageFrames
        /\ FramesBefore(k) \in Nat
        /\ LinePlace(p, k + 1) = LinePlace(p, k) + l
        /\ FramesBefore(k + 1) = FramesBefore(k) + n
    BY <2>1, PlaceInPage DEF n, l, z
  <2> QED
    BY <1>1, <2>2
<1>3. c \in [0 .. Len(tape) -> Nat] /\ c[0] = 0
  BY DEF Counts
<1>4. ASSUME NEW k \in Places
      PROVE  /\ AllLines(tape, LinePlace(p, k), n)
             /\ ~ Decoder_Command_Paper_Line(tape[LinePlace(p, k) + l])
  <2> DEFINE frames == WordFrames(words[k], stale[k])
             x == LinePlace(p, k)
  <2>1. words[k] \in ShortWord /\ stale[k] \in Trit
    OBVIOUS
  <2>2. /\ \A i \in 1 .. n : Decoder_Command_Paper_Line(frames[i])
        /\ ~ Decoder_Command_Paper_Line(frames[l])
    BY <2>1, LoaderFrames DEF n, l
  <2>3. \A i \in 1 .. l : tape[x + i] = frames[i]
    BY DEF PageAt, LineAt, l
  <2>4. \A i \in 1 .. n : i \in 1 .. l
    BY <1>1
  <2>5. l \in 1 .. l
    BY <1>1
  <2> HIDE DEF frames, x
  <2>6. /\ \A i \in 1 .. n : Decoder_Command_Paper_Line(tape[x + i])
        /\ ~ Decoder_Command_Paper_Line(tape[x + l])
    BY <2>2, <2>3, <2>4, <2>5
  <2> QED
    BY <2>6 DEF AllLines, x
<1>5. ASSUME NEW k \in Places
      PROVE  \A i \in 0 .. n : c[LinePlace(p, k) + i] = c[LinePlace(p, k)] + i
  <2> DEFINE x == LinePlace(p, k)
  <2>1. x \in Nat /\ x + n <= Len(tape)
    <3>1. x \in Nat /\ x + l <= Len(tape)
      BY <1>2
    <3> HIDE DEF x
    <3> QED
      BY <1>1, <3>1
  <2>2. AllLines(tape, x, n)
    BY <1>4
  <2> HIDE DEF x
  <2>3. \A i \in 0 .. n : c[x + i] = c[x] + i
    BY <1>1, <2>1, <2>2, LinesInARow
  <2> QED
    BY <2>3 DEF x
<1>6. 0 \in T
  <2>1. 0 \in Nat /\ 0 + p <= Len(tape) /\ 0 + p = p
    BY <1>1
  <2>2. c[0 + p] = c[0]
    BY <1>1, <2>1, OtherTokensInARow
  <2>3. LinePlace(p, 0) = p /\ FramesBefore(0) = 0
    BY PlaceInPage
  <2> QED
    BY <1>1, <1>3, <2>1, <2>2, <2>3
<1>7. ASSUME NEW k \in 0 .. (z - 1) - 1, k \in T PROVE k + 1 \in T
  <2> DEFINE x == LinePlace(p, k)
             y == x + l
             v == FramesBefore(k)
             m == k + 1
  <2>1. k \in Places /\ m \in 0 .. z - 1
    BY <1>1
  <2>2. x \in Nat /\ x + l <= Len(tape) /\ v \in Nat /\ c[x] = v
    BY <1>2, <1>7, <2>1
  <2>3. LinePlace(p, m) = y /\ FramesBefore(m) = v + n
    BY <1>2, <2>1
  <2>4. \A i \in 0 .. n : c[x + i] = c[x] + i
    BY <1>5, <2>1
  <2>5. ~ Decoder_Command_Paper_Line(tape[y])
    BY <1>4, <2>1
  <2> HIDE DEF x, v, m
  <2>6. y \in 1 .. Len(tape) /\ y - 1 = x + n /\ n \in 0 .. n
    BY <1>1, <2>2
  <2> HIDE DEF y
  <2>7. c[y] = c[y - 1] + 0
    BY <2>5, <2>6 DEF Counts
  <2>8. c[x + n] = c[x] + n
    BY <2>4, <2>6
  <2>9. c[y] = v + n
    BY <1>1, <2>2, <2>6, <2>7, <2>8
  <2>10. m \in T
    BY <2>1, <2>3, <2>9
  <2> QED
    BY <2>10 DEF m
<1>8. 0 .. z - 1 \subseteq T
  <2>1. 0 \in Nat /\ z - 1 \in Nat
    BY <1>1
  <2> HIDE DEF T
  <2> QED
    BY <1>6, <1>7, <2>1, Induction
<1>9. ASSUME NEW k \in Places, NEW i \in 1 .. n PROVE c[LinePlace(p, k) + i] = FramesBefore(k) + i
  <2>1. c[LinePlace(p, k)] = FramesBefore(k)
    BY <1>1, <1>8
  <2>2. i \in 0 .. n
    BY <1>1
  <2>3. c[LinePlace(p, k) + i] = c[LinePlace(p, k)] + i
    BY <1>5, <2>2
  <2> QED
    BY <2>1, <2>3
<1> QED
  BY <1>4, <1>9 DEF n

-----------------------------------------------------------------------------
(* A page is read whole, and what is left begins behind its last separator. *)
LEMMA PageIsRead ==
    ASSUME NEW tape \in Tape, NEW p \in Nat, p + PageFrames <= Len(tape),
           NEW words \in [Places -> ShortWord], NEW stale \in [Places -> Trit],
           PageAt(tape, p, words, stale), NoLines(tape, 0, p)
    PROVE  /\ Read_Commands_from_FT1(tape).words = words
           /\ Read_Commands_from_FT1(tape).rest = From(tape, p + PageFrames + 1)
<1> DEFINE n == CommandFrames
           l == LineLength
           z == SIZE_ZONE_TRIT_FRAM
           at == CommandLinesOf(tape)
           last == z - 1
<1>1. /\ n \in {4, 5} /\ l = n + 1 /\ z \in Nat \ {0} /\ Places = 0 .. z - 1
      /\ Len(tape) \in Nat /\ PageFrames \in Nat /\ last \in Places /\ last + 1 = z
  <2>1. Len(tape) \in Nat
    BY LenProperties DEF Tape
  <2> QED
    BY <2>1, FrameSizes DEF LineLength, PageFrames, Places
<1>2. PICK c : /\ Counts(c, tape) /\ Len(at) = c[Len(tape)]
               /\ \A i \in 0 .. Len(tape) : c[i] <= c[Len(tape)]
               /\ \A i \in 1 .. Len(tape) :
                     Decoder_Command_Paper_Line(tape[i]) => at[c[i]] = i
  BY <1>1, CommandLinesCounted
<1>3. c \in [0 .. Len(tape) -> Nat]
  BY <1>2 DEF Counts
<1> HIDE DEF n, l, z, at, last
<1>4. \A k \in Places : /\ AllLines(tape, LinePlace(p, k), n)
                        /\ \A i \in 1 .. n : c[LinePlace(p, k) + i] = FramesBefore(k) + i
  BY <1>2, LinesOfPage DEF n
<1>5. ASSUME NEW k \in Places
      PROVE  /\ LinePlace(p, k) \in Nat /\ LinePlace(p, k) + l <= Len(tape)
             /\ FramesBefore(k) \in Nat
             /\ LinePlace(p, k + 1) = LinePlace(p, k) + l
             /\ FramesBefore(k + 1) = FramesBefore(k) + n
  <2>1. k \in 0 .. z
    BY <1>1
  <2>2. /\ LinePlace(p, k) \in Nat /\ LinePlace(p, k) + l <= p + PageFrames
        /\ FramesBefore(k) \in Nat
        /\ LinePlace(p, k + 1) = LinePlace(p, k) + l
        /\ FramesBefore(k + 1) = FramesBefore(k) + n
    BY <2>1, PlaceInPage DEF n, l, z
  <2> QED
    BY <1>1, <2>2
<1>6. ASSUME NEW k \in Places, NEW i \in 1 .. n
      PROVE  /\ at[FramesBefore(k) + i] = LinePlace(p, k) + i
             /\ FramesBefore(k) + i <= Len(at)
  <2> DEFINE x == LinePlace(p, k) + i
  <2>1. x \in 1 .. Len(tape) /\ x \in 0 .. Len(tape)
    <3> DEFINE y == LinePlace(p, k)
    <3>1. y \in Nat /\ y + l <= Len(tape)
      BY <1>5
    <3> HIDE DEF y
    <3>2. y + i \in 1 .. Len(tape)
      BY <1>1, <3>1
    <3> QED
      BY <3>2 DEF y
  <2>2. Decoder_Command_Paper_Line(tape[x])
    BY <1>4 DEF AllLines
  <2>3. c[x] = FramesBefore(k) + i
    BY <1>4
  <2> HIDE DEF x
  <2>4. at[c[x]] = x /\ c[x] <= Len(at)
    BY <1>2, <2>1, <2>2
  <2> QED
    BY <2>3, <2>4 DEF x
<1>7. ASSUME NEW k \in Places PROVE CommandAt(tape, at, k) = words[k]
  <2> DEFINE q == LinePlace(p, k)
             w == words[k]
             t == stale[k]
  <2>1. w \in ShortWord /\ t \in Trit /\ k \in Nat
    BY <1>1
  <2>2. q \in Nat /\ q + LineLength <= Len(tape)
    BY <1>5 DEF l
  <2>3. FoundAt(at, k, q)
    BY <1>6 DEF FoundAt, n
  <2>4. LineAt(tape, q, WordFrames(w, t))
    BY DEF PageAt
  <2> HIDE DEF q, w, t
  <2>5. CommandAt(tape, at, k) = w
    BY <2>1, <2>2, <2>3, <2>4, WordFromLoader
  <2> QED
    BY <2>5 DEF w
<1>8. FramesBefore(last) + n = FramesBefore(z) /\ n \in 1 .. n
  BY <1>1, <1>5
<1>9. /\ FramesBefore(z) <= Len(at)
      /\ at[FramesBefore(z)] = LinePlace(p, last) + n
  BY <1>1, <1>6, <1>8
<1>10. LinePlace(p, last) + l = p + PageFrames /\ LinePlace(p, last) \in Nat
  <2>1. LinePlace(p, last + 1) = LinePlace(p, last) + l /\ LinePlace(p, last) \in Nat
    BY <1>1, <1>5
  <2> QED
    BY <1>1, <2>1, PlaceInPage DEF z
<1>11. Least(Len(at) \div n, z) = z
  <2> DEFINE s == Len(at)
  <2>1. s \in Nat /\ n * z <= s
    BY <1>1, <1>2, <1>3, <1>9 DEF FramesBefore, n
  <2> HIDE DEF s
  <2>2. ASSUME n = 4 PROVE Least(s \div n, z) = z
    BY <1>1, <2>1, <2>2 DEF Least
  <2>3. ASSUME n = 5 PROVE Least(s \div n, z) = z
    BY <1>1, <2>1, <2>3 DEF Least
  <2>4. Least(s \div n, z) = z
    BY <1>1, <2>2, <2>3
  <2> QED
    BY <2>4 DEF s
<1>12. at = Accepted(tape, Decoder_Command_Paper_Line)
  BY DEF at, CommandLinesOf
<1>13. /\ Read_Commands_from_FT1(tape).words = [k \in 0 .. z - 1 |-> CommandAt(tape, at, k)]
       /\ Read_Commands_from_FT1(tape).rest = From(tape, at[z * n] + 2)
  BY <1>11, <1>12 DEF Read_Commands_from_FT1, AfterFullPage, n, z
<1>14. at[z * n] + 2 = p + PageFrames + 1
  <2>1. z * n = FramesBefore(z)
    BY <1>1 DEF FramesBefore, n
  <2>2. at[z * n] = LinePlace(p, last) + n
    BY <1>9, <2>1
  <2> QED
    BY <1>1, <1>10, <2>2
<1> QED
  BY <1>1, <1>7, <1>13, <1>14

-----------------------------------------------------------------------------
(***************************************************************************)
(* pages lie on the tape in their order, and no other line of commands     *)
(* does: their frames begin behind the positions at.                       *)
(***************************************************************************)
PageOfWords == [Places -> ShortWord]

ArePlaces(at, stale, tape, pages) ==
    /\ at \in [1 .. Len(pages) -> Nat] /\ stale \in [1 .. Len(pages) -> [Places -> Trit]]
    /\ \A r \in 1 .. Len(pages) : /\ at[r] + PageFrames <= Len(tape)
                                  /\ PageAt(tape, at[r], pages[r], stale[r])
    /\ \A r, q \in 1 .. Len(pages) : r < q => at[r] + PageFrames <= at[q]
    /\ \A x \in 1 .. Len(tape) :
          Decoder_Command_Paper_Line(tape[x]) =>
              \E r \in 1 .. Len(pages) : at[r] < x /\ x <= at[r] + PageFrames

PagesOn(tape, pages) ==
    /\ tape \in Tape /\ pages \in Seq(PageOfWords)
    /\ \E at, stale : ArePlaces(at, stale, tape, pages)

\* Behind position q of u is what lies behind position p of t.
Copied(t, p, u, q) == \A x \in 1 .. PageFrames : u[q + x] = t[p + x]

(* A page whose frames are copied to another place is a page there.        *)
LEMMA PageMoved ==
    ASSUME NEW t, NEW u, NEW p \in Nat, NEW q \in Nat, NEW words, NEW stale,
           Copied(t, p, u, q), PageAt(t, p, words, stale)
    PROVE  PageAt(u, q, words, stale)
<1> SUFFICES ASSUME NEW k \in Places, NEW i \in 1 .. LineLength
             PROVE  u[LinePlace(q, k) + i] = WordFrames(words[k], stale[k])[i]
  BY DEF PageAt, LineAt
<1> DEFINE y == LineLength * k
           x == y + i
<1>1. LineLength \in Nat /\ PageFrames \in Nat /\ k \in Nat /\ k \in 0 .. SIZE_ZONE_TRIT_FRAM
  BY FrameSizes DEF LineLength, PageFrames, Places
<1>2. LinePlace(0, k) \in Nat /\ LinePlace(0, k) + LineLength <= 0 + PageFrames
  BY <1>1, PlaceInPage
<1>3. y \in Nat /\ y + LineLength <= PageFrames
  <2>1. y \in Nat
    BY <1>1
  <2>2. LinePlace(0, k) = 0 + y
    BY DEF LinePlace
  <2> HIDE DEF y
  <2> QED
    BY <1>1, <1>2, <2>1, <2>2
<1>4. LinePlace(q, k) = q + y /\ LinePlace(p, k) = p + y
  BY DEF LinePlace
<1> HIDE DEF y
<1>5. x \in 1 .. PageFrames /\ (q + y) + i = q + x /\ (p + y) + i = p + x
  BY <1>1, <1>3
<1>6. t[(p + y) + i] = WordFrames(words[k], stale[k])[i]
  BY <1>4 DEF PageAt, LineAt
<1> HIDE DEF x
<1>7. u[q + x] = t[p + x]
  BY <1>5 DEF Copied
<1> QED
  BY <1>4, <1>5, <1>6, <1>7

(* What is left of a tape behind position n.                                *)
LEMMA RestIs ==
    ASSUME NEW tape \in Tape, NEW n \in 0 .. Len(tape)
    PROVE  LET rest == From(tape, n + 1)
           IN  /\ rest \in Tape /\ Len(rest) = Len(tape) - n
               /\ \A x \in 1 .. Len(tape) - n : rest[x] = tape[n + x]
<1>1. Len(tape) \in Nat /\ tape \in Seq(Token)
  BY LenProperties DEF Tape
<1>2. CASE n = Len(tape)
  <2>1. From(tape, n + 1) = <<>>
    BY <1>1, <1>2 DEF From
  <2>2. <<>> \in Tape /\ Len(<<>>) = 0
    BY EmptySeq DEF Tape
  <2> QED
    BY <1>1, <1>2, <2>1, <2>2
<1>3. CASE n # Len(tape)
  <2>1. From(tape, n + 1) = SubSeq(tape, n + 1, Len(tape)) /\ Len(tape) \in n .. Len(tape)
    BY <1>1, <1>3 DEF From
  <2>2. /\ SubSeq(tape, n + 1, Len(tape)) \in Seq(Token)
        /\ Len(SubSeq(tape, n + 1, Len(tape))) = Len(tape) - n
        /\ \A x \in 1 .. Len(tape) - n : SubSeq(tape, n + 1, Len(tape))[x] = tape[n + x]
    BY <1>1, <2>1, PartIsPart
  <2> QED
    BY <2>1, <2>2 DEF Tape
<1> QED
  BY <1>2, <1>3

(* The first page is read whole, and the others are left for the next time. *)
THEOREM FirstPageIsRead ==
    ASSUME NEW tape, NEW pages, PagesOn(tape, pages), pages # <<>>
    PROVE  /\ Read_Commands_from_FT1(tape).words = pages[1]
           /\ PagesOn(Read_Commands_from_FT1(tape).rest, Tail(pages))
<1>1. tape \in Tape /\ pages \in Seq(PageOfWords) /\ Len(tape) \in Nat /\ PageFrames \in Nat
  BY LenProperties, FrameSizes DEF PagesOn, Tape, LineLength, PageFrames
<1>2. PICK at, stale : ArePlaces(at, stale, tape, pages)
  BY DEF PagesOn
<1> DEFINE n == Len(pages)
           a == at[1] + PageFrames
           rest == From(tape, a + 1)
           m == Len(tape) - a
           left == Tail(pages)
<1>3. n \in Nat \ {0} /\ 1 \in 1 .. n
  BY <1>1, EmptySeq
<1>4. left \in Seq(PageOfWords) /\ Len(left) = n - 1 /\ \A r \in 1 .. n - 1 : left[r] = pages[r + 1]
  BY <1>1, HeadTailProperties
<1>5. pages[1] \in PageOfWords
  BY <1>1, <1>3, ElementOfSeq
<1> HIDE DEF n, left
<1>6. /\ at \in [1 .. n -> Nat] /\ stale \in [1 .. n -> [Places -> Trit]]
      /\ \A r \in 1 .. n : /\ at[r] + PageFrames <= Len(tape)
                           /\ PageAt(tape, at[r], pages[r], stale[r])
      /\ \A r, q \in 1 .. n : r < q => at[r] + PageFrames <= at[q]
      /\ \A x \in 1 .. Len(tape) :
            Decoder_Command_Paper_Line(tape[x]) =>
                \E r \in 1 .. n : at[r] < x /\ x <= at[r] + PageFrames
  BY <1>2 DEF ArePlaces, n
<1>7. at[1] \in Nat /\ a \in 0 .. Len(tape)
  BY <1>1, <1>3, <1>6
<1>8. NoLines(tape, 0, at[1])
  <2>1. ASSUME NEW x \in 1 .. at[1], Decoder_Command_Paper_Line(tape[0 + x]) PROVE FALSE
    <3>1. x \in 1 .. Len(tape) /\ 0 + x = x
      BY <1>1, <1>7
    <3>2. PICK r \in 1 .. n : at[r] < x
      BY <1>6, <2>1, <3>1
    <3>3. r = 1 \/ 1 < r
      OBVIOUS
    <3>4. at[1] <= at[r]
      BY <1>1, <1>3, <1>6, <3>3
    <3> QED
      BY <1>6, <1>7, <3>2, <3>4
  <2> QED
    BY <2>1 DEF NoLines
<1>9. /\ Read_Commands_from_FT1(tape).words = pages[1]
      /\ Read_Commands_from_FT1(tape).rest = rest
  <2> DEFINE p == at[1]
             s == stale[1]
             w == pages[1]
  <2>1. /\ p \in Nat /\ s \in [Places -> Trit] /\ w \in [Places -> ShortWord]
        /\ p + PageFrames <= Len(tape) /\ PageAt(tape, p, w, s) /\ NoLines(tape, 0, p)
    BY <1>3, <1>5, <1>6, <1>8 DEF PageOfWords
  <2> HIDE DEF p, s, w
  <2>2. /\ Read_Commands_from_FT1(tape).words = w
        /\ Read_Commands_from_FT1(tape).rest = From(tape, p + PageFrames + 1)
    BY <1>1, <2>1, PageIsRead
  <2> QED
    BY <2>2 DEF p, w
<1>10. rest \in Tape /\ Len(rest) = m /\ \A x \in 1 .. m : rest[x] = tape[a + x]
  BY <1>1, <1>7, RestIs
<1> HIDE DEF a, rest
<1> DEFINE before == [r \in 1 .. n - 1 |-> at[r + 1] - a]
           worn == [r \in 1 .. n - 1 |-> stale[r + 1]]
<1>11. ASSUME NEW r \in 1 .. n - 1
       PROVE  /\ before[r] \in Nat /\ a + before[r] = at[r + 1] /\ worn[r] = stale[r + 1]
              /\ before[r] + PageFrames <= m /\ r + 1 \in 1 .. n
  <2> DEFINE k == r + 1
             b == at[k]
  <2>1. k \in 1 .. n /\ 1 < k
    BY <1>3
  <2>2. b \in Nat /\ a <= b /\ b + PageFrames <= Len(tape)
    BY <1>3, <1>6, <2>1 DEF a
  <2>3. before[r] = b - a /\ worn[r] = stale[k]
    OBVIOUS
  <2> HIDE DEF k, b, before
  <2>4. before[r] \in Nat /\ a + before[r] = b /\ before[r] + PageFrames <= m
    BY <1>1, <1>7, <2>2, <2>3
  <2> QED
    BY <2>1, <2>3, <2>4 DEF k, b
<1>12. worn \in [1 .. n - 1 -> [Places -> Trit]] /\ before \in [1 .. n - 1 -> Nat]
  <2>1. \A r \in 1 .. n - 1 : stale[r + 1] \in [Places -> Trit] /\ at[r + 1] - a \in Nat
    <3>1. ASSUME NEW r \in 1 .. n - 1
          PROVE  stale[r + 1] \in [Places -> Trit] /\ at[r + 1] - a \in Nat
      BY <1>6, <1>11
    <3> QED
      BY <3>1
  <2> QED
    BY <2>1
<1> HIDE DEF before, worn
<1>13. ASSUME NEW r \in 1 .. n - 1
       PROVE  PageAt(rest, before[r], left[r], worn[r])
  <2> DEFINE k == r + 1
             p == at[k]
             q == before[r]
  <2>1. k \in 1 .. n /\ q \in Nat /\ p = a + q /\ q + PageFrames <= m /\ p \in Nat
    BY <1>6, <1>11
  <2>2. left[r] = pages[k] /\ worn[r] = stale[k] /\ PageAt(tape, p, pages[k], stale[k])
    BY <1>4, <1>6, <1>11
  <2> HIDE DEF k, p, q
  <2>3. Copied(tape, p, rest, q)
    <3> SUFFICES ASSUME NEW x \in 1 .. PageFrames PROVE rest[q + x] = tape[p + x]
      BY DEF Copied
    <3> DEFINE y == q + x
    <3>1. y \in 1 .. m /\ a + y = p + x
      BY <1>1, <1>7, <2>1
    <3> HIDE DEF y
    <3>2. rest[y] = tape[a + y]
      BY <1>10, <3>1
    <3> QED
      BY <3>1, <3>2 DEF y
  <2>4. PageAt(rest, q, pages[k], stale[k])
    BY <2>1, <2>2, <2>3, PageMoved
  <2> QED
    BY <2>2, <2>4 DEF q
<1>14. ASSUME NEW r \in 1 .. n - 1, NEW q \in 1 .. n - 1, r < q
       PROVE  before[r] + PageFrames <= before[q]
  <2>1. at[r + 1] + PageFrames <= at[q + 1]
    <3>1. r + 1 \in 1 .. n /\ q + 1 \in 1 .. n /\ r + 1 < q + 1
      BY <1>3, <1>14
    <3> QED
      BY <1>6, <3>1
  <2> DEFINE x == before[r]
             y == before[q]
  <2>2. x \in Nat /\ y \in Nat /\ a + x = at[r + 1] /\ a + y = at[q + 1]
    BY <1>11
  <2> HIDE DEF x, y
  <2>3. x + PageFrames <= y
    BY <1>1, <1>7, <2>1, <2>2
  <2> QED
    BY <2>3 DEF x, y
<1>15. ASSUME NEW x \in 1 .. m, Decoder_Command_Paper_Line(rest[x])
       PROVE  \E r \in 1 .. n - 1 : before[r] < x /\ x <= before[r] + PageFrames
  <2> DEFINE y == a + x
  <2>1. y \in 1 .. Len(tape) /\ x \in Nat /\ a < y
    BY <1>1, <1>7
  <2>2. Decoder_Command_Paper_Line(tape[y])
    BY <1>10, <1>15
  <2> HIDE DEF y
  <2>3. PICK k \in 1 .. n : at[k] < y /\ y <= at[k] + PageFrames
    BY <1>6, <2>1, <2>2
  <2>4. k # 1
    BY <1>1, <1>7, <2>1, <2>3 DEF a
  <2> DEFINE r == k - 1
  <2>5. r \in 1 .. n - 1 /\ r + 1 = k
    BY <1>3, <2>4
  <2> HIDE DEF r
  <2>6. before[r] \in Nat /\ a + before[r] = at[k]
    BY <1>11, <2>5
  <2>7. before[r] < x /\ x <= before[r] + PageFrames
    BY <1>1, <1>7, <2>1, <2>3, <2>6 DEF y
  <2> QED
    BY <2>5, <2>7
<1>16. ArePlaces(before, worn, rest, left)
  BY <1>4, <1>10, <1>11, <1>12, <1>13, <1>14, <1>15 DEF ArePlaces
<1>17. PagesOn(rest, left)
  BY <1>4, <1>10, <1>16 DEF PagesOn
<1> QED
  BY <1>9, <1>17 DEF left

-----------------------------------------------------------------------------
(* Tapes one after the other have their pages one after the other.          *)
LEMMA PagesJoined ==
    ASSUME NEW t, NEW ps, PagesOn(t, ps), NEW u, NEW qs, PagesOn(u, qs)
    PROVE  PagesOn(t \o u, ps \o qs)
<1> DEFINE v == t \o u
           rs == ps \o qs
           n == Len(t)
           m == Len(ps)
           l == Len(u)
           d == Len(qs)
<1>1. /\ t \in Seq(Token) /\ u \in Seq(Token) /\ ps \in Seq(PageOfWords) /\ qs \in Seq(PageOfWords)
      /\ n \in Nat /\ m \in Nat /\ l \in Nat /\ d \in Nat /\ PageFrames \in Nat
  BY LenProperties, FrameSizes DEF PagesOn, Tape, LineLength, PageFrames
<1>2. /\ v \in Seq(Token) /\ Len(v) = n + l
      /\ \A x \in 1 .. n + l : v[x] = IF x <= n THEN t[x] ELSE u[x - n]
  BY <1>1, ConcatProperties
<1>3. /\ rs \in Seq(PageOfWords) /\ Len(rs) = m + d
      /\ \A r \in 1 .. m + d : rs[r] = IF r <= m THEN ps[r] ELSE qs[r - m]
  BY <1>1, ConcatProperties
<1>4. PICK a1, s1 : ArePlaces(a1, s1, t, ps)
  BY DEF PagesOn
<1>5. PICK a2, s2 : ArePlaces(a2, s2, u, qs)
  BY DEF PagesOn
<1>6. /\ a1 \in [1 .. m -> Nat] /\ s1 \in [1 .. m -> [Places -> Trit]]
      /\ \A r \in 1 .. m : /\ a1[r] + PageFrames <= n
                           /\ PageAt(t, a1[r], ps[r], s1[r])
      /\ \A r, q \in 1 .. m : r < q => a1[r] + PageFrames <= a1[q]
      /\ \A x \in 1 .. n :
            Decoder_Command_Paper_Line(t[x]) =>
                \E r \in 1 .. m : a1[r] < x /\ x <= a1[r] + PageFrames
  BY <1>4 DEF ArePlaces
<1>7. /\ a2 \in [1 .. d -> Nat] /\ s2 \in [1 .. d -> [Places -> Trit]]
      /\ \A r \in 1 .. d : /\ a2[r] + PageFrames <= l
                           /\ PageAt(u, a2[r], qs[r], s2[r])
      /\ \A r, q \in 1 .. d : r < q => a2[r] + PageFrames <= a2[q]
      /\ \A x \in 1 .. l :
            Decoder_Command_Paper_Line(u[x]) =>
                \E r \in 1 .. d : a2[r] < x /\ x <= a2[r] + PageFrames
  BY <1>5 DEF ArePlaces
<1> HIDE DEF v, rs, n, m, l, d
<1> DEFINE at == [r \in 1 .. m + d |-> IF r <= m THEN a1[r] ELSE n + a2[r - m]]
           stale == [r \in 1 .. m + d |-> IF r <= m THEN s1[r] ELSE s2[r - m]]
<1>8. ASSUME NEW r \in 1 .. m + d
      PROVE  /\ r <= m => r \in 1 .. m /\ at[r] = a1[r] /\ stale[r] = s1[r]
             /\ ~ (r <= m) => r - m \in 1 .. d /\ at[r] = n + a2[r - m] /\ stale[r] = s2[r - m]
  BY <1>1
<1>9. /\ at = [r \in 1 .. m + d |-> at[r]] /\ stale = [r \in 1 .. m + d |-> stale[r]]
  OBVIOUS
<1> HIDE DEF at, stale
<1>10. ASSUME NEW r \in 1 .. m + d
       PROVE  /\ at[r] \in Nat /\ stale[r] \in [Places -> Trit]
              /\ at[r] + PageFrames <= Len(v) /\ PageAt(v, at[r], rs[r], stale[r])
  <2>1. CASE r <= m
    <3> DEFINE p == a1[r]
               w == ps[r]
               s == s1[r]
    <3>1. p \in Nat /\ p + PageFrames <= n /\ PageAt(t, p, w, s) /\ s \in [Places -> Trit]
      BY <1>6, <1>8, <2>1
    <3>2. at[r] = p /\ stale[r] = s /\ rs[r] = w
      BY <1>3, <1>8, <2>1
    <3> HIDE DEF p, w, s
    <3>3. \A x \in 1 .. PageFrames : p + x \in 1 .. n + l /\ p + x <= n
      BY <1>1, <3>1
    <3>4. Copied(t, p, v, p)
      BY <1>2, <3>3 DEF Copied
    <3>5. PageAt(v, p, w, s)
      BY <3>1, <3>4, PageMoved
    <3>6. p + PageFrames <= n + l
      BY <1>1, <3>1
    <3> QED
      BY <1>2, <3>1, <3>2, <3>5, <3>6
  <2>2. CASE ~ (r <= m)
    <3> DEFINE k == r - m
               p == a2[k]
               w == qs[k]
               s == s2[k]
               q == n + p
    <3>1. p \in Nat /\ p + PageFrames <= l /\ PageAt(u, p, w, s) /\ s \in [Places -> Trit]
      BY <1>7, <1>8, <2>2
    <3>2. at[r] = q /\ stale[r] = s /\ rs[r] = w
      BY <1>3, <1>8, <2>2
    <3> HIDE DEF k, p, w, s
    <3>3. \A x \in 1 .. PageFrames : /\ q + x \in 1 .. n + l /\ ~ (q + x <= n)
                                     /\ (q + x) - n = p + x
      BY <1>1, <3>1
    <3>4. q \in Nat /\ q + PageFrames <= n + l
      BY <1>1, <3>1
    <3> HIDE DEF q
    <3>5. Copied(u, p, v, q)
      BY <1>2, <3>3 DEF Copied
    <3>6. PageAt(v, q, w, s)
      BY <3>1, <3>4, <3>5, PageMoved
    <3> QED
      BY <1>2, <3>1, <3>2, <3>4, <3>6
  <2> QED
    BY <2>1, <2>2
<1>11. ASSUME NEW r \in 1 .. m + d, NEW q \in 1 .. m + d, r < q
       PROVE  at[r] + PageFrames <= at[q]
  <2>1. CASE q <= m
    <3>1. r \in 1 .. m /\ q \in 1 .. m /\ at[r] = a1[r] /\ at[q] = a1[q]
      <4>1. r <= m
        BY <1>1, <1>11, <2>1
      <4> QED
        BY <1>8, <2>1, <4>1
    <3> QED
      BY <1>6, <1>11, <3>1
  <2>2. CASE r <= m /\ ~ (q <= m)
    <3>1. a1[r] \in Nat /\ a1[r] + PageFrames <= n /\ a2[q - m] \in Nat
      BY <1>6, <1>7, <1>8, <2>2
    <3>2. at[r] = a1[r] /\ at[q] = n + a2[q - m]
      BY <1>8, <2>2
    <3> QED
      BY <1>1, <3>1, <3>2
  <2>3. CASE ~ (r <= m)
    <3> DEFINE x == r - m
               y == q - m
    <3>1. ~ (q <= m) /\ x < y
      BY <1>1, <1>11, <2>3
    <3>2. x \in 1 .. d /\ y \in 1 .. d /\ at[r] = n + a2[x] /\ at[q] = n + a2[y]
      BY <1>8, <2>3, <3>1
    <3> HIDE DEF x, y
    <3>3. a2[x] + PageFrames <= a2[y] /\ a2[x] \in Nat /\ a2[y] \in Nat
      BY <1>7, <3>1, <3>2
    <3> QED
      BY <1>1, <3>2, <3>3
  <2> QED
    BY <1>1, <1>11, <2>1, <2>2, <2>3
<1>12. ASSUME NEW x \in 1 .. n + l, Decoder_Command_Paper_Line(v[x])
       PROVE  \E r \in 1 .. m + d : at[r] < x /\ x <= at[r] + PageFrames
  <2>1. CASE x <= n
    <3>1. x \in 1 .. n /\ v[x] = t[x]
      BY <1>1, <1>2, <2>1
    <3>2. PICK r \in 1 .. m : a1[r] < x /\ x <= a1[r] + PageFrames
      BY <1>6, <1>12, <3>1
    <3>3. r \in 1 .. m + d /\ r <= m
      BY <1>1
    <3> QED
      BY <1>8, <3>2, <3>3
  <2>2. CASE ~ (x <= n)
    <3> DEFINE y == x - n
    <3>1. y \in 1 .. l /\ v[x] = u[y]
      BY <1>1, <1>2, <2>2
    <3>2. PICK k \in 1 .. d : a2[k] < y /\ y <= a2[k] + PageFrames
      BY <1>7, <1>12, <3>1
    <3> DEFINE r == k + m
    <3>3. r \in 1 .. m + d /\ ~ (r <= m) /\ r - m = k
      BY <1>1
    <3> HIDE DEF r
    <3>4. at[r] = n + a2[k] /\ a2[k] \in Nat
      BY <1>7, <1>8, <3>3
    <3>5. n + a2[k] < x /\ x <= (n + a2[k]) + PageFrames
      BY <1>1, <3>2, <3>4
    <3> QED
      BY <3>3, <3>4, <3>5
  <2> QED
    BY <2>1, <2>2
<1>13. at \in [1 .. m + d -> Nat] /\ stale \in [1 .. m + d -> [Places -> Trit]]
  BY <1>9, <1>10
<1>14. ArePlaces(at, stale, v, rs)
  BY <1>2, <1>3, <1>10, <1>11, <1>12, <1>13 DEF ArePlaces
<1>15. PagesOn(v, rs)
  BY <1>2, <1>3, <1>14 DEF PagesOn, Tape
<1> QED
  BY <1>15 DEF v, rs

-----------------------------------------------------------------------------
(* The pages of a file of whole pages, and the tape of the file.            *)
PagesOf(file) ==
    [r \in 1 .. Len(file) \div SIZE_ZONE_TRIT_FRAM |->
        [k \in Places |-> file[SIZE_ZONE_TRIT_FRAM * (r - 1) + k + 1]]]

HasWholePages(file) ==
    file \in Seq(ShortWord) /\ Len(file) % SIZE_ZONE_TRIT_FRAM = 0

(* The two sizes of a page, in frames, lines and words.                    *)
LEMMA FrameNumbers ==
    \/ CommandFrames = 4 /\ LineLength = 5 /\ SIZE_ZONE_TRIT_FRAM = 6 /\ PageFrames = 30
    \/ CommandFrames = 5 /\ LineLength = 6 /\ SIZE_ZONE_TRIT_FRAM = 54 /\ PageFrames = 324
<1>1. pow3(1) = 3 /\ pow3(3) = 27
  BY DEF pow3, POW3_TABLE
<1>2. RT = 2 \/ RT = 4
  BY MemoryAssumption, PaperTapeAssumption
<1>3. ASSUME RT = 2
      PROVE  CommandFrames = 4 /\ LineLength = 5 /\ SIZE_ZONE_TRIT_FRAM = 6 /\ PageFrames = 30
  <2>1. CommandFrames = 4
    BY <1>3 DEF CommandFrames, SW, AT
  <2>2. RT - 1 = 1
    BY <1>3
  <2>3. SIZE_ZONE_TRIT_FRAM = 6
    BY <1>1, <2>2 DEF SIZE_ZONE_TRIT_FRAM
  <2> QED
    BY <2>1, <2>3 DEF LineLength, PageFrames
<1>4. ASSUME RT = 4
      PROVE  CommandFrames = 5 /\ LineLength = 6 /\ SIZE_ZONE_TRIT_FRAM = 54 /\ PageFrames = 324
  <2>1. CommandFrames = 5
    BY <1>4 DEF CommandFrames, SW, AT
  <2>2. RT - 1 = 3
    BY <1>4
  <2>3. SIZE_ZONE_TRIT_FRAM = 54
    BY <1>1, <2>2 DEF SIZE_ZONE_TRIT_FRAM
  <2> QED
    BY <2>1, <2>3 DEF LineLength, PageFrames
<1> QED
  BY <1>2, <1>3, <1>4

(* The words of a page within a file, and its frames within the tape.       *)
LEMMA PageOfFile ==
    ASSUME NEW m \in Nat, NEW r \in 1 .. m, NEW k \in Places
    PROVE  LET i == SIZE_ZONE_TRIT_FRAM * (r - 1) + k
               p == PageFrames * (r - 1)
           IN  /\ i + 1 \in 1 .. SIZE_ZONE_TRIT_FRAM * m
               /\ p \in Nat /\ p + PageFrames = PageFrames * r
               /\ p + PageFrames <= PageFrames * m
               /\ LineLength * i = LinePlace(p, k)
               /\ \A q \in 1 .. m : r < q => p + PageFrames <= PageFrames * (q - 1)
<1>1. ASSUME CommandFrames = 4, LineLength = 5, SIZE_ZONE_TRIT_FRAM = 6, PageFrames = 30
      PROVE  LET i == SIZE_ZONE_TRIT_FRAM * (r - 1) + k
                 p == PageFrames * (r - 1)
             IN  /\ i + 1 \in 1 .. SIZE_ZONE_TRIT_FRAM * m
                 /\ p \in Nat /\ p + PageFrames = PageFrames * r
                 /\ p + PageFrames <= PageFrames * m
                 /\ LineLength * i = LinePlace(p, k)
                 /\ \A q \in 1 .. m : r < q => p + PageFrames <= PageFrames * (q - 1)
  BY <1>1 DEF Places, LinePlace
<1>2. ASSUME CommandFrames = 5, LineLength = 6, SIZE_ZONE_TRIT_FRAM = 54, PageFrames = 324
      PROVE  LET i == SIZE_ZONE_TRIT_FRAM * (r - 1) + k
                 p == PageFrames * (r - 1)
             IN  /\ i + 1 \in 1 .. SIZE_ZONE_TRIT_FRAM * m
                 /\ p \in Nat /\ p + PageFrames = PageFrames * r
                 /\ p + PageFrames <= PageFrames * m
                 /\ LineLength * i = LinePlace(p, k)
                 /\ \A q \in 1 .. m : r < q => p + PageFrames <= PageFrames * (q - 1)
  BY <1>2 DEF Places, LinePlace
<1> QED
  BY <1>1, <1>2, FrameNumbers

(* Each frame belongs to a page.                                           *)
LEMMA PageOfFrame ==
    ASSUME NEW m \in Nat, NEW x \in 1 .. PageFrames * m
    PROVE  \E r \in 1 .. m : PageFrames * (r - 1) < x /\ x <= PageFrames * (r - 1) + PageFrames
<1> DEFINE r == ((x - 1) \div PageFrames) + 1
<1>1. r \in 1 .. m /\ PageFrames * (r - 1) < x /\ x <= PageFrames * (r - 1) + PageFrames
  <2>1. ASSUME PageFrames = 30
        PROVE  r \in 1 .. m /\ PageFrames * (r - 1) < x /\ x <= PageFrames * (r - 1) + PageFrames
    BY <2>1
  <2>2. ASSUME PageFrames = 324
        PROVE  r \in 1 .. m /\ PageFrames * (r - 1) < x /\ x <= PageFrames * (r - 1) + PageFrames
    BY <2>2
  <2> QED
    BY <2>1, <2>2, FrameNumbers
<1> QED
  BY <1>1

-----------------------------------------------------------------------------
(* The blank of the loader is no line of commands.                         *)
LEMMA BlankIsNoLine == ~ Decoder_Command_Paper_Line(Blank)
<1>1. tab4_2[0] = 13
  BY DEF tab4_2, TableFrom, NoPair
<1> QED
  BY <1>1 DEF Decoder_Command_Paper_Line, Decoder_Command, Blank, Line

(* The frames of the words of a file lie on its tape one after the other,   *)
(* and five blanks behind them.                                             *)
LEMMA FramesOfFile ==
    ASSUME NEW file \in Seq(ShortWord)
    PROVE  /\ FileFrames(file) \in Tape
           /\ Len(FileFrames(file)) = LineLength * Len(file) + 5
           /\ \A i \in 1 .. Len(file) :
                 /\ StaleTrit(file, i) \in Trit
                 /\ LineAt(FileFrames(file), LineLength * (i - 1),
                           WordFrames(file[i], StaleTrit(file, i)))
           /\ \A x \in 1 .. 5 :
                 FileFrames(file)[LineLength * Len(file) + x] = Blank
<1> DEFINE n == Len(file)
           l == LineLength
           f == [i \in 1 .. n |-> WordFrames(file[i], StaleTrit(file, i))]
           o == [i \in 0 .. n |-> l * i]
           body == Concat(f, n)
           blanks == << Blank, Blank, Blank, Blank, Blank >>
           tape == FileFrames(file)
<1>1. n \in Nat /\ l \in Nat /\ l = CommandFrames + 1 /\ l * n \in Nat
      /\ \A i \in 1 .. n : file[i] \in ShortWord
  <2>1. l \in Nat /\ l = CommandFrames + 1
    BY FrameSizes DEF LineLength
  <2>2. n \in Nat /\ \A i \in 1 .. n : file[i] \in ShortWord
    BY LenProperties, ElementOfSeq
  <2> QED
    BY <2>1, <2>2
<1>2. \A i \in 1 .. n : StaleTrit(file, i) \in Trit
  <2>1. \A w \in ShortWord : get_trit_setun(w, SW, SW - 1) \in Trit
    BY Sizes, TritType DEF ShortWord, Trit
  <2>2. \A i \in 1 .. n : i # 1 => i - 1 \in 1 .. n
    BY <1>1
  <2> QED
    BY <1>1, <2>1, <2>2 DEF StaleTrit, Trit
<1>3. ASSUME NEW i \in 1 .. n PROVE f[i] \in Seq(Token) /\ Len(f[i]) = l
  <2> DEFINE g == f[i]
  <2>1. g = WordFrames(file[i], StaleTrit(file, i))
    OBVIOUS
  <2>2. \A j \in 1 .. l : g[j] \in Token
    BY <1>1, <1>2, <2>1, LoaderFrames
  <2>3. g = [j \in 1 .. l |-> g[j]]
    BY <1>1, <2>1 DEF WordFrames
  <2> HIDE DEF g, l
  <2> QED
    BY <1>1, <2>2, <2>3 DEF g
<1>4. f \in [1 .. n -> Seq(Token)]
  <2>1. f = [i \in 1 .. n |-> f[i]]
    OBVIOUS
  <2> HIDE DEF f
  <2> QED
    BY <1>3, <2>1
<1>5. ASSUME NEW i \in 1 .. n
      PROVE  o[i - 1] = l * (i - 1) /\ o[i] = o[i - 1] + l
  <2>1. i - 1 \in 0 .. n /\ i \in 0 .. n
    BY <1>1
  <2>2. o[i - 1] = l * (i - 1) /\ o[i] = l * i
    BY <2>1
  <2>3. l * i = l * (i - 1) + l
    BY <1>1
  <2> QED
    BY <2>2, <2>3
<1>6. IsOffset(o, f, n) /\ o[n] = l * n
  <2>1. \A i \in 0 .. n : l * i \in Nat
    BY <1>1
  <2>2. o \in [0 .. n -> Nat]
    BY <2>1
  <2>3. o[0] = 0 /\ o[n] = l * n
    BY <1>1
  <2> HIDE DEF o, f, l
  <2> QED
    BY <1>3, <1>5, <2>2, <2>3 DEF IsOffset
<1> HIDE DEF o, body
<1>7. Joins(body, o, f, n, Token)
  <2> HIDE DEF f, n
  <2> QED
    BY <1>1, <1>4, <1>6, ConcatJoins DEF body
<1>8. blanks \in Seq(Token) /\ Len(blanks) = 5 /\ \A x \in 1 .. 5 : blanks[x] = Blank
  <2>1. Blank \in Token
    BY DEF Blank, Line, Token, LineCodes, TAB_SIZE
  <2> HIDE DEF l
  <2> QED
    BY <2>1
<1>9. tape = body \o blanks
  BY DEF FileFrames, body
<1>10. /\ body \in Seq(Token) /\ Len(body) = l * n
       /\ \A i \in 1 .. n : \A x \in 1 .. l : body[o[i - 1] + x] = f[i][x]
  <2> HIDE DEF f, n, l
  <2> QED
    BY <1>3, <1>6, <1>7 DEF Joins
<1> HIDE DEF tape, blanks
<1> DEFINE last == l * n
<1>11. last \in Nat
  BY <1>1
<1> HIDE DEF last
<1>12. /\ tape \in Seq(Token) /\ Len(tape) = last + 5
       /\ \A x \in 1 .. last + 5 : tape[x] = IF x <= last THEN body[x] ELSE blanks[x - last]
  <2>1. Len(body) = last
    BY <1>10 DEF last
  <2> HIDE DEF f, l, n
  <2>2. /\ body \o blanks \in Seq(Token) /\ Len(body \o blanks) = Len(body) + Len(blanks)
        /\ \A x \in 1 .. Len(body) + Len(blanks) :
              (body \o blanks)[x] = IF x <= Len(body) THEN body[x] ELSE blanks[x - Len(body)]
    BY <1>8, <1>10, ConcatProperties
  <2> QED
    BY <1>8, <1>9, <2>1, <2>2
<1>13. ASSUME NEW i \in 1 .. n PROVE LineAt(tape, l * (i - 1), f[i])
  <2> DEFINE p == o[i - 1]
  <2>1. p = l * (i - 1) /\ p \in Nat /\ p + l <= last
    <3>1. l * i <= last /\ l * (i - 1) \in Nat /\ l * i = l * (i - 1) + l
      BY <1>1 DEF last
    <3> QED
      BY <1>5, <3>1
  <2>2. \A x \in 1 .. l : body[p + x] = f[i][x]
    BY <1>10
  <2> HIDE DEF p, l, f
  <2>3. ASSUME NEW x \in 1 .. l PROVE tape[p + x] = f[i][x]
    <3> DEFINE y == p + x
    <3>1. y \in 1 .. last + 5 /\ y <= last
      <4>1. p \in Nat /\ p + l <= last /\ l \in Nat
        BY <1>1, <2>1
      <4> QED
        BY <1>11, <4>1
    <3> HIDE DEF y
    <3>2. tape[y] = body[y]
      BY <1>12, <3>1
    <3> QED
      BY <2>2, <3>2 DEF y
  <2>4. LineAt(tape, p, f[i])
    BY <2>3 DEF LineAt, l
  <2> QED
    BY <2>1, <2>4
<1>14. \A x \in 1 .. 5 : tape[last + x] = Blank
  <2>1. ASSUME NEW x \in 1 .. 5 PROVE tape[last + x] = Blank
    <3> DEFINE y == last + x
    <3>1. y \in 1 .. last + 5 /\ ~ (y <= last) /\ y - last = x
      BY <1>11
    <3> HIDE DEF y
    <3>2. tape[y] = blanks[x]
      BY <1>12, <3>1
    <3> QED
      BY <1>8, <3>2 DEF y
  <2> QED
    BY <2>1
<1> QED
  BY <1>2, <1>12, <1>13, <1>14 DEF tape, last, Tape

(* The tape of a file has its pages.                                        *)
LEMMA FileHasPages ==
    ASSUME NEW file, HasWholePages(file) PROVE PagesOn(FileFrames(file), PagesOf(file))
<1> DEFINE z == SIZE_ZONE_TRIT_FRAM
           l == LineLength
           m == Len(file) \div z
           tape == FileFrames(file)
           pages == PagesOf(file)
           s(r) == [k \in Places |-> StaleTrit(file, z * (r - 1) + k + 1)]
           at == [r \in 1 .. m |-> PageFrames * (r - 1)]
           stale == [r \in 1 .. m |-> s(r)]
<1>1. file \in Seq(ShortWord) /\ Len(file) \in Nat
  BY LenProperties DEF HasWholePages
<1>2. /\ m \in Nat /\ Len(file) = z * m /\ l * Len(file) = PageFrames * m
      /\ PageFrames * m \in Nat /\ PageFrames \in Nat
  <2>1. Len(file) % z = 0
    BY DEF HasWholePages
  <2> DEFINE d == Len(file)
             q == d \div z
  <2>2. q \in Nat /\ d = z * q /\ l * d = PageFrames * q /\ PageFrames * q \in Nat
        /\ PageFrames \in Nat
    <3>1. d \in Nat /\ d % z = 0
      BY <1>1, <2>1
    <3> HIDE DEF d
    <3>2. ASSUME z = 6, l = 5, PageFrames = 30
          PROVE  q \in Nat /\ d = z * q /\ l * d = PageFrames * q /\ PageFrames * q \in Nat
                 /\ PageFrames \in Nat
      BY <3>1, <3>2
    <3>3. ASSUME z = 54, l = 6, PageFrames = 324
          PROVE  q \in Nat /\ d = z * q /\ l * d = PageFrames * q /\ PageFrames * q \in Nat
                 /\ PageFrames \in Nat
      BY <3>1, <3>3
    <3> QED
      BY <3>2, <3>3, FrameNumbers
  <2> QED
    BY <2>2
<1>3. /\ tape \in Tape /\ Len(tape) = PageFrames * m + 5
      /\ \A i \in 1 .. z * m :
            /\ StaleTrit(file, i) \in Trit /\ file[i] \in ShortWord
            /\ LineAt(tape, l * (i - 1), WordFrames(file[i], StaleTrit(file, i)))
      /\ \A x \in 1 .. 5 : tape[PageFrames * m + x] = Blank
  <2>1. \A i \in 1 .. Len(file) : file[i] \in ShortWord
    BY <1>1, ElementOfSeq
  <2> DEFINE d == Len(file)
  <2>2. /\ tape \in Tape /\ Len(tape) = l * d + 5
        /\ \A i \in 1 .. d :
              /\ StaleTrit(file, i) \in Trit
              /\ LineAt(tape, l * (i - 1), WordFrames(file[i], StaleTrit(file, i)))
        /\ \A x \in 1 .. 5 : tape[l * d + x] = Blank
    BY <1>1, FramesOfFile
  <2>3. d = z * m /\ l * d = PageFrames * m
    BY <1>2
  <2> HIDE DEF d, m, tape, l, z
  <2> QED
    BY <2>1, <2>2, <2>3 DEF d
<1>4. /\ Len(pages) = m /\ \A r \in 1 .. m : \A k \in Places : pages[r][k] = file[z * (r - 1) + k + 1]
      /\ pages = [r \in 1 .. m |-> pages[r]]
  BY <1>2 DEF PagesOf
<1>5. \A r \in 1 .. m : pages[r] = [k \in Places |-> file[z * (r - 1) + k + 1]]
  BY DEF PagesOf
<1> HIDE DEF z, l, m, tape, pages
<1>6. ASSUME NEW r \in 1 .. m, NEW k \in Places
      PROVE  /\ (z * (r - 1) + k) + 1 \in 1 .. z * m
             /\ l * (z * (r - 1) + k) = LinePlace(PageFrames * (r - 1), k)
             /\ z * (r - 1) + k \in Int
  <2>1. /\ (z * (r - 1) + k) + 1 \in 1 .. z * m
        /\ l * (z * (r - 1) + k) = LinePlace(PageFrames * (r - 1), k)
    BY <1>2, PageOfFile DEF z, l
  <2>2. z \in Int /\ k \in Int
    BY FrameSizes DEF z, Places
  <2> QED
    BY <1>2, <2>1, <2>2
<1>7. ASSUME NEW r \in 1 .. m
      PROVE  /\ PageFrames * (r - 1) \in Nat
             /\ PageFrames * (r - 1) + PageFrames <= PageFrames * m
             /\ \A q \in 1 .. m : r < q => PageFrames * (r - 1) + PageFrames <= PageFrames * (q - 1)
  <2>1. 0 \in Places
    BY FrameSizes DEF Places
  <2> QED
    BY <1>2, <2>1, PageOfFile
<1>8. ASSUME NEW r \in 1 .. m, NEW k \in Places
      PROVE  /\ pages[r][k] \in ShortWord
             /\ s(r)[k] \in Trit
             /\ LineAt(tape, LinePlace(PageFrames * (r - 1), k), WordFrames(pages[r][k], s(r)[k]))
  <2> DEFINE i == z * (r - 1) + k
             j == i + 1
  <2>1. j \in 1 .. z * m /\ l * i = LinePlace(PageFrames * (r - 1), k) /\ j - 1 = i
    BY <1>6
  <2>2. pages[r][k] = file[j] /\ s(r)[k] = StaleTrit(file, j)
    BY <1>4
  <2> HIDE DEF i
  <2> HIDE DEF j, s
  <2>3. /\ StaleTrit(file, j) \in Trit /\ file[j] \in ShortWord
        /\ LineAt(tape, l * (j - 1), WordFrames(file[j], StaleTrit(file, j)))
    BY <1>3, <2>1
  <2> QED
    BY <2>1, <2>2, <2>3
<1>9. ASSUME NEW r \in 1 .. m
      PROVE  /\ at[r] = PageFrames * (r - 1) /\ stale[r] = s(r)
             /\ s(r) \in [Places -> Trit]
             /\ pages[r] \in PageOfWords
             /\ PageAt(tape, PageFrames * (r - 1), pages[r], s(r))
  <2>1. at[r] = PageFrames * (r - 1) /\ stale[r] = s(r)
    OBVIOUS
  <2>2. s(r) \in [Places -> Trit]
    BY <1>8
  <2>3. pages[r] \in PageOfWords
    <3>1. \A k \in Places : pages[r][k] \in ShortWord
      BY <1>8
    <3> QED
      BY <1>4, <1>5, <3>1 DEF PageOfWords
  <2>4. PageAt(tape, PageFrames * (r - 1), pages[r], s(r))
    BY <1>8 DEF PageAt
  <2> QED
    BY <2>1, <2>2, <2>3, <2>4
<1>10. at = [r \in 1 .. m |-> at[r]] /\ stale = [r \in 1 .. m |-> stale[r]]
  OBVIOUS
<1> HIDE DEF at, stale, s
<1>11. at \in [1 .. m -> Nat] /\ stale \in [1 .. m -> [Places -> Trit]]
  BY <1>7, <1>9, <1>10
<1>12. pages \in Seq(PageOfWords)
  BY <1>2, <1>4, <1>9
<1>13. ASSUME NEW r \in 1 .. m
       PROVE  at[r] + PageFrames <= Len(tape) /\ PageAt(tape, at[r], pages[r], stale[r])
  <2>1. PageAt(tape, at[r], pages[r], stale[r])
    BY <1>9
  <2> DEFINE p == PageFrames * (r - 1)
             last == PageFrames * m
  <2>2. p \in Nat /\ p + PageFrames <= last /\ last \in Nat /\ Len(tape) = last + 5 /\ at[r] = p
    BY <1>2, <1>3, <1>7, <1>9
  <2> HIDE DEF p, last
  <2>3. p + PageFrames <= Len(tape)
    BY <1>2, <2>2
  <2> QED
    BY <2>1, <2>2, <2>3
<1>14. \A r, q \in 1 .. m : r < q => at[r] + PageFrames <= at[q]
  <2>1. ASSUME NEW r \in 1 .. m, NEW q \in 1 .. m, r < q PROVE at[r] + PageFrames <= at[q]
    <3>1. PageFrames * (r - 1) + PageFrames <= PageFrames * (q - 1)
      BY <1>7, <2>1
    <3> QED
      BY <1>9, <3>1
  <2> QED
    BY <2>1
<1>15. ASSUME NEW x \in 1 .. Len(tape), Decoder_Command_Paper_Line(tape[x])
       PROVE  \E r \in 1 .. m : at[r] < x /\ x <= at[r] + PageFrames
  <2> DEFINE last == PageFrames * m
  <2>1. last \in Nat /\ Len(tape) = last + 5
    BY <1>2, <1>3
  <2> HIDE DEF last
  <2>2. CASE x <= last
    <3>1. x \in 1 .. PageFrames * m
      BY <2>1, <2>2 DEF last
    <3>2. PICK r \in 1 .. m : /\ PageFrames * (r - 1) < x
                              /\ x <= PageFrames * (r - 1) + PageFrames
      BY <1>2, <3>1, PageOfFrame
    <3>3. at[r] = PageFrames * (r - 1)
      BY <1>9
    <3> QED
      BY <3>2, <3>3
  <2>3. CASE ~ (x <= last)
    <3> DEFINE y == x - last
    <3>1. y \in 1 .. 5 /\ last + y = x
      BY <2>1, <2>3
    <3> HIDE DEF y
    <3>2. tape[last + y] = Blank
      BY <1>3, <3>1 DEF last
    <3>3. ~ Decoder_Command_Paper_Line(Blank)
      BY BlankIsNoLine
    <3> QED
      BY <1>15, <3>1, <3>2, <3>3
  <2> QED
    BY <2>2, <2>3
<1>16. ArePlaces(at, stale, tape, pages)
  BY <1>4, <1>11, <1>13, <1>14, <1>15 DEF ArePlaces
<1>17. PagesOn(tape, pages)
  BY <1>3, <1>12, <1>16 DEF PagesOn
<1> QED
  BY <1>17 DEF tape, pages

-----------------------------------------------------------------------------
\* The pages of some files, in their order.
PagesOfFiles(files) ==
    Concat([i \in 1 .. Len(files) |-> PagesOf(files[i])], Len(files))

(* The tape the loader writes for files of whole pages                     *)
(* (LoadFileListToPaperTxt) has the pages of these files in their order.   *)
THEOREM LoaderTapeHasPages ==
    ASSUME NEW files, files \in Seq(Seq(ShortWord)),
           \A i \in 1 .. Len(files) : HasWholePages(files[i])
    PROVE  PagesOn(LoadFileListToPaperTxt(files), PagesOfFiles(files))
<1> DEFINE n == Len(files)
           f == [i \in 1 .. n |-> FileFrames(files[i])]
           g == [i \in 1 .. n |-> PagesOf(files[i])]
<1>1. n \in Nat
  BY LenProperties
<1>2. ASSUME NEW i \in 1 .. n
      PROVE  PagesOn(f[i], g[i]) /\ f[i] \in Seq(Token) /\ g[i] \in Seq(PageOfWords)
  <2>1. f[i] = FileFrames(files[i]) /\ g[i] = PagesOf(files[i])
    OBVIOUS
  <2>2. PagesOn(FileFrames(files[i]), PagesOf(files[i]))
    BY FileHasPages
  <2> HIDE DEF f, g
  <2>3. PagesOn(f[i], g[i])
    BY <2>1, <2>2
  <2> QED
    BY <2>3 DEF PagesOn, Tape
<1>3. f = [i \in 1 .. n |-> f[i]] /\ g = [i \in 1 .. n |-> g[i]]
  OBVIOUS
<1>4. LoadFileListToPaperTxt(files) = Concat(f, n) /\ PagesOfFiles(files) = Concat(g, n)
  BY DEF LoadFileListToPaperTxt, PagesOfFiles
<1> HIDE DEF n, f, g
<1>5. f \in [1 .. n -> Seq(Token)] /\ g \in [1 .. n -> Seq(PageOfWords)]
  BY <1>2, <1>3
<1>6. PICK o1 : IsOffset(o1, f, n)
  BY <1>1, <1>5, OffsetExists
<1>7. PICK o2 : IsOffset(o2, g, n)
  BY <1>1, <1>5, OffsetExists
<1> DEFINE Both(k) == \E s, ps : /\ Joins(s, o1, f, k, Token)
                                 /\ Joins(ps, o2, g, k, PageOfWords)
                                 /\ PagesOn(s, ps)
           T == {k \in 0 .. n : Both(k)}
<1>8. 0 \in T
  <2>1. Joins(<<>>, o1, f, 0, Token) /\ Joins(<<>>, o2, g, 0, PageOfWords)
    <3>1. o1[0] = 0 /\ o2[0] = 0
      BY <1>6, <1>7 DEF IsOffset
    <3> QED
      BY <3>1, EmptySeq DEF Joins
  <2>2. PagesOn(<<>>, <<>>)
    <3> DEFINE none == [r \in 1 .. 0 |-> 0]
    <3>1. Len(<<>>) = 0 /\ <<>> \in Seq(PageOfWords) /\ <<>> \in Tape
      BY EmptySeq DEF Tape
    <3>2. none \in [1 .. 0 -> Nat] /\ none \in [1 .. 0 -> [Places -> Trit]]
      OBVIOUS
    <3> HIDE DEF none
    <3>3. ArePlaces(none, none, <<>>, <<>>)
      BY <3>1, <3>2 DEF ArePlaces
    <3> QED
      BY <3>1, <3>3 DEF PagesOn
  <2>3. 0 \in 0 .. n
    BY <1>1
  <2> QED
    BY <2>1, <2>2, <2>3
<1>9. ASSUME NEW k \in 0 .. n - 1, k \in T PROVE k + 1 \in T
  <2> DEFINE m == k + 1
  <2>1. m \in 1 .. n /\ m \in 0 .. n /\ m = k + 1
    BY <1>1
  <2> HIDE DEF m
  <2>2. PICK s, ps : /\ Joins(s, o1, f, k, Token) /\ Joins(ps, o2, g, k, PageOfWords)
                     /\ PagesOn(s, ps)
    BY <1>9
  <2>3. Joins(s \o f[m], o1, f, m, Token)
    BY <1>1, <1>5, <1>6, <2>1, <2>2, JoinStep
  <2>4. Joins(ps \o g[m], o2, g, m, PageOfWords)
    BY <1>1, <1>5, <1>7, <2>1, <2>2, JoinStep
  <2>5. PagesOn(s \o f[m], ps \o g[m])
    BY <1>2, <2>1, <2>2, PagesJoined
  <2>6. m \in T
    BY <2>1, <2>3, <2>4, <2>5
  <2> QED
    BY <2>1, <2>6
<1>10. n \in T
  <2>1. 0 \in Nat /\ n \in Nat
    BY <1>1
  <2> HIDE DEF T
  <2>2. 0 .. n \subseteq T
    BY <1>8, <1>9, <2>1, Induction
  <2> QED
    BY <2>1, <2>2
<1>11. PICK s, ps : /\ Joins(s, o1, f, n, Token) /\ Joins(ps, o2, g, n, PageOfWords)
                    /\ PagesOn(s, ps)
  BY <1>10
<1>12. Concat(f, n) = s
  BY <1>1, <1>5, <1>6, <1>11, ConcatIsJoin
<1>13. Concat(g, n) = ps
  BY <1>1, <1>5, <1>7, <1>11, ConcatIsJoin
<1> QED
  BY <1>4, <1>11, <1>12, <1>13

(* A page read from FT1 is the first of those on its tape, whole, in its    *)
(* place in the memory, and the tape keeps the others: when the operator    *)
(* starts the machine (Emu_Begin) and by the instruction -00 with code 1.   *)
PagesAreReadInOrder ==
    [][ \A pages : pages # <<>> =>
          /\ Step({-9}) /\ opened /\ OtherTrits(A) = 1 /\ PagesOn(ptr1, pages) =>
                LoadRun(fram', FirstTrit(A)) = pages[1] /\ PagesOn(ptr1', Tail(pages))
          /\ Emu_Begin /\ PagesOn(paper1, pages) =>
                LoadRun(fram', 0) = pages[1] /\ PagesOn(ptr1', Tail(pages)) ]_vars

(* What a loop over a page stores is what a loop over it loads.             *)
LEMMA StoredPageLoads ==
    ASSUME NEW m \in FramType, NEW k \in Trit, NEW words \in PageOfWords
    PROVE  LoadRun(StoreRun(m, k, words), k) = words
<1>1. DOMAIN words = Places /\ \A p \in Places : words[p] \in ShortWord
  BY DEF PageOfWords
<1> DEFINE s == StoreRun(m, k, words)
<1>2. \A p \in Places : s[PageCell(k, p)] = words[p]
  <2>1. \A p \in Places :
            s[PageCell(k, p)] = IF p \in DOMAIN words THEN words[p] ELSE m[PageCell(k, p)]
    BY StoreRunCells
  <2> HIDE DEF s
  <2> QED
    BY <1>1, <2>1
<1>3. s \in FramType
  BY <1>1, StoreRunType
<1> HIDE DEF s
<1>4. /\ LoadRun(s, k) \in [Places -> ShortWord]
      /\ \A p \in Places : LoadRun(s, k)[p] = s[PageCell(k, p)]
  BY <1>3, LoadRunCells
<1>5. LoadRun(s, k) = words
  BY <1>2, <1>4 DEF PageOfWords
<1> QED
  BY <1>5 DEF s

(* The device with code 1 is the command reader of FT1.                     *)
LEMMA FirstReaderOfCode ==
    ASSUME op_minus00, OtherTrits(A) = 1 PROVE Commands_FT1
<1>1. \A code : InputOutput(code) => OtherTrits(A) = code
  BY DEF InputOutput
<1>2. ~ No_Device
  BY DEF No_Device, DeviceCodes
<1>3. ~ Punch_Commands /\ ~ Punch_Symbols /\ ~ Print_Commands /\ ~ Print_Symbols
  BY <1>1 DEF Punch_Commands, Punch_Symbols, Print_Commands, Print_Symbols
<1>4. ~ Commands_FT2 /\ ~ Symbols_FT1 /\ ~ Symbols_FT2
  BY <1>1 DEF Commands_FT2, Symbols_FT1, Symbols_FT2
<1> QED
  BY <1>2, <1>3, <1>4 DEF op_minus00

(* So pages come in from FT1 one by one, in whatever state the machine is. *)
THEOREM PagesAreRead == Spec => PagesAreReadInOrder
<1> DEFINE InOrder ==
      \A pages : pages # <<>> =>
          /\ Step({-9}) /\ opened /\ OtherTrits(A) = 1 /\ PagesOn(ptr1, pages) =>
                LoadRun(fram', FirstTrit(A)) = pages[1] /\ PagesOn(ptr1', Tail(pages))
          /\ Emu_Begin /\ PagesOn(paper1, pages) =>
                LoadRun(fram', 0) = pages[1] /\ PagesOn(ptr1', Tail(pages))
<1>1. ASSUME TypeOK, Next PROVE InOrder
  <2> SUFFICES ASSUME NEW pages, pages # <<>>
               PROVE  /\ Step({-9}) /\ opened /\ OtherTrits(A) = 1 /\ PagesOn(ptr1, pages) =>
                            /\ LoadRun(fram', FirstTrit(A)) = pages[1]
                            /\ PagesOn(ptr1', Tail(pages))
                      /\ Emu_Begin /\ PagesOn(paper1, pages) =>
                            LoadRun(fram', 0) = pages[1] /\ PagesOn(ptr1', Tail(pages))
    OBVIOUS
  <2>1. ASSUME NEW k \in Trit, NEW tape, PagesOn(tape, pages),
               fram' = StoreRun(fram, k, Read_Commands_from_FT1(tape).words),
               ptr1' = Read_Commands_from_FT1(tape).rest
        PROVE  LoadRun(fram', k) = pages[1] /\ PagesOn(ptr1', Tail(pages))
    <3>1. /\ Read_Commands_from_FT1(tape).words = pages[1]
          /\ PagesOn(Read_Commands_from_FT1(tape).rest, Tail(pages))
      BY <2>1, FirstPageIsRead
    <3>2. pages[1] \in PageOfWords
      <4>1. pages \in Seq(PageOfWords) /\ Len(pages) \in Nat /\ Len(pages) # 0
        BY <2>1, LenProperties, EmptySeq DEF PagesOn
      <4> QED
        BY <4>1, ElementOfSeq
    <3>3. fram \in FramType
      BY <1>1 DEF TypeOK
    <3>4. LoadRun(StoreRun(fram, k, pages[1]), k) = pages[1]
      BY <3>2, <3>3, StoredPageLoads
    <3> QED
      BY <2>1, <3>1, <3>4
  <2>2. ASSUME Step({-9}), opened, OtherTrits(A) = 1, PagesOn(ptr1, pages)
        PROVE  LoadRun(fram', FirstTrit(A)) = pages[1] /\ PagesOn(ptr1', Tail(pages))
    <3>1. Commands_FT1
      BY <1>1, <2>2, CountedStep, CodeOfStep, FirstReaderOfCode DEF Step
    <3>2. /\ fram' = StoreRun(fram, FirstTrit(A), Read_Commands_from_FT1(ptr1).words)
          /\ ptr1' = Read_Commands_from_FT1(ptr1).rest
      BY <2>2, <3>1 DEF Commands_FT1, Reads
    <3>3. FirstTrit(A) \in Trit
      BY <1>1, OperandTypes, AddressParts
    <3> QED
      BY <2>1, <2>2, <3>2, <3>3
  <2>3. ASSUME Emu_Begin, PagesOn(paper1, pages)
        PROVE  LoadRun(fram', 0) = pages[1] /\ PagesOn(ptr1', Tail(pages))
    <3>1. /\ fram' = StoreRun(fram, 0, Read_Commands_from_FT1(paper1).words)
          /\ ptr1' = Read_Commands_from_FT1(paper1).rest
      BY <2>3 DEF Emu_Begin
    <3> QED
      BY <2>1, <2>3, <3>1 DEF Trit
  <2> QED
    BY <2>2, <2>3
<1>2. TypeOK /\ [Next]_vars => [InOrder]_vars
  BY <1>1
<1> QED
  BY <1>2, TypeCorrect, PTL DEF Spec, PagesAreReadInOrder
=============================================================================
