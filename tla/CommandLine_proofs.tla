------------------------- MODULE CommandLine_proofs --------------------------
(***************************************************************************)
(* The command line for every size of the line, of the history and of the  *)
(* table.  Each of the two properties of the history is inductive together *)
(* with the types.  The parser is followed word by word: the ends of words *)
(* are the starts of the searches for the next.  The table is searched for *)
(* names that stand twice; there is none.                                  *)
(***************************************************************************)
EXTENDS CommandLine, SequenceTheorems, FiniteSetTheorems, Induction, TLAPS

LEMMA EmptyLine == Empty \in Lines
<1>1. << >> \in Seq(Chars) /\ Len(<< >>) = 0
  OBVIOUS
<1> QED
  BY <1>1, CommandLineAssumption DEF Lines, Empty

LEMMA LineType ==
    ASSUME NEW l \in Lines
    PROVE  l \in Seq(Chars) /\ Len(l) \in Nat /\ Len(l) < CMD_INPUT_BUF_SIZE
  BY DEF Lines

LEMMA InitInv == Init => TypeOK /\ HistoryIsTheNewestLines /\ RecallShowsTheIndex
<1> SUFFICES ASSUME Init PROVE TypeOK /\ HistoryIsTheNewestLines /\ RecallShowsTheIndex
  OBVIOUS
<1>1. /\ history \in [Slots -> Lines]
      /\ entered \in Seq(Lines) /\ Len(entered) = 0
  BY EmptyLine DEF Init
<1>2. TypeOK
  BY <1>1, EmptyLine, CommandLineAssumption DEF Init, TypeOK
<1>3. HistoryIsTheNewestLines
  BY <1>1, CommandLineAssumption DEF Init, HistoryIsTheNewestLines, Slots
<1> QED
  BY <1>2, <1>3 DEF Init, RecallShowsTheIndex

-----------------------------------------------------------------------------
(* What entering a line makes of the history.                              *)
LEMMA SavedLine ==
    ASSUME TypeOK, HistoryIsTheNewestLines, NEW line \in Lines, command_save_history(line)
    PROVE  /\ history' \in [Slots -> Lines]
           /\ history_count' \in 0 .. CMD_HISTORY_SIZE
           /\ history_index' = -1
           /\ entered' \in Seq(Lines)
           /\ HistoryIsTheNewestLines'
<1> USE CommandLineAssumption DEF TypeOK, Slots
<1>1. /\ history' = [i \in Slots |-> IF i = 0 THEN line ELSE history[i - 1]]
      /\ history_count' = IF history_count < CMD_HISTORY_SIZE THEN history_count + 1
                                                              ELSE history_count
      /\ history_index' = -1
      /\ entered' = Append(entered, line)
  BY DEF command_save_history
<1>2. /\ entered' \in Seq(Lines) /\ Len(entered') = Len(entered) + 1
      /\ entered'[Len(entered) + 1] = line
      /\ \A k \in 1 .. Len(entered) : entered'[k] = entered[k]
  BY <1>1
<1>3. history' \in [Slots -> Lines]
  <2>1. \A i \in Slots : i # 0 => history[i - 1] \in Lines
    OBVIOUS
  <2> QED
    BY <1>1, <2>1
<1>4. history_count' \in 0 .. CMD_HISTORY_SIZE
  BY <1>1
<1>5. /\ history_count' <= Len(entered')
      /\ history_count' < Len(entered') => history_count' = CMD_HISTORY_SIZE
  BY <1>1, <1>2 DEF HistoryIsTheNewestLines
<1>6. ASSUME NEW i \in Slots
      PROVE  history'[i] = IF i < history_count' THEN entered'[Len(entered') - i] ELSE Empty
  <2>1. CASE i = 0
    BY <1>1, <1>2, <2>1
  <2>2. CASE i # 0
    <3>1. i - 1 \in Slots /\ history'[i] = history[i - 1]
      BY <1>1, <2>2
    <3>2. i < history_count' <=> i - 1 < history_count
      BY <1>1
    <3>3. history[i - 1] = IF i - 1 < history_count THEN entered[Len(entered) - (i - 1)]
                                                    ELSE Empty
      BY <3>1 DEF HistoryIsTheNewestLines
    <3>4. i - 1 < history_count => /\ Len(entered) - (i - 1) \in 1 .. Len(entered)
                                   /\ Len(entered') - i = Len(entered) - (i - 1)
      BY <1>2, <2>2 DEF HistoryIsTheNewestLines
    <3> QED
      BY <1>2, <3>1, <3>2, <3>3, <3>4
  <2> QED
    BY <2>1, <2>2
<1>7. HistoryIsTheNewestLines'
  BY <1>5, <1>6 DEF HistoryIsTheNewestLines
<1> QED
  BY <1>1, <1>2, <1>3, <1>4, <1>7

LEMMA StepInv ==
    ASSUME TypeOK, HistoryIsTheNewestLines, RecallShowsTheIndex, [Next]_vars
    PROVE  (TypeOK /\ HistoryIsTheNewestLines /\ RecallShowsTheIndex)'
<1> USE CommandLineAssumption DEF TypeOK
<1>1. ASSUME NEW c \in Chars, TypeChar(c)
      PROVE  (TypeOK /\ HistoryIsTheNewestLines /\ RecallShowsTheIndex)'
  <2>1. cli_buf' \in Lines
    BY <1>1, LineType DEF TypeChar, Lines
  <2> QED
    BY <1>1, <2>1 DEF TypeChar, Key, Recall, HistoryIsTheNewestLines, RecallShowsTheIndex
<1>2. CASE Backspace
  <2>1. cli_buf \in Seq(Chars) /\ Len(cli_buf) \in Nat \ {0} /\ Len(cli_buf) < CMD_INPUT_BUF_SIZE
    BY <1>2, LineType DEF Backspace, Empty
  <2> DEFINE n == Len(cli_buf) - 1
  <2>2. n = Len(cli_buf) - 1 /\ n \in Nat
    BY <2>1
  <2> HIDE DEF n
  <2>3. n \in Int /\ 1 \in Int /\ \A i \in 1 .. n : cli_buf[i] \in Chars
    BY <2>1, <2>2
  <2>4. /\ SubSeq(cli_buf, 1, n) \in Seq(Chars)
        /\ Len(SubSeq(cli_buf, 1, n)) = IF 1 <= n THEN n - 1 + 1 ELSE 0
    BY <2>3, SubSeqProperties
  <2>5. cli_buf' \in Lines
    BY <1>2, <2>1, <2>2, <2>4 DEF Backspace, Lines
  <2> QED
    BY <1>2, <2>5 DEF Backspace, Key, Recall, HistoryIsTheNewestLines, RecallShowsTheIndex
<1>3. CASE Enter
  <2>1. /\ history' \in [Slots -> Lines] /\ history_count' \in 0 .. CMD_HISTORY_SIZE
        /\ history_index' = -1 /\ entered' \in Seq(Lines)
        /\ HistoryIsTheNewestLines'
    BY <1>3, SavedLine DEF Enter
  <2>2. last_command' \in Lines
    BY <1>3 DEF Enter, command_execute
  <2>3. cli_buf' \in Lines /\ recalled' \in Lines /\ keys' \in 0 .. MaxKeys
    BY <1>3, EmptyLine DEF Enter, Key
  <2> QED
    BY <2>1, <2>2, <2>3 DEF RecallShowsTheIndex
<1>4. CASE command_recall_up
  <2>1. history_index + 1 \in Slots /\ history[history_index + 1] \in Lines
    BY <1>4 DEF command_recall_up, Slots
  <2> QED
    BY <1>4, <2>1
       DEF command_recall_up, Key, HistoryIsTheNewestLines, RecallShowsTheIndex, Slots
<1>5. CASE command_recall_down
  <2>1. CASE history_index <= 0
    BY <1>5, <2>1, EmptyLine
       DEF command_recall_down, Key, HistoryIsTheNewestLines, RecallShowsTheIndex
  <2>2. CASE history_index > 0
    <3>1. history_index - 1 \in Slots /\ history[history_index - 1] \in Lines
      BY <2>2 DEF Slots
    <3> QED
      BY <1>5, <2>2, <3>1
         DEF command_recall_down, Key, HistoryIsTheNewestLines, RecallShowsTheIndex, Slots
  <2> QED
    BY <2>1, <2>2
<1>6. CASE command_reset_history_index
  BY <1>6 DEF command_reset_history_index, Key, HistoryIsTheNewestLines, RecallShowsTheIndex
<1>7. CASE command_clear_history
  <2>1. history' \in [Slots -> Lines] /\ entered' \in Seq(Lines) /\ Len(entered') = 0
    BY <1>7, EmptyLine DEF command_clear_history
  <2>2. /\ history_count' = 0 /\ history_index' = -1 /\ keys' \in 0 .. MaxKeys
        /\ \A i \in Slots : history'[i] = Empty
    BY <1>7 DEF command_clear_history, Key
  <2>3. TypeOK'
    BY <1>7, <2>1, <2>2 DEF command_clear_history
  <2>4. HistoryIsTheNewestLines'
    BY <2>1, <2>2 DEF HistoryIsTheNewestLines, Slots
  <2> QED
    BY <2>2, <2>3, <2>4 DEF RecallShowsTheIndex
<1>8. CASE UNCHANGED vars
  BY <1>8 DEF vars, HistoryIsTheNewestLines, RecallShowsTheIndex
<1> QED
  BY <1>1, <1>2, <1>3, <1>4, <1>5, <1>6, <1>7, <1>8 DEF Next

-----------------------------------------------------------------------------
LEMMA Invariant == Spec => [](TypeOK /\ HistoryIsTheNewestLines /\ RecallShowsTheIndex)
<1>1. TypeOK /\ HistoryIsTheNewestLines /\ RecallShowsTheIndex /\ [Next]_vars
         => (TypeOK /\ HistoryIsTheNewestLines /\ RecallShowsTheIndex)'
  BY StepInv
<1> QED
  BY <1>1, InitInv, PTL DEF Spec

(* A line always leaves room for its terminating zero, and the index and   *)
(* the count of the history stay in their arrays.                          *)
THEOREM TypeCorrect == Spec => []TypeOK
<1> QED
  BY Invariant, PTL

(* The history holds the newest lines, the newest first.                   *)
THEOREM HistoryIsKept == Spec => []HistoryIsTheNewestLines
<1> QED
  BY Invariant, PTL

(* What is recalled is the line at the index, and the index is in the      *)
(* history, whatever was saved or cleared since.                           *)
THEOREM RecallIsFresh == Spec => []RecallShowsTheIndex
<1> QED
  BY Invariant, PTL

(***************************************************************************)
(* The words of a line.                                                    *)
(***************************************************************************)
LEMMA Skipped ==
    ASSUME NEW line \in Seq(Chars), NEW p \in 1 .. Len(line)
    PROVE  LET q == SkipSeparators(line, p)
           IN  /\ q \in p .. Len(line) + 1
               /\ \A i \in p .. q - 1 : line[i] \in Separators
               /\ q <= Len(line) => line[q] \notin Separators
<1> DEFINE L == Len(line)
           Ends(q) == /\ \A i \in p .. q - 1 : line[i] \in Separators
                      /\ q <= L => line[q] \notin Separators
           S == {q \in p .. L + 1 : q <= L => line[q] \notin Separators}
<1>1. L \in Nat /\ p \in Nat /\ p <= L
  OBVIOUS
<1> HIDE DEF L
<1>2. S \in SUBSET Nat /\ L + 1 \in S
  BY <1>1
<1>3. PICK q \in S : \A k \in S : q <= k
  <2> HIDE DEF S
  <2> QED
    BY <1>2, LeastElement
<1>4. Ends(q) /\ q \in p .. L + 1
  <2>1. ASSUME NEW i \in p .. q - 1, line[i] \notin Separators PROVE FALSE
    <3>1. i \in S /\ i < q
      BY <1>1, <2>1
    <3> QED
      BY <1>1, <1>3, <3>1
  <2> QED
    BY <2>1
<1>5. SkipSeparators(line, p) = CHOOSE k \in p .. L + 1 : Ends(k)
  BY DEF SkipSeparators, L
<1> HIDE DEF Ends
<1>6. SkipSeparators(line, p) \in p .. L + 1 /\ Ends(SkipSeparators(line, p))
  BY <1>4, <1>5
<1> QED
  BY <1>6 DEF Ends, L

LEMMA Ended ==
    ASSUME NEW line \in Seq(Chars), NEW p \in 1 .. Len(line)
    PROVE  LET q == WordEnd(line, p)
           IN  /\ q \in p .. Len(line) + 1
               /\ \A i \in p .. q - 1 : line[i] \notin Separators
               /\ q <= Len(line) => line[q] \in Separators
<1> DEFINE L == Len(line)
           Ends(q) == /\ \A i \in p .. q - 1 : line[i] \notin Separators
                      /\ q <= L => line[q] \in Separators
           S == {q \in p .. L + 1 : q <= L => line[q] \in Separators}
<1>1. L \in Nat /\ p \in Nat /\ p <= L
  OBVIOUS
<1> HIDE DEF L
<1>2. S \in SUBSET Nat /\ L + 1 \in S
  BY <1>1
<1>3. PICK q \in S : \A k \in S : q <= k
  <2> HIDE DEF S
  <2> QED
    BY <1>2, LeastElement
<1>4. Ends(q) /\ q \in p .. L + 1
  <2>1. ASSUME NEW i \in p .. q - 1, line[i] \in Separators PROVE FALSE
    <3>1. i \in S /\ i < q
      BY <1>1, <2>1
    <3> QED
      BY <1>1, <1>3, <3>1
  <2> QED
    BY <2>1
<1>5. WordEnd(line, p) = CHOOSE k \in p .. L + 1 : Ends(k)
  BY DEF WordEnd, L
<1> HIDE DEF Ends
<1>6. WordEnd(line, p) \in p .. L + 1 /\ Ends(WordEnd(line, p))
  BY <1>4, <1>5
<1> QED
  BY <1>6 DEF Ends, L

\* A place where the pointer of the parser can stand.
Start(line, p) ==
    /\ p \in 1 .. Len(line) + 2
    /\ p = 1 \/ p = Len(line) + 2 \/ line[p - 1] \in Separators

WordsFrom(line, p)   == {w \in WordsOf(line) : w[1] >= p}
RankFrom(line, p, w) == Cardinality({v \in WordsFrom(line, p) : v[1] <= w[1]})
FirstFrom(line, p, left) == {w \in WordsFrom(line, p) : RankFrom(line, p, w) <= left}

\* What is asked of the words found from place p on.
Found(line, p, left, argv) ==
    /\ argv \in Seq(Seq(Chars))
    /\ Len(argv) = Cardinality(FirstFrom(line, p, left))
    /\ \A w \in WordsFrom(line, p) :
          RankFrom(line, p, w) <= left
            => argv[RankFrom(line, p, w)] = SubSeq(line, w[1], w[2])

LEMMA WordIs ==
    ASSUME NEW line \in Seq(Chars), NEW w
    PROVE  w \in WordsOf(line) <=>
             /\ w[1] \in 1 .. Len(line) /\ w[2] \in 1 .. Len(line) /\ w = << w[1], w[2] >>
             /\ w[1] <= w[2]
             /\ \A i \in w[1] .. w[2] : line[i] \notin Separators
             /\ w[1] = 1 \/ line[w[1] - 1] \in Separators
             /\ w[2] = Len(line) \/ line[w[2] + 1] \in Separators
<1>1. DOMAIN line = 1 .. Len(line)
  OBVIOUS
<1>2. w \in (DOMAIN line) \X (DOMAIN line)
        <=> w[1] \in 1 .. Len(line) /\ w[2] \in 1 .. Len(line) /\ w = << w[1], w[2] >>
  BY <1>1
<1> QED
  BY <1>2 DEF WordsOf

LEMMA NoWord ==
    ASSUME NEW line \in Seq(Chars), NEW p, Start(line, p),
           p > Len(line) \/ SkipSeparators(line, p) > Len(line)
    PROVE  WordsFrom(line, p) = {}
<1> SUFFICES ASSUME NEW w \in WordsFrom(line, p) PROVE FALSE
  OBVIOUS
<1>1. w \in WordsOf(line) /\ w[1] >= p
  BY DEF WordsFrom
<1>2. w[1] \in 1 .. Len(line) /\ w[1] <= w[2] /\ w[2] \in Nat /\ line[w[1]] \notin Separators
  BY <1>1, WordIs
<1>3. p \in 1 .. Len(line) /\ SkipSeparators(line, p) > Len(line)
  BY <1>1, <1>2 DEF Start
<1>4. \A i \in p .. Len(line) : line[i] \in Separators
  <2> DEFINE q == SkipSeparators(line, p)
  <2>1. q \in Nat /\ q > Len(line) /\ \A i \in p .. q - 1 : line[i] \in Separators
    BY <1>3, Skipped
  <2> HIDE DEF q
  <2> QED
    BY <1>3, <2>1
<1> QED
  BY <1>1, <1>2, <1>3, <1>4

LEMMA FirstWord ==
    ASSUME NEW line \in Seq(Chars), NEW p, Start(line, p), p <= Len(line),
           NEW a, a = SkipSeparators(line, p), a <= Len(line), NEW b, b = WordEnd(line, a)
    PROVE  /\ a \in 1 .. Len(line) /\ b \in a + 1 .. Len(line) + 1
           /\ Start(line, b + 1)
           /\ << a, b - 1 >> \in WordsFrom(line, p)
           /\ << a, b - 1 >> \notin WordsFrom(line, b + 1)
           /\ WordsFrom(line, p) = WordsFrom(line, b + 1) \cup {<< a, b - 1 >>}
           /\ \A w \in WordsFrom(line, b + 1) : w[1] > a
<1> DEFINE L == Len(line)  w0 == << a, b - 1 >>
<1>0. L \in Nat /\ p \in 1 .. L
  BY DEF Start
<1>1. /\ a \in p .. L /\ line[a] \notin Separators
      /\ \A i \in p .. a - 1 : line[i] \in Separators
  BY <1>0, Skipped
<1>2. a \in 1 .. L
  BY <1>0, <1>1
<1>3. /\ b \in a .. L + 1
      /\ \A i \in a .. b - 1 : line[i] \notin Separators
      /\ b <= L => line[b] \in Separators
  BY <1>2, Ended
<1>4. b # a
  BY <1>1, <1>2, <1>3
<1>5. b \in a + 1 .. L + 1
  BY <1>2, <1>3, <1>4
<1>6. Start(line, b + 1)
  <2>1. b + 1 \in 1 .. L + 2 /\ (b + 1) - 1 = b /\ (b <= L \/ b + 1 = L + 2)
    BY <1>0, <1>2, <1>5
  <2> QED
    BY <1>3, <2>1 DEF Start
<1>7. a = 1 \/ line[a - 1] \in Separators
  <2>1. CASE a = p
    BY <1>0, <2>1 DEF Start
  <2>2. CASE a # p
    BY <1>0, <1>1, <2>2
  <2> QED
    BY <2>1, <2>2
<1>8. w0 \in WordsFrom(line, p)
  <2>1. w0[1] = a /\ w0[2] = b - 1
    OBVIOUS
  <2> HIDE DEF w0
  <2>2. w0 = << w0[1], w0[2] >>
    BY <2>1 DEF w0
  <2>3. w0 \in WordsOf(line)
    <3>1. /\ a \in 1 .. L /\ b - 1 \in 1 .. L /\ a <= b - 1
          /\ b - 1 = L \/ (b <= L /\ (b - 1) + 1 = b)
      BY <1>0, <1>2, <1>5
    <3> DEFINE c == b - 1
    <3>2. c = L \/ line[c + 1] \in Separators
      BY <1>3, <3>1
    <3> QED
      BY <1>2, <1>3, <1>7, <2>1, <2>2, <3>1, <3>2, WordIs
  <2> QED
    BY <1>0, <1>1, <2>1, <2>3 DEF WordsFrom
<1>9. ASSUME NEW w \in WordsFrom(line, b + 1) PROVE w[1] > a
  <2>1. w \in WordsOf(line) /\ w[1] >= b + 1
    BY DEF WordsFrom
  <2>2. w[1] \in 1 .. L
    BY <2>1, WordIs
  <2> QED
    BY <1>2, <1>5, <2>1, <2>2
<1>10. w0 \notin WordsFrom(line, b + 1)
  <2>1. w0[1] = a
    OBVIOUS
  <2> HIDE DEF w0
  <2> QED
    BY <1>2, <1>9, <2>1
<1>11. ASSUME NEW w \in WordsFrom(line, p) PROVE w = w0 \/ w \in WordsFrom(line, b + 1)
  <2>1. w \in WordsOf(line) /\ w[1] >= p
    BY DEF WordsFrom
  <2> DEFINE x == w[1]  y == w[2]
  <2>2. /\ x \in 1 .. L /\ y \in 1 .. L /\ w = << x, y >> /\ x <= y
        /\ \A i \in x .. y : line[i] \notin Separators
        /\ x = 1 \/ line[x - 1] \in Separators
        /\ y = L \/ line[y + 1] \in Separators
    BY <2>1, WordIs
  <2>3. x >= p
    BY <2>1
  <2> HIDE DEF x, y
  <2>4. x >= a
    <3>1. line[x] \notin Separators
      BY <2>2
    <3> QED
      BY <1>0, <1>1, <2>2, <2>3, <3>1
  <2>5. CASE x = a
    <3>1. ~ (y >= b)
      <4> SUFFICES ASSUME y >= b PROVE FALSE
        OBVIOUS
      <4>1. b <= L /\ b \in x .. y
        BY <1>2, <1>5, <2>2, <2>5
      <4> QED
        BY <1>3, <2>2, <4>1
    <3>2. ~ (y < b - 1)
      <4> SUFFICES ASSUME y < b - 1 PROVE FALSE
        OBVIOUS
      <4>1. y # L /\ y + 1 \in a .. b - 1
        BY <1>2, <1>5, <2>2, <2>5
      <4> QED
        BY <1>3, <2>2, <4>1
    <3>3. y = b - 1
      BY <1>2, <1>5, <2>2, <3>1, <3>2
    <3> QED
      BY <2>2, <2>5, <3>3
  <2>6. CASE x # a
    <3>1. ~ (x <= b - 1)
      <4> SUFFICES ASSUME x <= b - 1 PROVE FALSE
        OBVIOUS
      <4>1. x # 1 /\ x - 1 \in a .. b - 1
        BY <1>2, <1>5, <2>2, <2>4, <2>6
      <4> QED
        BY <1>3, <2>2, <4>1
    <3>2. x # b
      <4> SUFFICES ASSUME x = b PROVE FALSE
        OBVIOUS
      <4>1. b <= L /\ x \in x .. y
        BY <1>5, <2>2
      <4> QED
        BY <1>3, <2>2, <4>1
    <3>3. x >= b + 1
      BY <1>2, <1>5, <2>2, <3>1, <3>2
    <3> QED
      BY <2>1, <3>3 DEF WordsFrom, x
  <2> QED
    BY <2>5, <2>6
<1>12. WordsFrom(line, b + 1) \subseteq WordsFrom(line, p)
  <2>1. \A w \in WordsOf(line) : w[1] \in 1 .. L
    BY WordIs
  <2>2. b \in Int /\ p \in Int /\ p <= b + 1
    BY <1>0, <1>1, <1>5
  <2>3. \A w \in WordsOf(line) : w[1] >= b + 1 => w[1] >= p
    BY <1>0, <2>1, <2>2
  <2> QED
    BY <2>3 DEF WordsFrom
<1>13. WordsFrom(line, p) = WordsFrom(line, b + 1) \cup {w0}
  BY <1>8, <1>11, <1>12
<1> QED
  BY <1>2, <1>5, <1>6, <1>8, <1>9, <1>10, <1>13

LEMMA WordsFinite ==
    ASSUME NEW line \in Seq(Chars), NEW p
    PROVE  \A S \in SUBSET WordsFrom(line, p) : IsFiniteSet(S) /\ Cardinality(S) \in Nat
<1> DEFINE D == 1 .. Len(line)
<1>1. DOMAIN line = D /\ 1 \in Int /\ Len(line) \in Int
  OBVIOUS
<1>2. IsFiniteSet(D)
  BY <1>1, FS_Interval
<1> HIDE DEF D
<1>3. IsFiniteSet(D \X D)
  BY <1>2, FS_Product
<1>4. WordsFrom(line, p) \subseteq D \X D
  BY <1>1 DEF WordsFrom, WordsOf
<1> QED
  BY <1>3, <1>4, FS_Subset, FS_CardinalityType

LEMMA RankPositive ==
    ASSUME NEW line \in Seq(Chars), NEW p, NEW w \in WordsFrom(line, p)
    PROVE  RankFrom(line, p, w) \in Nat \ {0}
<1> DEFINE S == {v \in WordsFrom(line, p) : v[1] <= w[1]}
<1>1. w[1] \in Int
  BY WordIs DEF WordsFrom
<1>2. S \in SUBSET WordsFrom(line, p) /\ w \in S
  BY <1>1
<1> HIDE DEF S
<1>3. IsFiniteSet(S) /\ Cardinality(S) \in Nat
  BY <1>2, WordsFinite
<1>4. Cardinality(S) # 0
  BY <1>2, <1>3, FS_EmptySet
<1> QED
  BY <1>3, <1>4 DEF S, RankFrom

\* No place left, or no word left.
LEMMA NothingFound ==
    ASSUME NEW line \in Seq(Chars), NEW p, NEW left \in Nat,
           left = 0 \/ WordsFrom(line, p) = {}
    PROVE  Found(line, p, left, << >>)
<1>1. \A w \in WordsFrom(line, p) : ~ (RankFrom(line, p, w) <= left)
  <2> TAKE w \in WordsFrom(line, p)
  <2>1. RankFrom(line, p, w) \in Nat \ {0}
    BY RankPositive
  <2> QED
    BY <2>1
<1>2. FirstFrom(line, p, left) = {}
  BY <1>1 DEF FirstFrom
<1>3. << >> \in Seq(Seq(Chars)) /\ Len(<< >>) = 0
  OBVIOUS
<1> QED
  BY <1>1, <1>2, <1>3, FS_EmptySet DEF Found

\* The first word, and what is found behind it.
LEMMA OneMoreFound ==
    ASSUME NEW line \in Seq(Chars), NEW p, Start(line, p), p <= Len(line),
           NEW a, a = SkipSeparators(line, p), a <= Len(line), NEW b, b = WordEnd(line, a),
           NEW left \in Nat, NEW argv, Found(line, b + 1, left, argv)
    PROVE  Found(line, p, left + 1, << SubSeq(line, a, b - 1) >> \o argv)
<1> DEFINE w0 == << a, b - 1 >>  c == b + 1
           W == WordsFrom(line, p)  V == WordsFrom(line, c)
           x == SubSeq(line, a, b - 1)  s == << x >> \o argv
<1>1. /\ a \in 1 .. Len(line) /\ b \in a + 1 .. Len(line) + 1
      /\ w0 \in W /\ w0 \notin V /\ W = V \cup {w0} /\ \A w \in V : w[1] > a
  BY FirstWord
<1>2. w0[1] = a /\ w0[2] = b - 1 /\ a \in Int
  BY <1>1
<1> HIDE DEF w0, c
<1>3. \A w \in W : w[1] \in Int
  BY WordIs DEF WordsFrom
<1> HIDE DEF W, V
<1>4. RankFrom(line, p, w0) = 1
  <2>1. {v \in W : v[1] <= w0[1]} = {w0}
    BY <1>1, <1>2, <1>3
  <2> QED
    BY <2>1, FS_Singleton DEF RankFrom, W
<1>5. ASSUME NEW w \in V PROVE RankFrom(line, p, w) = RankFrom(line, c, w) + 1
  <2> DEFINE S == {v \in V : v[1] <= w[1]}
  <2>1. {v \in W : v[1] <= w[1]} = S \cup {w0}
    BY <1>1, <1>2, <1>3
  <2>2. S \in SUBSET V /\ w0 \notin S
    BY <1>1
  <2> HIDE DEF S
  <2>3. IsFiniteSet(S)
    BY <2>2, WordsFinite DEF V
  <2>4. Cardinality(S \cup {w0}) = Cardinality(S) + 1
    BY <2>2, <2>3, FS_AddElement
  <2> QED
    BY <2>1, <2>4 DEF RankFrom, S, W, V
<1>6. \A w \in V : RankFrom(line, c, w) \in Nat \ {0}
  BY RankPositive DEF V
<1>7. FirstFrom(line, p, left + 1) = FirstFrom(line, c, left) \cup {w0}
  <2>1. \A w \in V : RankFrom(line, p, w) <= left + 1 <=> RankFrom(line, c, w) <= left
    BY <1>5, <1>6
  <2>2. RankFrom(line, p, w0) <= left + 1
    BY <1>4
  <2>3. FirstFrom(line, p, left + 1) = {w \in W : RankFrom(line, p, w) <= left + 1}
    BY DEF FirstFrom, W
  <2>4. FirstFrom(line, c, left) = {w \in V : RankFrom(line, c, w) <= left}
    BY DEF FirstFrom, V
  <2> QED
    BY <1>1, <2>1, <2>2, <2>3, <2>4
<1>8. Cardinality(FirstFrom(line, p, left + 1)) = Cardinality(FirstFrom(line, c, left)) + 1
  <2> DEFINE S == FirstFrom(line, c, left)
  <2>1. S \in SUBSET V
    BY DEF FirstFrom, V
  <2> HIDE DEF S
  <2>2. IsFiniteSet(S) /\ w0 \notin S
    BY <1>1, <2>1, WordsFinite DEF V
  <2>3. Cardinality(S \cup {w0}) = Cardinality(S) + 1
    BY <2>2, FS_AddElement
  <2> QED
    BY <1>7, <2>3 DEF S
<1>9. /\ argv \in Seq(Seq(Chars)) /\ Len(argv) = Cardinality(FirstFrom(line, c, left))
      /\ \A w \in V : RankFrom(line, c, w) <= left
                        => argv[RankFrom(line, c, w)] = SubSeq(line, w[1], w[2])
  BY DEF Found, c, V
<1>10. x \in Seq(Chars)
  <2>1. \A i \in a .. b - 1 : line[i] \in Chars
    BY <1>1
  <2>2. a \in Int /\ b - 1 \in Int
    BY <1>1
  <2> DEFINE e == b - 1
  <2> HIDE DEF e
  <2>3. SubSeq(line, a, e) \in Seq(Chars)
    BY <2>1, <2>2, SubSeqProperties DEF e
  <2> QED
    BY <2>3 DEF e
<1> HIDE DEF x
<1>11. /\ s \in Seq(Seq(Chars)) /\ Len(s) = Len(argv) + 1 /\ s[1] = x
       /\ \A k \in 1 .. Len(argv) : s[k + 1] = argv[k]
  BY <1>9, <1>10
<1> HIDE DEF s
<1>12. ASSUME NEW w \in W, RankFrom(line, p, w) <= left + 1
       PROVE  s[RankFrom(line, p, w)] = SubSeq(line, w[1], w[2])
  <2>1. CASE w = w0
    BY <1>2, <1>4, <1>11, <2>1 DEF x
  <2>2. CASE w # w0
    <3> DEFINE r == RankFrom(line, c, w)
    <3>1. w \in V
      BY <1>1, <2>2
    <3>2. RankFrom(line, p, w) = r + 1 /\ r \in Nat \ {0}
      BY <1>5, <1>6, <3>1
    <3>3. r <= left
      BY <1>12, <3>2
    <3>4. argv[r] = SubSeq(line, w[1], w[2])
      BY <1>9, <3>1, <3>3
    <3>5. r \in 1 .. Len(argv)
      <4> DEFINE S == FirstFrom(line, c, left)  R == {v \in V : v[1] <= w[1]}
      <4>1. S \in SUBSET V /\ R = {v \in V : v[1] <= w[1]}
        BY DEF FirstFrom, V
      <4>2. ASSUME NEW v \in R PROVE v \in S
        <5>1. v \in V /\ v[1] <= w[1]
          OBVIOUS
        <5> DEFINE Q == {u \in V : u[1] <= v[1]}
        <5>2. Q \in SUBSET R /\ R \in SUBSET V
          BY <1>1, <1>3, <3>1, <5>1
        <5> HIDE DEF Q, R
        <5>3. IsFiniteSet(R) /\ Cardinality(R) \in Nat /\ Cardinality(Q) \in Nat
          BY <5>2, WordsFinite DEF V
        <5>4. Cardinality(Q) <= Cardinality(R)
          BY <5>2, <5>3, FS_Subset
        <5>5. RankFrom(line, c, v) = Cardinality(Q) /\ r = Cardinality(R)
          BY DEF RankFrom, Q, R, V
        <5>6. RankFrom(line, c, v) <= left
          BY <3>3, <5>3, <5>4, <5>5
        <5> QED
          BY <5>1, <5>6 DEF FirstFrom, V
      <4>3. r = Cardinality(R) /\ R \in SUBSET S
        BY <4>2 DEF RankFrom, V
      <4> HIDE DEF S, R
      <4>4. IsFiniteSet(S) /\ Cardinality(S) \in Nat
        BY <4>1, WordsFinite DEF V
      <4>5. Cardinality(R) <= Cardinality(S)
        BY <4>3, <4>4, FS_Subset
      <4>6. Len(argv) = Cardinality(S)
        BY <1>9 DEF S
      <4> HIDE DEF r
      <4> QED
        BY <3>2, <4>3, <4>4, <4>5, <4>6
    <3> QED
      BY <1>11, <3>2, <3>4, <3>5
  <2> QED
    BY <2>1, <2>2
<1> QED
  BY <1>8, <1>9, <1>11, <1>12 DEF Found, W, x, s, c

(***************************************************************************)
(* The walk over the line.                                                 *)
(***************************************************************************)
NoWords(line) == [p \in 1 .. Len(line) + 2 |-> << >>]

WordBefore(line, rest) ==
    [p \in 1 .. Len(line) + 2 |->
        LET word == SkipSeparators(line, p)
        IN  IF p > Len(line) \/ word > Len(line) THEN << >>
            ELSE << SubSeq(line, word, WordEnd(line, word) - 1) >>
                 \o rest[WordEnd(line, word) + 1]]

Walked(line) == [1 .. Len(line) + 2 -> Seq(Seq(Chars))]

LEMMA WordBeforeType ==
    ASSUME NEW line \in Seq(Chars), NEW rest \in Walked(line)
    PROVE  WordBefore(line, rest) \in Walked(line)
<1> SUFFICES ASSUME NEW p \in 1 .. Len(line) + 2
             PROVE  WordBefore(line, rest)[p] \in Seq(Seq(Chars))
  BY DEF WordBefore, Walked
<1> DEFINE word == SkipSeparators(line, p)  end == WordEnd(line, word)
           x == SubSeq(line, word, end - 1)
<1>1. CASE p > Len(line) \/ word > Len(line)
  BY <1>1 DEF WordBefore
<1>2. CASE ~ (p > Len(line) \/ word > Len(line))
  <2>1. p \in 1 .. Len(line)
    BY <1>2
  <2>2. word \in 1 .. Len(line)
    BY <1>2, <2>1, Skipped
  <2> HIDE DEF word
  <2>3. end \in word .. Len(line) + 1
    BY <2>2, Ended
  <2> DEFINE last == end - 1
  <2>4. last \in Int /\ word \in Int /\ end + 1 \in 1 .. Len(line) + 2
        /\ \A i \in word .. last : line[i] \in Chars
    BY <2>2, <2>3
  <2> HIDE DEF last, end
  <2>5. SubSeq(line, word, last) \in Seq(Chars)
    BY <2>4, SubSeqProperties
  <2>6. rest[end + 1] \in Seq(Seq(Chars))
    BY <2>4 DEF Walked
  <2>7. << SubSeq(line, word, last) >> \o rest[end + 1] \in Seq(Seq(Chars))
    <3> DEFINE y == SubSeq(line, word, last)  r == rest[end + 1]
    <3>1. y \in Seq(Chars) /\ r \in Seq(Seq(Chars))
      BY <2>5, <2>6
    <3> HIDE DEF y, r
    <3>2. << y >> \o r \in Seq(Seq(Chars))
      BY <3>1
    <3> QED
      BY <3>2 DEF y, r
  <2>8. WordBefore(line, rest)[p] = << SubSeq(line, word, last) >> \o rest[end + 1]
    BY <1>2 DEF WordBefore, last, end, word
  <2> QED
    BY <2>7, <2>8
<1> QED
  BY <1>1, <1>2

LEMMA WalkIs ==
    ASSUME NEW line \in Seq(Chars)
    PROVE  \E walk : /\ walk[0] = NoWords(line)
                     /\ \A left \in 0 .. CMD_MAX_ARGS - 1 :
                           walk[left + 1] = WordBefore(line, walk[left])
                     /\ command_parse_line(line) = walk[CMD_MAX_ARGS][1]
<1> DEFINE M == CMD_MAX_ARGS
           L == Len(line)
           E(f) == [left \in 0 .. M |->
                      [p \in 1 .. L + 2 |->
                         LET word == SkipSeparators(line, p)
                         IN  IF p > L \/ left = 0 \/ word > L THEN << >>
                             ELSE << SubSeq(line, word, WordEnd(line, word) - 1) >>
                                  \o f[left - 1][WordEnd(line, word) + 1]]]
           F(f) == [left \in 0 .. M |-> IF left = 0 THEN NoWords(line)
                                        ELSE WordBefore(line, f[left - 1])]
           walk == CHOOSE f : f = E(f)
           V == Walked(line)
           step == [k \in 1 .. M |-> [v \in V |-> WordBefore(line, v)]]
<1>1. M \in Nat /\ 0 \in 0 .. M
  BY CommandLineAssumption
<1>2. command_parse_line(line) = walk[M][1]
  BY DEF command_parse_line
<1>3. ASSUME NEW f PROVE E(f) = F(f)
  <2>1. ASSUME NEW left \in 0 .. M PROVE E(f)[left] = F(f)[left]
    <3>1. CASE left = 0
      BY <3>1 DEF NoWords
    <3>2. CASE left # 0
      BY <3>2 DEF WordBefore
    <3> QED
      BY <3>1, <3>2
  <2> QED
    BY <2>1
<1>4. Solvable(0, M, V, NoWords(line), step)
  <2>1. \A k \in 1 .. M, v \in V : step[k][v] \in V
    BY WordBeforeType
  <2>2. Steps(0, M, V, step)
    BY <2>1 DEF Steps
  <2>3. NoWords(line) \in V
    BY DEF NoWords, Walked
  <2> HIDE DEF step, V
  <2> QED
    BY <1>1, <2>2, <2>3, RecursionHasSolution
<1> HIDE DEF E
<1>5. PICK g \in [0 .. M -> V] :
         g[0] = NoWords(line) /\ \A k \in 0 + 1 .. M : g[k] = step[k][g[k - 1]]
  BY <1>4 DEF Solvable
<1>6. g = F(g)
  <2>1. ASSUME NEW k \in 1 .. M PROVE g[k] = WordBefore(line, g[k - 1])
    <3>1. k - 1 \in 0 .. M /\ k \in 0 + 1 .. M
      BY <1>1
    <3> HIDE DEF V
    <3> QED
      BY <1>5, <3>1
  <2>2. \A k \in 0 .. M : k # 0 => k \in 1 .. M
    BY <1>1
  <2> HIDE DEF step, V
  <2> QED
    BY <1>5, <2>1, <2>2
<1>7. walk = E(walk)
  <2>1. g = E(g)
    BY <1>3, <1>6
  <2> QED
    BY <2>1
<1> HIDE DEF walk, step, V
<1>8. walk = F(walk)
  BY <1>3, <1>7
<1>9. /\ walk[0] = NoWords(line)
      /\ \A left \in 0 .. M - 1 : walk[left + 1] = WordBefore(line, walk[left])
  <2>1. \A left \in 0 .. M - 1 : left + 1 \in 0 .. M /\ left + 1 # 0 /\ (left + 1) - 1 = left
    BY <1>1
  <2> QED
    BY <1>1, <1>8, <2>1
<1> QED
  BY <1>2, <1>9

LEMMA WalkFinds ==
    ASSUME NEW line \in Seq(Chars)
    PROVE  Found(line, 1, CMD_MAX_ARGS, command_parse_line(line))
<1>1. PICK walk : /\ walk[0] = NoWords(line)
                  /\ \A left \in 0 .. CMD_MAX_ARGS - 1 :
                        walk[left + 1] = WordBefore(line, walk[left])
                  /\ command_parse_line(line) = walk[CMD_MAX_ARGS][1]
  BY WalkIs
<1> DEFINE M == CMD_MAX_ARGS
           Finds(left) == \A p : Start(line, p) => Found(line, p, left, walk[left][p])
           S == {left \in 0 .. M : Finds(left)}
<1>2. M \in Nat
  BY CommandLineAssumption
<1>3. Finds(0)
  <2> SUFFICES ASSUME NEW p, Start(line, p) PROVE Found(line, p, 0, walk[0][p])
    OBVIOUS
  <2>1. walk[0][p] = << >>
    BY <1>1 DEF NoWords, Start
  <2> QED
    BY <2>1, NothingFound
<1>4. ASSUME NEW left \in 0 .. M - 1, Finds(left) PROVE Finds(left + 1)
  <2> SUFFICES ASSUME NEW p, Start(line, p) PROVE Found(line, p, left + 1, walk[left + 1][p])
    OBVIOUS
  <2> DEFINE word == SkipSeparators(line, p)  end == WordEnd(line, word)
             found == walk[left + 1][p]
  <2>1. p \in 1 .. Len(line) + 2 /\ left \in Nat /\ left + 1 \in Nat
    BY <1>2 DEF Start
  <2>2. found = IF p > Len(line) \/ word > Len(line) THEN << >>
                ELSE << SubSeq(line, word, end - 1) >> \o walk[left][end + 1]
    BY <1>1, <2>1 DEF WordBefore
  <2>3. CASE p > Len(line) \/ word > Len(line)
    <3>1. found = << >>
      BY <2>2, <2>3
    <3>2. WordsFrom(line, p) = {}
      BY <2>3, NoWord
    <3> HIDE DEF found
    <3>3. Found(line, p, left + 1, << >>)
      BY <2>1, <3>2, NothingFound
    <3> QED
      BY <3>1, <3>3 DEF found
  <2>4. CASE ~ (p > Len(line) \/ word > Len(line))
    <3>1. found = << SubSeq(line, word, end - 1) >> \o walk[left][end + 1]
      BY <2>2, <2>4
    <3>2. p <= Len(line) /\ word <= Len(line)
      <4>1. p \in 1 .. Len(line)
        BY <2>1, <2>4
      <4>2. word \in Nat
        BY <4>1, Skipped
      <4> QED
        BY <2>4, <4>1, <4>2
    <3>3. Start(line, end + 1)
      BY <3>2, FirstWord
    <3>4. Found(line, end + 1, left, walk[left][end + 1])
      BY <1>4, <3>3
    <3> HIDE DEF found
    <3>5. Found(line, p, left + 1, << SubSeq(line, word, end - 1) >> \o walk[left][end + 1])
      BY <2>1, <3>2, <3>4, OneMoreFound
    <3> QED
      BY <3>1, <3>5 DEF found
  <2> QED
    BY <2>3, <2>4
<1> HIDE DEF Finds
<1>5. M \in S
  <2>1. 0 \in S /\ \A left \in 0 .. M - 1 : left \in S => left + 1 \in S
    BY <1>2, <1>3, <1>4
  <2>2. 0 \in Nat /\ M \in Nat /\ M \in 0 .. M
    BY <1>2
  <2> HIDE DEF S
  <2>3. 0 .. M \subseteq S
    BY <2>1, <2>2, Induction
  <2> QED
    BY <2>2, <2>3
<1>6. Start(line, 1)
  BY DEF Start
<1> QED
  BY <1>1, <1>5, <1>6 DEF Finds

(* The words command_parse_line hands to a handler are the words of the    *)
(* line, in order, for lines and argument arrays of every length.          *)
THEOREM WordsAreFound == Spec => []ParserFindsTheWords
<1>1. TypeOK => ParserFindsTheWords
  <2> SUFFICES ASSUME TypeOK PROVE ParserFindsTheWords
    OBVIOUS
  <2> DEFINE line == cli_buf  argv == command_parse_line(line)
             Rank(w) == Cardinality({v \in WordsOf(line) : v[1] <= w[1]})
  <2>1. line \in Seq(Chars)
    BY LineType DEF TypeOK
  <2>2. Found(line, 1, CMD_MAX_ARGS, argv)
    BY <2>1, WalkFinds
  <2>3. WordsFrom(line, 1) = WordsOf(line)
    BY <2>1, WordIs DEF WordsFrom
  <2>4. \A w : RankFrom(line, 1, w) = Rank(w)
    BY <2>3 DEF RankFrom
  <2>5. FirstFrom(line, 1, CMD_MAX_ARGS) = {w \in WordsOf(line) : Rank(w) <= CMD_MAX_ARGS}
    BY <2>3, <2>4 DEF FirstFrom
  <2> HIDE DEF argv
  <2>6. /\ Len(argv) = Cardinality({w \in WordsOf(line) : Rank(w) <= CMD_MAX_ARGS})
        /\ \A w \in WordsOf(line) :
              Rank(w) <= CMD_MAX_ARGS => argv[Rank(w)] = SubSeq(line, w[1], w[2])
    BY <2>2, <2>3, <2>4, <2>5 DEF Found
  <2> QED
    BY <2>6 DEF ParserFindsTheWords, argv
<1> QED
  BY <1>1, TypeCorrect, PTL

(***************************************************************************)
(* The table of commands.                                                  *)
(***************************************************************************)
LEMMA TableIs ==
    /\ register_commands \in Seq({register_commands[i] : i \in 1 .. 17})
    /\ Len(register_commands) = 17
  BY DEF register_commands

(* No name and no alias stands twice in the table.                         *)
LEMMA NamesAreUnique ==
    \A i, j \in 1 .. 17 : \A text :
       Matches(text, register_commands[i]) /\ Matches(text, register_commands[j]) => i = j
  BY DEF register_commands, Entry, Matches

LEMMA EntriesAre ==
    /\ DOMAIN entries \subseteq 1 .. 17
    /\ \A i \in DOMAIN entries : /\ entries[i] = register_commands[i]
                                 /\ entries[i].handler # NULL
<1> DEFINE R == register_commands  V == {R[i] : i \in 1 .. 17}
           n == IF Len(R) < CMD_MAX_CMDS THEN Len(R) ELSE CMD_MAX_CMDS
<1>1. R \in Seq(V) /\ Len(R) = 17
  BY TableIs
<1>2. entries = SubSeq(R, 1, n)
  BY DEF entries
<1>3. \A i \in 1 .. 17 : R[i].handler # NULL
  BY <1>1, HandlersAssumption
<1>0. \A i \in 1 .. 17 : R[i] \in V
  OBVIOUS
<1> HIDE DEF R, V
<1>4. n \in 0 .. 17
  BY <1>1, CommandLineAssumption
<1> HIDE DEF n
<1>5. 1 \in Int /\ n \in Int /\ \A i \in 1 .. n : R[i] \in V
  BY <1>0, <1>4
<1>6. /\ Len(SubSeq(R, 1, n)) = IF 1 <= n THEN n - 1 + 1 ELSE 0
      /\ SubSeq(R, 1, n) \in Seq(V)
      /\ \A i \in 1 .. n - 1 + 1 : SubSeq(R, 1, n)[i] = R[1 + i - 1]
  BY <1>5, SubSeqProperties
<1>7. DOMAIN entries = 1 .. n
  BY <1>2, <1>4, <1>6
<1>8. \A i \in 1 .. n : i \in 1 .. 17 /\ 1 + i - 1 = i /\ i \in 1 .. n - 1 + 1
  BY <1>4
<1>9. \A i \in 1 .. n : entries[i] = R[i]
  BY <1>2, <1>6, <1>8
<1> QED
  BY <1>3, <1>7, <1>8, <1>9 DEF R

(* A line runs the command its first word names, whatever the size of the  *)
(* table, or none: no entry hides another.                                 *)
THEOREM LinesRunTheirCommands == Spec => LineRunsItsCommand
<1> DEFINE argv  == command_parse_line(cli_buf)
           named == {i \in DOMAIN entries : argv # << >> /\ Matches(Text(argv[1]), entries[i])}
           Runs  == /\ \A i \in named :
                          called' = [handler |-> entries[i].handler, argv |-> argv]
                    /\ named = {} => called' = called
<1>1. Enter => Runs
  <2> SUFFICES ASSUME Enter PROVE Runs
    OBVIOUS
  <2>1. /\ argv = << >> => called' = called
        /\ argv # << >> => called' = IF Lookup(Text(argv[1])) = NULL THEN called
                                     ELSE [handler |-> Lookup(Text(argv[1])), argv |-> argv]
    BY DEF Enter, command_execute
  <2> HIDE DEF argv
  <2>2. CASE argv = << >>
    BY <2>1, <2>2
  <2>3. CASE argv # << >>
    <3> DEFINE text == Text(argv[1])
               matching == {i \in DOMAIN entries : Matches(text, entries[i])}
    <3>1. named = matching
      BY <2>3
    <3>2. Lookup(text) = IF matching = {} THEN NULL
                         ELSE entries[CHOOSE i \in matching : \A j \in matching : i <= j].handler
      BY DEF Lookup
    <3>3. \A i, j \in matching : i = j /\ i \in Nat /\ entries[i].handler # NULL
      BY EntriesAre, NamesAreUnique
    <3> HIDE DEF matching, named, text
    <3>4. CASE matching = {}
      BY <2>1, <2>3, <3>1, <3>2, <3>4 DEF text
    <3>5. CASE matching # {}
      <4>1. PICK k \in matching : TRUE
        BY <3>5
      <4>2. matching = {k} /\ k \in Nat /\ entries[k].handler # NULL
        BY <3>3, <4>1
      <4>3. (CHOOSE i \in matching : \A j \in matching : i <= j) = k
        BY <4>2
      <4>4. Lookup(text) = entries[k].handler
        BY <3>2, <3>5, <4>3
      <4>5. called' = [handler |-> entries[k].handler, argv |-> argv]
        BY <2>1, <2>3, <4>2, <4>4 DEF text
      <4> QED
        BY <3>1, <4>2, <4>5
    <3> QED
      BY <3>4, <3>5
  <2> QED
    BY <2>2, <2>3
<1>2. [Enter => Runs]_vars
  BY <1>1
<1> QED
  BY <1>2, PTL DEF LineRunsItsCommand
=============================================================================
