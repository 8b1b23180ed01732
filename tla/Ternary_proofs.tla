--------------------------- MODULE Ternary_proofs ---------------------------
(***************************************************************************)
(* Facts about the arithmetic of words: every operator of Ternary stays in *)
(* its width, for all widths up to the 18 trits of a long word; and about  *)
(* numbers and their trits: every word has trits, its low and high trits   *)
(* are words, and shifts and cuts move trits.                              *)
(***************************************************************************)
EXTENDS Ternary, Induction

Widths == 0 .. 18

(* A power of 3 is odd, and MaxWord is its half.                           *)
LEMMA Pow3 ==
    \A n \in 0 .. 19 : /\ pow3(n) \in Nat \ {0} /\ MaxWord(n) \in Nat
                       /\ pow3(n) = 2 * MaxWord(n) + 1
<1> SUFFICES ASSUME NEW n \in 0 .. 19
             PROVE  /\ pow3(n) \in Nat \ {0} /\ MaxWord(n) \in Nat
                    /\ pow3(n) = 2 * MaxWord(n) + 1
  OBVIOUS
<1>1. CASE n = 0
  BY <1>1 DEF pow3, POW3_TABLE, MaxWord
<1>2. CASE n = 1
  BY <1>2 DEF pow3, POW3_TABLE, MaxWord
<1>3. CASE n = 2
  BY <1>3 DEF pow3, POW3_TABLE, MaxWord
<1>4. CASE n = 3
  BY <1>4 DEF pow3, POW3_TABLE, MaxWord
<1>5. CASE n = 4
  BY <1>5 DEF pow3, POW3_TABLE, MaxWord
<1>6. CASE n = 5
  BY <1>6 DEF pow3, POW3_TABLE, MaxWord
<1>7. CASE n = 6
  BY <1>7 DEF pow3, POW3_TABLE, MaxWord
<1>8. CASE n = 7
  BY <1>8 DEF pow3, POW3_TABLE, MaxWord
<1>9. CASE n = 8
  BY <1>9 DEF pow3, POW3_TABLE, MaxWord
<1>10. CASE n = 9
  BY <1>10 DEF pow3, POW3_TABLE, MaxWord
<1>11. CASE n = 10
  BY <1>11 DEF pow3, POW3_TABLE, MaxWord
<1>12. CASE n = 11
  BY <1>12 DEF pow3, POW3_TABLE, MaxWord
<1>13. CASE n = 12
  BY <1>13 DEF pow3, POW3_TABLE, MaxWord
<1>14. CASE n = 13
  BY <1>14 DEF pow3, POW3_TABLE, MaxWord
<1>15. CASE n = 14
  BY <1>15 DEF pow3, POW3_TABLE, MaxWord
<1>16. CASE n = 15
  BY <1>16 DEF pow3, POW3_TABLE, MaxWord
<1>17. CASE n = 16
  BY <1>17 DEF pow3, POW3_TABLE, MaxWord
<1>18. CASE n = 17
  BY <1>18 DEF pow3, POW3_TABLE, MaxWord
<1>19. CASE n = 18
  BY <1>19 DEF pow3, POW3_TABLE, MaxWord
<1>20. CASE n = 19
  BY <1>20 DEF pow3, POW3_TABLE, MaxWord
<1> QED
  BY <1>1, <1>2, <1>3, <1>4, <1>5, <1>6, <1>7, <1>8, <1>9, <1>10,
     <1>11, <1>12, <1>13, <1>14, <1>15, <1>16, <1>17, <1>18, <1>19, <1>20

(* The table of powers is a table of powers.                                *)
LEMMA Pow3Next == \A n \in Widths : pow3(n + 1) = 3 * pow3(n)
  BY DEF pow3, POW3_TABLE, Widths

(* mod_3_n keeps a word of n trits and makes one of every number.          *)
LEMMA ModType ==
    ASSUME NEW v \in Int, NEW n \in Widths PROVE mod_3_n(v, n) \in Word(n)
<1> DEFINE M == MaxWord(n)
<1>1. M \in Nat /\ pow3(n) = 2 * M + 1
  BY Pow3 DEF Widths
<1> HIDE DEF M
<1>2. (v + M) % (2 * M + 1) \in 0 .. 2 * M
  BY <1>1
<1>3. ((v + M) % (2 * M + 1)) - M \in -M .. M
  BY <1>1, <1>2
<1> QED
  BY <1>1, <1>3 DEF mod_3_n, Word, M

(* Words are numbers.                                                       *)
LEMMA WordIsInt == ASSUME NEW n \in Widths PROVE Word(n) \subseteq Int
  BY Pow3 DEF Word, Widths

(* The sign of a number is a trit.                                          *)
LEMMA SignType == ASSUME NEW v \in Int PROVE sgn_trs(v) \in {-1, 0, 1}
  BY DEF sgn_trs

(* Sum and difference wrap around within the word.                         *)
LEMMA AddType ==
    ASSUME NEW n \in Widths, NEW x \in Int, NEW y \in Int
    PROVE  add_trs(x, y, n) \in Word(n) /\ sub_trs(x, y, n) \in Word(n)
  BY ModType DEF add_trs, sub_trs

(* Counting wraps around within the word.                                   *)
LEMMA IncType ==
    ASSUME NEW n \in Widths, NEW x \in Int PROVE inc_trs(x, n) \in Word(n)
  BY AddType DEF inc_trs

(* A word of n trits is one of n - d trits and one of d trits.             *)
LEMMA Pow3Split ==
    ASSUME NEW n \in Widths, NEW d \in 0 .. n
    PROVE  pow3(n) = pow3(n - d) * pow3(d)
<1>1. CASE d = 0
  BY <1>1 DEF pow3, POW3_TABLE, Widths
<1>2. CASE d = 1
  BY <1>2 DEF pow3, POW3_TABLE, Widths
<1>3. CASE d = 2
  BY <1>3 DEF pow3, POW3_TABLE, Widths
<1>4. CASE d = 3
  BY <1>4 DEF pow3, POW3_TABLE, Widths
<1>5. CASE d = 4
  BY <1>5 DEF pow3, POW3_TABLE, Widths
<1>6. CASE d = 5
  BY <1>6 DEF pow3, POW3_TABLE, Widths
<1>7. CASE d = 6
  BY <1>7 DEF pow3, POW3_TABLE, Widths
<1>8. CASE d = 7
  BY <1>8 DEF pow3, POW3_TABLE, Widths
<1>9. CASE d = 8
  BY <1>9 DEF pow3, POW3_TABLE, Widths
<1>10. CASE d = 9
  BY <1>10 DEF pow3, POW3_TABLE, Widths
<1>11. CASE d = 10
  BY <1>11 DEF pow3, POW3_TABLE, Widths
<1>12. CASE d = 11
  BY <1>12 DEF pow3, POW3_TABLE, Widths
<1>13. CASE d = 12
  BY <1>13 DEF pow3, POW3_TABLE, Widths
<1>14. CASE d = 13
  BY <1>14 DEF pow3, POW3_TABLE, Widths
<1>15. CASE d = 14
  BY <1>15 DEF pow3, POW3_TABLE, Widths
<1>16. CASE d = 15
  BY <1>16 DEF pow3, POW3_TABLE, Widths
<1>17. CASE d = 16
  BY <1>17 DEF pow3, POW3_TABLE, Widths
<1>18. CASE d = 17
  BY <1>18 DEF pow3, POW3_TABLE, Widths
<1>19. CASE d = 18
  BY <1>19 DEF pow3, POW3_TABLE, Widths
<1> QED
  BY <1>1, <1>2, <1>3, <1>4, <1>5, <1>6, <1>7, <1>8, <1>9, <1>10,
     <1>11, <1>12, <1>13, <1>14, <1>15, <1>16, <1>17, <1>18, <1>19 DEF Widths

(* A bounded number times a power is bounded.                               *)
LEMMA Scaled ==
    ASSUME NEW m \in Nat, NEW c \in Nat \ {0}, NEW x \in -m .. m
    PROVE  x * c \in -(m * c) .. m * c
<1>1. (m - x) * c >= 0 /\ (m + x) * c >= 0
  OBVIOUS
<1>2. (m - x) * c = m * c - x * c /\ (m + x) * c = m * c + x * c
  OBVIOUS
<1>3. m * c \in Int /\ x * c \in Int
  OBVIOUS
<1> QED
  BY <1>1, <1>2, <1>3

(* A shift within the word stays in the word.                              *)
LEMMA ShiftLeftType ==
    ASSUME NEW n \in Widths, NEW v \in Int, NEW d \in Nat
    PROVE  ShiftLeft(v, n, d) \in Word(n)
<1>1. CASE d >= n
  BY <1>1, Pow3 DEF ShiftLeft, Word, Widths
<1>2. CASE d < n
  <2> DEFINE m == MaxWord(n - d)
             c == pow3(d)
             x == mod_3_n(v, n - d)
  <2>1. n - d \in Widths /\ d \in 0 .. n /\ d \in 0 .. 19
    BY <1>2 DEF Widths
  <2>2. m \in Nat /\ pow3(n - d) = 2 * m + 1 /\ c \in Nat \ {0}
    BY <2>1, Pow3 DEF Widths
  <2>3. x \in -m .. m
    BY <2>1, ModType DEF Word
  <2>4. MaxWord(n) \in Nat /\ pow3(n) = 2 * MaxWord(n) + 1
    BY Pow3 DEF Widths
  <2>5. 2 * MaxWord(n) + 1 = (2 * m + 1) * c
    BY <2>1, <2>2, <2>4, Pow3Split
  <2> HIDE DEF m, c, x
  <2>6. x * c \in -(m * c) .. m * c
    BY <2>2, <2>3, Scaled
  <2>7. m * c \in Nat /\ (2 * m + 1) * c = 2 * (m * c) + c
    BY <2>2
  <2>8. x * c \in -MaxWord(n) .. MaxWord(n)
    BY <2>2, <2>4, <2>5, <2>6, <2>7
  <2> QED
    BY <1>2, <2>8 DEF ShiftLeft, Word, x, c
<1> QED
  BY <1>1, <1>2 DEF Widths

(* A shift to the right keeps a word in its width.                          *)
LEMMA ShiftRightType ==
    ASSUME NEW n \in Widths, NEW v \in Word(n), NEW d \in Nat
    PROVE  ShiftRight(v, n, d) \in Word(n)
<1>1. CASE d >= n
  BY <1>1, Pow3 DEF ShiftRight, Word, Widths
<1>2. CASE d < n
  <2> DEFINE M == MaxWord(n)
             h == MaxWord(d)
             c == pow3(d)
             r == mod_3_n(v, d)
  <2>1. M \in Nat \ {0}
    <3>1. n \in 1 .. 18
      BY <1>2 DEF Widths
    <3>2. pow3(n) >= 3
      BY <3>1 DEF pow3, POW3_TABLE
    <3>3. M \in Nat /\ pow3(n) = 2 * M + 1
      BY Pow3 DEF Widths
    <3> QED
      BY <3>2, <3>3
  <2>2. h \in Nat /\ c = 2 * h + 1 /\ d \in Widths
    <3>1. d \in Widths /\ d \in 0 .. 19
      BY <1>2 DEF Widths
    <3> QED
      BY <3>1, Pow3
  <2>3. v \in Int /\ v \in -M .. M
    BY <2>1 DEF Word
  <2>4. r \in -h .. h
    BY <2>2, <2>3, ModType DEF Word
  <2> HIDE DEF M, h, c, r
  <2> DEFINE q == (v - r) \div c
  <2>5. q \in Int /\ q * c <= v - r /\ v - r < q * c + c
    BY <2>2, <2>3, <2>4
  <2> HIDE DEF q
  <2>6. q <= M
    <3> SUFFICES ASSUME q >= M + 1 PROVE FALSE
      BY <2>1, <2>5
    <3>1. q * c >= (M + 1) * c
      BY <2>1, <2>2, <2>5
    <3>2. (M + 1) * c = 2 * (M * h) + M + 2 * h + 1
      BY <2>1, <2>2
    <3>3. M * h >= 0
      BY <2>1, <2>2
    <3> QED
      BY <3>1, <3>2, <3>3, <2>1, <2>2, <2>3, <2>4, <2>5
  <2>7. q >= -M
    <3> SUFFICES ASSUME q + 1 <= -M PROVE FALSE
      BY <2>1, <2>5
    <3>1. (q + 1) * c <= (-M) * c
      BY <2>1, <2>2, <2>5
    <3>2. (-M) * c = -(2 * (M * h)) - M
      BY <2>1, <2>2
    <3>3. M * h >= h
      BY <2>1, <2>2
    <3>4. (q + 1) * c = q * c + c
      BY <2>2, <2>5
    <3> QED
      BY <3>1, <3>2, <3>3, <3>4, <2>1, <2>2, <2>3, <2>4, <2>5
  <2> QED
    BY <1>2, <2>1, <2>5, <2>6, <2>7 DEF ShiftRight, Word, M, c, r, q
<1> QED
  BY <1>1, <1>2 DEF Widths

(* So does the shift instruction, for every count of either sign.           *)
LEMMA ShiftType ==
    ASSUME NEW n \in Widths, NEW v \in Word(n), NEW d \in Int
    PROVE  shift_trs(v, n, d) \in Word(n)
<1>1. v \in Int
  BY WordIsInt
<1>2. CASE d >= 0
  BY <1>1, <1>2, ShiftLeftType DEF shift_trs, TRS_WIDTH
<1>3. CASE d < 0
  BY <1>3, ShiftRightType DEF shift_trs, TRS_WIDTH
<1> QED
  BY <1>2, <1>3

(* A slice has the width of its range of trits.                            *)
LEMMA SliceType ==
    ASSUME NEW l \in Widths, NEW v \in Word(l),
           NEW p1 \in 1 .. l, NEW p2 \in p1 .. l
    PROVE  slice_trs_setun(v, l, p1, p2) \in Word(p2 - p1 + 1)
<1>1. l - p2 \in Nat /\ p2 - p1 + 1 \in Widths
  BY DEF Widths
<1>2. ShiftRight(v, l, l - p2) \in Word(l)
  BY <1>1, ShiftRightType
<1>3. ShiftRight(v, l, l - p2) \in Int
  BY <1>2, WordIsInt
<1>4. mod_3_n(ShiftRight(v, l, l - p2), p2 - p1 + 1) \in Word(p2 - p1 + 1)
  BY <1>1, <1>3, ModType
<1>5. ~ (p1 > p2 \/ p1 < 1 \/ p2 > l)
  BY DEF Widths
<1> QED
  BY <1>4, <1>5 DEF slice_trs_setun

(* One trit of a word, or 0 for a position outside it.                      *)
LEMMA TritType ==
    ASSUME NEW l \in Widths, NEW v \in Word(l), NEW p \in Int
    PROVE  get_trit_setun(v, l, p) \in {-1, 0, 1}
<1>1. CASE p \in 1 .. l
  <2>1. slice_trs_setun(v, l, p, p) \in Word(1)
    BY <1>1, SliceType
  <2>2. Word(1) = -1 .. 1
    BY DEF Word, MaxWord, pow3, POW3_TABLE
  <2> QED
    BY <1>1, <2>1, <2>2 DEF get_trit_setun
<1>2. CASE p \notin 1 .. l
  BY <1>2 DEF get_trit_setun
<1> QED
  BY <1>1, <1>2

(* A register copied to a wider one takes the width of the other.          *)
LEMMA CopyType ==
    ASSUME NEW ls \in Widths, NEW ld \in Widths, ls < ld, NEW v \in Word(ls)
    PROVE  copy_trs_setun(v, ls, ld) \in Word(ld)
<1>1. v \in Int
  BY WordIsInt
<1>2. ld - ls \in Nat /\ ~ (ls >= ld)
  BY DEF Widths
<1> QED
  BY <1>1, <1>2, ShiftLeftType DEF copy_trs_setun

(***************************************************************************)
(* Sums over the trits of a word.                                          *)
(***************************************************************************)
(* A sum of numbers is a number.                                            *)
LEMMA SumType ==
    ASSUME NEW n \in Widths, NEW f, \A i \in 0 .. n - 1 : f[i] \in Int
    PROVE  SumTo(f, n) \in Int
<1> DEFINE t(i) == IF i < n THEN f[i] ELSE 0
<1>1. \A i \in Nat : t(i) \in Int
  BY DEF Widths
<1>2. SumTo(f, n) = t(0) + t(1) + t(2) + t(3) + t(4) + t(5) + t(6) + t(7) + t(8)
        + t(9) + t(10) + t(11) + t(12) + t(13) + t(14) + t(15) + t(16) + t(17)
  BY DEF SumTo
<1> HIDE DEF t
<1> QED
  BY <1>1, <1>2

\* A sum whose term i is at most 3^i in absolute value is a word of n trits.
LEMMA SumBound ==
    ASSUME NEW n \in Widths, NEW f,
           \A i \in 0 .. n - 1 : f[i] \in -pow3(i) .. pow3(i)
    PROVE  SumTo(f, n) \in -MaxWord(n) .. MaxWord(n)
<1> DEFINE c(i) == IF i < n THEN pow3(i) ELSE 0
           t(i) == IF i < n THEN f[i] ELSE 0
<1>1. \A i \in 0 .. 17 : c(i) \in Nat
  BY Pow3
<1>2. \A i \in 0 .. 17 : t(i) \in -c(i) .. c(i)
  BY <1>1 DEF Widths
<1>3. SumTo(f, n) = t(0) + t(1) + t(2) + t(3) + t(4) + t(5) + t(6) + t(7) + t(8)
        + t(9) + t(10) + t(11) + t(12) + t(13) + t(14) + t(15) + t(16) + t(17)
  BY DEF SumTo
<1>4. c(0) + c(1) + c(2) + c(3) + c(4) + c(5) + c(6) + c(7) + c(8)
        + c(9) + c(10) + c(11) + c(12) + c(13) + c(14) + c(15) + c(16) + c(17)
      = MaxWord(n)
  BY DEF MaxWord, pow3, POW3_TABLE, Widths
<1> HIDE DEF c, t
<1> QED
  BY <1>1, <1>2, <1>3, <1>4

(* The trits of a word.                                                     *)
LEMMA BitType ==
    ASSUME NEW v \in Int, NEW i \in Widths PROVE Bit(v, i) \in -1 .. 1
<1>1. pow3(i) \in Nat \ {0} /\ mod_3_n(v, i) \in Int
  <2>1. pow3(i) \in Nat \ {0}
    BY Pow3 DEF Widths
  <2>2. mod_3_n(v, i) \in Word(i)
    BY ModType
  <2> QED
    BY <2>1, <2>2, WordIsInt
<1>2. (v - mod_3_n(v, i)) \div pow3(i) \in Int
  BY <1>1
<1>3. Bit(v, i) \in Word(1)
  BY <1>2, ModType DEF Bit, Widths
<1>4. Word(1) = -1 .. 1
  BY DEF Word, MaxWord, pow3, POW3_TABLE
<1> QED
  BY <1>3, <1>4

(* The product trit by trit needs no mask: it is a word.                   *)
LEMMA AndType ==
    ASSUME NEW n \in Widths, NEW x \in Int, NEW y \in Int
    PROVE  and_trs(x, y, n) \in Word(n)
<1> DEFINE f == [i \in 0 .. n - 1 |-> Bit(x, i) * Bit(y, i) * pow3(i)]
<1>1. \A i \in 0 .. n - 1 : f[i] \in -pow3(i) .. pow3(i)
  <2> TAKE i \in 0 .. n - 1
  <2>1. i \in Widths /\ pow3(i) \in Nat
    BY Pow3 DEF Widths
  <2>2. Bit(x, i) \in -1 .. 1 /\ Bit(y, i) \in -1 .. 1
    BY <2>1, BitType
  <2>3. Bit(x, i) * Bit(y, i) \in -1 .. 1
    BY <2>2
  <2> QED
    BY <2>1, <2>3
<1> QED
  BY <1>1, SumBound DEF and_trs, Word

(* mul_trs gives a number for every pair of words.                          *)
LEMMA MulType ==
    ASSUME NEW n \in Widths, NEW a \in Word(n), NEW b \in Int
    PROVE  mul_trs(a, b, n) \in Int
<1> DEFINE f == [i \in 0 .. n - 1 |-> Bit(b, i) * ShiftRight(a, n, i)]
<1>1. \A i \in 0 .. n - 1 : f[i] \in Int
  <2> TAKE i \in 0 .. n - 1
  <2>1. i \in Widths
    BY DEF Widths
  <2>2. Bit(b, i) \in Int
    BY <2>1, BitType
  <2>3. ShiftRight(a, n, i) \in Word(n)
    BY <2>1, ShiftRightType DEF Widths
  <2>4. ShiftRight(a, n, i) \in Int
    BY <2>3, WordIsInt
  <2> QED
    BY <2>2, <2>4
<1>2. SumTo(f, n) \in Int
  BY <1>1, SumType
<1>3. mod_3_n(SumTo(f, n), n) \in Word(n)
  BY <1>2, ModType
<1>4. mod_3_n(SumTo(f, n), n) \in Int
  BY <1>3, WordIsInt
<1>5. pow3(n) \in Nat \ {0}
  BY Pow3 DEF Widths
<1> HIDE DEF f
<1>6. (SumTo(f, n) - mod_3_n(SumTo(f, n), n)) \div pow3(n) \in Int
  BY <1>2, <1>4, <1>5
<1> QED
  BY <1>6 DEF mul_trs, f

(***************************************************************************)
(* Numbers and their trits.  Number(f, n) has the trits f[0] .. f[n - 1],  *)
(* for a word and for the one trit more that a sum may have.               *)
(***************************************************************************)
AreTrits(f, n) == \A i \in 0 .. n - 1 : f[i] \in -1 .. 1
Weighted(f, n) == [i \in 0 .. n - 1 |-> f[i] * pow3(i)]

Number(f, n) ==
    IF n \in Widths THEN SumTo(Weighted(f, n), n)
    ELSE SumTo(Weighted(f, 18), 18) + f[18] * pow3(18)

LEMMA Pow3Nat == \A n \in 0 .. 19 : pow3(n) \in Nat \ {0}
  BY Pow3

(* A sum depends on its terms only, and has one term after the other.      *)
LEMMA SumSame ==
    ASSUME NEW n \in Widths, NEW f, NEW g, \A i \in 0 .. n - 1 : f[i] = g[i]
    PROVE  SumTo(f, n) = SumTo(g, n)
<1> DEFINE t(i) == IF i < n THEN f[i] ELSE 0
           u(i) == IF i < n THEN g[i] ELSE 0
<1>1. \A i \in 0 .. 17 : t(i) = u(i)
  BY DEF Widths
<1>2. SumTo(f, n) = t(0) + t(1) + t(2) + t(3) + t(4) + t(5) + t(6) + t(7) + t(8)
        + t(9) + t(10) + t(11) + t(12) + t(13) + t(14) + t(15) + t(16) + t(17)
  BY DEF SumTo
<1>3. SumTo(g, n) = u(0) + u(1) + u(2) + u(3) + u(4) + u(5) + u(6) + u(7) + u(8)
        + u(9) + u(10) + u(11) + u(12) + u(13) + u(14) + u(15) + u(16) + u(17)
  BY DEF SumTo
<1> HIDE DEF t, u
<1> QED
  BY <1>1, <1>2, <1>3

LEMMA SumStep ==
    ASSUME NEW n \in 0 .. 17, NEW f, \A i \in 0 .. n : f[i] \in Int
    PROVE  SumTo(f, n + 1) = SumTo(f, n) + f[n]
<1> DEFINE t(i) == IF i < n THEN f[i] ELSE 0
           u(i) == IF i < n + 1 THEN f[i] ELSE 0
           d(i) == IF i = n THEN f[n] ELSE 0
<1>1. \A i \in 0 .. 17 : u(i) = t(i) + d(i) /\ t(i) \in Int /\ d(i) \in Int
  OBVIOUS
<1>2. SumTo(f, n) = t(0) + t(1) + t(2) + t(3) + t(4) + t(5) + t(6) + t(7) + t(8)
        + t(9) + t(10) + t(11) + t(12) + t(13) + t(14) + t(15) + t(16) + t(17)
  BY DEF SumTo
<1>3. SumTo(f, n + 1) = u(0) + u(1) + u(2) + u(3) + u(4) + u(5) + u(6) + u(7) + u(8)
        + u(9) + u(10) + u(11) + u(12) + u(13) + u(14) + u(15) + u(16) + u(17)
  BY DEF SumTo
<1>4. d(0) + d(1) + d(2) + d(3) + d(4) + d(5) + d(6) + d(7) + d(8)
        + d(9) + d(10) + d(11) + d(12) + d(13) + d(14) + d(15) + d(16) + d(17) = f[n]
  OBVIOUS
<1> HIDE DEF t, u, d
<1> QED
  BY <1>1, <1>2, <1>3, <1>4

LEMMA SumZero == \A f : SumTo(f, 0) = 0
  BY DEF SumTo

(* A number and its first trits.                                           *)
LEMMA WeightedInt ==
    ASSUME NEW n \in Widths, NEW f, AreTrits(f, n)
    PROVE  \A i \in 0 .. n - 1 : /\ Weighted(f, n)[i] \in -pow3(i) .. pow3(i)
                                 /\ Weighted(f, n)[i] = f[i] * pow3(i)
                                 /\ Weighted(f, n)[i] \in Int
<1> TAKE i \in 0 .. n - 1
<1>1. f[i] \in -1 .. 1 /\ pow3(i) \in Nat
  BY Pow3 DEF AreTrits, Widths
<1>2. f[i] * pow3(i) \in -pow3(i) .. pow3(i) /\ f[i] * pow3(i) \in Int
  BY <1>1
<1> QED
  BY <1>2 DEF Weighted

LEMMA NumberStep ==
    ASSUME NEW n \in Widths, NEW f, AreTrits(f, n + 1)
    PROVE  /\ Number(f, n) \in Int
           /\ Number(f, n + 1) = Number(f, n) + f[n] * pow3(n)
<1>0. AreTrits(f, n)
  BY DEF AreTrits, Widths
<1>1. Number(f, n) = SumTo(Weighted(f, n), n)
  BY DEF Number
<1>2. SumTo(Weighted(f, n), n) \in Int
  <2>1. \A i \in 0 .. n - 1 : Weighted(f, n)[i] \in Int
    BY <1>0, WeightedInt
  <2> QED
    BY <2>1, SumType
<1>3. CASE n = 18
  BY <1>1, <1>2, <1>3 DEF Number, Widths
<1>4. CASE n # 18
  <2>1. n + 1 \in Widths /\ n \in 0 .. 17
    BY <1>4 DEF Widths
  <2>2. Number(f, n + 1) = SumTo(Weighted(f, n + 1), n + 1)
    BY <2>1 DEF Number
  <2>3. \A i \in 0 .. n : Weighted(f, n + 1)[i] \in Int /\ Weighted(f, n + 1)[i] = f[i] * pow3(i)
    BY <2>1, WeightedInt
  <2>4. SumTo(Weighted(f, n + 1), n + 1) = SumTo(Weighted(f, n + 1), n) + f[n] * pow3(n)
    BY <2>1, <2>3, SumStep
  <2>5. SumTo(Weighted(f, n + 1), n) = SumTo(Weighted(f, n), n)
    <3>1. \A i \in 0 .. n - 1 : Weighted(f, n + 1)[i] = Weighted(f, n)[i]
      <4> TAKE i \in 0 .. n - 1
      <4>1. Weighted(f, n)[i] = f[i] * pow3(i)
        BY <1>0, WeightedInt
      <4>2. i \in 0 .. n
        BY DEF Widths
      <4> QED
        BY <2>3, <4>1, <4>2
    <3> QED
      BY <3>1, SumSame
  <2> QED
    BY <1>1, <1>2, <2>2, <2>4, <2>5
<1> QED
  BY <1>1, <1>2, <1>3, <1>4

LEMMA NumberZero == \A f : Number(f, 0) = 0
  BY SumZero DEF Number, Widths

(* A number of n trits is a word of n trits.                               *)
LEMMA NumberType ==
    ASSUME NEW n \in 0 .. 19, NEW f, AreTrits(f, n)
    PROVE  Number(f, n) \in -MaxWord(n) .. MaxWord(n) /\ Number(f, n) \in Int
<1>1. CASE n \in Widths
  <2>1. Number(f, n) \in -MaxWord(n) .. MaxWord(n)
    BY <1>1, WeightedInt, SumBound DEF Number
  <2> QED
    BY <2>1, Pow3
<1>2. CASE n = 19
  <2>1. AreTrits(f, 18) /\ 18 \in Widths /\ f[18] \in -1 .. 1
    BY <1>2 DEF AreTrits, Widths
  <2>2. SumTo(Weighted(f, 18), 18) \in -MaxWord(18) .. MaxWord(18)
    BY <2>1, WeightedInt, SumBound
  <2>3. Number(f, n) = SumTo(Weighted(f, 18), 18) + f[18] * pow3(18)
    BY <1>2 DEF Number, Widths
  <2>4. MaxWord(19) = MaxWord(18) + pow3(18) /\ pow3(18) \in Nat /\ MaxWord(18) \in Nat
    BY DEF MaxWord, pow3, POW3_TABLE
  <2> QED
    BY <1>2, <2>1, <2>2, <2>3, <2>4
<1> QED
  BY <1>1, <1>2 DEF Widths

LEMMA NumberSame ==
    ASSUME NEW n \in 0 .. 19, NEW f, NEW g, \A i \in 0 .. n - 1 : f[i] = g[i]
    PROVE  Number(f, n) = Number(g, n)
<1>1. CASE n \in Widths
  <2>1. Weighted(f, n) = Weighted(g, n)
    BY DEF Weighted
  <2> QED
    BY <1>1, <2>1 DEF Number
<1>2. CASE n = 19
  <2>1. Weighted(f, 18) = Weighted(g, 18) /\ f[18] = g[18]
    BY <1>2 DEF Weighted
  <2> QED
    BY <1>2, <2>1 DEF Number, Widths
<1> QED
  BY <1>1, <1>2 DEF Widths

(* Quotient and remainder are what they should be.                         *)
LEMMA DivMod ==
    ASSUME NEW p \in Nat \ {0}, NEW q \in Int, NEW m \in 0 .. p - 1
    PROVE  (q * p + m) \div p = q /\ (q * p + m) % p = m
<1> DEFINE v == q * p + m  d == v \div p  r == v % p
<1>1. v \in Int /\ d \in Int /\ r \in 0 .. p - 1 /\ v = p * d + r
  BY SMTT(20)
<1>2. v = q * p + m
  OBVIOUS
<1> HIDE DEF v, d, r
<1>3. (q - d) * p = r - m
  BY <1>1, <1>2
<1>4. q = d
  <2>1. CASE q - d >= 1
    <3>1. (q - d) * p >= p
      BY <1>1, <2>1
    <3> QED
      BY <1>1, <1>3, <3>1
  <2>2. CASE d - q >= 1
    <3>1. (d - q) * p >= p /\ (q - d) * p = - ((d - q) * p)
      BY <1>1, <2>2
    <3> QED
      BY <1>1, <1>3, <3>1
  <2> QED
    BY <1>1, <2>1, <2>2
<1>5. r = m
  BY <1>1, <1>3, <1>4
<1> QED
  BY <1>4, <1>5 DEF v, d, r

LEMMA Centered ==
    ASSUME NEW n \in Widths, NEW r \in -MaxWord(n) .. MaxWord(n), NEW q \in Int
    PROVE  /\ mod_3_n(q * pow3(n) + r, n) = r
           /\ (q * pow3(n)) \div pow3(n) = q
           /\ ((q * pow3(n) + r) - r) \div pow3(n) = q
<1> DEFINE M == MaxWord(n)  p == pow3(n)
<1>1. M \in Nat /\ p = 2 * M + 1 /\ p \in Nat \ {0}
  BY Pow3 DEF Widths
<1> HIDE DEF M, p
<1>2. r + M \in 0 .. p - 1 /\ r \in Int /\ 0 \in 0 .. p - 1 /\ q * p \in Int
  BY <1>1 DEF M
<1>3. (q * p + (r + M)) % p = r + M /\ (q * p + 0) \div p = q
  BY <1>1, <1>2, DivMod
<1>4. (q * p + r) + M = q * p + (r + M) /\ q * p + 0 = q * p /\ (q * p + r) - r = q * p
  BY <1>1, <1>2
<1>5. (r + M) - M = r
  BY <1>1, <1>2
<1> QED
  BY <1>3, <1>4, <1>5 DEF mod_3_n, M, p

(* The trits of a number from trit k on are a number, those below it are   *)
(* the remainder.                                                          *)
TritsFrom(f, k) == [i \in Nat |-> f[k + i]]

LEMMA NumberSplit ==
    ASSUME NEW n \in 0 .. 19, NEW f, AreTrits(f, n), NEW k \in 0 .. n
    PROVE  /\ AreTrits(f, k) /\ AreTrits(TritsFrom(f, k), n - k)
           /\ Number(f, k) \in Int /\ Number(TritsFrom(f, k), n - k) \in Int
           /\ Number(f, n) = Number(TritsFrom(f, k), n - k) * pow3(k) + Number(f, k)
<1> DEFINE g == TritsFrom(f, k)
           T == {m \in k .. n : Number(f, m) = Number(g, m - k) * pow3(k) + Number(f, k)}
<1>1. \A m \in k .. n : AreTrits(f, m) /\ AreTrits(g, m - k) /\ m - k \in 0 .. 19 /\ m \in 0 .. 19
  BY DEF AreTrits, TritsFrom
<1>2. \A m \in k .. n : Number(f, m) \in Int /\ Number(g, m - k) \in Int
  BY <1>1, NumberType
<1>3. k \in T
  <2>1. k - k = 0 /\ k \in k .. n /\ Number(f, k) \in Int /\ pow3(k) \in Nat
    BY <1>2, Pow3
  <2> QED
    BY <2>1, NumberZero
<1>4. ASSUME NEW m \in k .. n - 1, m \in T PROVE m + 1 \in T
  <2>1. m \in Widths /\ m + 1 \in k .. n /\ m - k \in Widths /\ (m + 1) - k = (m - k) + 1
    BY DEF Widths
  <2>2. Number(f, m + 1) = Number(f, m) + f[m] * pow3(m)
    BY <1>1, <2>1, NumberStep
  <2>3. Number(g, (m - k) + 1) = Number(g, m - k) + g[m - k] * pow3(m - k)
    <3>1. AreTrits(g, (m - k) + 1)
      BY <1>1, <2>1
    <3> QED
      BY <2>1, <3>1, NumberStep
  <2>4. g[m - k] = f[m] /\ f[m] \in -1 .. 1
    <3>1. AreTrits(f, n) /\ m \in 0 .. n - 1 /\ m - k \in Nat /\ k + (m - k) = m
      OBVIOUS
    <3> QED
      BY <3>1 DEF AreTrits, TritsFrom
  <2>5. pow3(m) = pow3(m - k) * pow3(k)
    BY <2>1, Pow3Split
  <2>6. pow3(k) \in Nat /\ pow3(m - k) \in Nat
    BY <2>1, Pow3 DEF Widths
  <2>7. Number(f, m) = Number(g, m - k) * pow3(k) + Number(f, k)
    BY <1>4
  <2> DEFINE A == Number(g, m - k)  B == Number(f, k)  c == pow3(k)  p == pow3(m - k)  d == f[m]
  <2>8. A \in Int /\ B \in Int /\ c \in Nat /\ p \in Nat /\ d \in -1 .. 1
    <3>1. k \in k .. n /\ m \in k .. n
      OBVIOUS
    <3> QED
      BY <1>2, <2>4, <2>6, <3>1
  <2>9. Number(f, m + 1) = (A * c + B) + d * (p * c) /\ Number(g, (m + 1) - k) = A + d * p
    BY <2>1, <2>2, <2>3, <2>4, <2>5, <2>7
  <2> HIDE DEF A, B, c, p, d
  <2>10. (A * c + B) + d * (p * c) = (A + d * p) * c + B
    <3>1. CASE d = 0
      BY <2>8, <3>1
    <3>2. CASE d = 1
      BY <2>8, <3>2
    <3>3. CASE d = -1
      BY <2>8, <3>3
    <3> QED
      BY <2>8, <3>1, <3>2, <3>3
  <2> QED
    BY <2>1, <2>9, <2>10 DEF B, c
<1> HIDE DEF T
<1>5. n \in T
  <2>1. k .. n \subseteq T
    BY <1>3, <1>4, Induction
  <2> QED
    BY <2>1
<1>6. k \in k .. n /\ n \in k .. n
  OBVIOUS
<1> QED
  BY <1>1, <1>2, <1>5, <1>6 DEF T

LEMMA NumberLow ==
    ASSUME NEW n \in 0 .. 19, NEW f, AreTrits(f, n), NEW k \in Widths, k <= n
    PROVE  /\ mod_3_n(Number(f, n), k) = Number(f, k)
           /\ (Number(f, n) - Number(f, k)) \div pow3(k) = Number(TritsFrom(f, k), n - k)
<1> DEFINE r == Number(f, k)  q == Number(TritsFrom(f, k), n - k)
<1>1. k \in 0 .. n /\ k \in 0 .. 19
  BY DEF Widths
<1>2. AreTrits(f, k) /\ q \in Int /\ Number(f, n) = q * pow3(k) + r
  BY <1>1, NumberSplit
<1>3. r \in -MaxWord(k) .. MaxWord(k)
  BY <1>1, <1>2, NumberType
<1> HIDE DEF r, q
<1> QED
  BY <1>2, <1>3, Centered DEF r, q

(* Trits that are zero at the end, and at the beginning, of a number.      *)
LEMMA NumberOfZeros ==
    ASSUME NEW n \in 0 .. 19, NEW f, \A i \in 0 .. n - 1 : f[i] = 0
    PROVE  Number(f, n) = 0
<1> DEFINE T == {m \in 0 .. n : Number(f, m) = 0}
<1>1. 0 \in T
  BY NumberZero
<1>2. ASSUME NEW m \in 0 .. n - 1, m \in T PROVE m + 1 \in T
  <2>1. m \in Widths /\ AreTrits(f, m + 1) /\ pow3(m) \in Nat /\ f[m] = 0
    BY Pow3 DEF Widths, AreTrits
  <2>2. Number(f, m + 1) = Number(f, m) + f[m] * pow3(m)
    BY <2>1, NumberStep
  <2> QED
    BY <1>2, <2>1, <2>2
<1> HIDE DEF T
<1>3. 0 .. n \subseteq T
  BY <1>1, <1>2, Induction
<1> QED
  BY <1>3 DEF T

LEMMA NumberOfLow ==
    ASSUME NEW n \in 0 .. 19, NEW f, AreTrits(f, n), NEW k \in 0 .. n,
           \A i \in k .. n - 1 : f[i] = 0
    PROVE  Number(f, n) = Number(f, k)
<1>1. Number(TritsFrom(f, k), n - k) = 0
  <2>1. \A i \in 0 .. (n - k) - 1 : TritsFrom(f, k)[i] = 0
    BY DEF TritsFrom
  <2> QED
    BY <2>1, NumberOfZeros
<1>2. /\ Number(f, n) = Number(TritsFrom(f, k), n - k) * pow3(k) + Number(f, k)
      /\ Number(f, k) \in Int
  BY NumberSplit
<1>3. pow3(k) \in Nat
  <2>1. k \in 0 .. 19
    OBVIOUS
  <2> QED
    BY <2>1, Pow3
<1> QED
  BY <1>1, <1>2, <1>3

LEMMA NumberOfHigh ==
    ASSUME NEW n \in 0 .. 19, NEW f, AreTrits(f, n), NEW k \in 0 .. n,
           \A i \in 0 .. k - 1 : f[i] = 0
    PROVE  Number(f, n) = Number(TritsFrom(f, k), n - k) * pow3(k)
<1>1. Number(f, k) = 0
  BY NumberOfZeros
<1>2. /\ Number(f, n) = Number(TritsFrom(f, k), n - k) * pow3(k) + Number(f, k)
      /\ Number(TritsFrom(f, k), n - k) \in Int
  BY NumberSplit
<1>3. pow3(k) \in Nat
  <2>1. k \in 0 .. 19
    OBVIOUS
  <2> QED
    BY <2>1, Pow3
<1> QED
  BY <1>1, <1>2, <1>3

(* One trit of a number, and the numbers of one trit.                      *)
LEMMA NumberOfOne ==
    ASSUME NEW f, AreTrits(f, 1) PROVE Number(f, 1) = f[0]
<1>1. 0 \in Widths /\ AreTrits(f, 0 + 1) /\ 0 + 1 = 1 /\ f[0] \in -1 .. 1
  BY DEF Widths, AreTrits
<1>2. Number(f, 1) = Number(f, 0) + f[0] * pow3(0)
  BY <1>1, NumberStep
<1>3. pow3(0) = 1
  BY DEF pow3, POW3_TABLE
<1> QED
  BY <1>1, <1>2, <1>3, NumberZero

LEMMA NumberBit ==
    ASSUME NEW n \in 0 .. 19, NEW f, AreTrits(f, n), NEW i \in 0 .. n - 1
    PROVE  Bit(Number(f, n), i) = f[i]
<1> DEFINE g == TritsFrom(f, i)
<1>1. i \in 0 .. n /\ i \in Widths /\ 1 \in Widths /\ n - i \in 0 .. 19 /\ 1 <= n - i /\ i <= n
  BY DEF Widths
<1>2. mod_3_n(Number(f, n), i) = Number(f, i)
      /\ (Number(f, n) - Number(f, i)) \div pow3(i) = Number(g, n - i)
  BY <1>1, NumberLow
<1>3. AreTrits(g, n - i)
  BY <1>1, NumberSplit
<1>4. mod_3_n(Number(g, n - i), 1) = Number(g, 1)
  BY <1>1, <1>3, NumberLow
<1>5. AreTrits(g, 1) /\ g[0] = f[i]
  BY <1>1, <1>3 DEF AreTrits, TritsFrom
<1> QED
  BY <1>2, <1>4, <1>5, NumberOfOne DEF Bit

(* Shifts and slices of a number move its trits.                           *)
LEMMA ShiftRightNumber ==
    ASSUME NEW n \in Widths, NEW f, AreTrits(f, n), NEW d \in Nat
    PROVE  ShiftRight(Number(f, n), n, d) = IF d < n THEN Number(TritsFrom(f, d), n - d) ELSE 0
<1>1. CASE d < n
  <2>1. n \in 0 .. 19 /\ d \in Widths /\ d <= n
    BY <1>1 DEF Widths
  <2> QED
    BY <1>1, <2>1, NumberLow DEF ShiftRight
<1>2. CASE ~(d < n)
  BY <1>2 DEF ShiftRight
<1> QED
  BY <1>1, <1>2

LEMMA ShiftLeftNumber ==
    ASSUME NEW n \in Widths, NEW f, AreTrits(f, n), NEW d \in Nat
    PROVE  ShiftLeft(Number(f, n), n, d) = IF d < n THEN Number(f, n - d) * pow3(d) ELSE 0
<1>1. CASE d < n
  <2>1. n \in 0 .. 19 /\ n - d \in Widths /\ n - d <= n
    BY <1>1 DEF Widths
  <2> QED
    BY <1>1, <2>1, NumberLow DEF ShiftLeft
<1>2. CASE ~(d < n)
  BY <1>2 DEF ShiftLeft
<1> QED
  BY <1>1, <1>2

LEMMA SliceNumber ==
    ASSUME NEW n \in Widths, NEW f, AreTrits(f, n), NEW p1 \in 1 .. n, NEW p2 \in p1 .. n
    PROVE  slice_trs_setun(Number(f, n), n, p1, p2) = Number(TritsFrom(f, n - p2), p2 - p1 + 1)
<1> DEFINE g == TritsFrom(f, n - p2)
<1>1. /\ n - p2 \in Nat /\ n - p2 < n /\ n - p2 \in 0 .. n /\ n - (n - p2) = p2
      /\ p2 \in 0 .. 19 /\ p2 - p1 + 1 \in Widths /\ p2 - p1 + 1 <= p2 /\ n \in 0 .. 19
  BY DEF Widths
<1>2. ShiftRight(Number(f, n), n, n - p2) = Number(g, p2)
  BY <1>1, ShiftRightNumber
<1>3. AreTrits(g, p2)
  BY <1>1, NumberSplit
<1>4. mod_3_n(Number(g, p2), p2 - p1 + 1) = Number(g, p2 - p1 + 1)
  BY <1>1, <1>3, NumberLow
<1>5. ~(p1 > p2 \/ p1 < 1 \/ p2 > n)
  BY DEF Widths
<1> QED
  BY <1>2, <1>4, <1>5 DEF slice_trs_setun

LEMMA TritNumber ==
    ASSUME NEW n \in Widths, NEW f, AreTrits(f, n), NEW p \in Int
    PROVE  get_trit_setun(Number(f, n), n, p) = IF p \in 1 .. n THEN f[n - p] ELSE 0
<1>1. CASE p \in 1 .. n
  <2> DEFINE g == TritsFrom(f, n - p)
  <2>1. /\ p \in p .. n /\ p - p + 1 = 1 /\ n - p \in 0 .. n /\ n \in 0 .. 19 /\ n - (n - p) = p
    BY <1>1 DEF Widths
  <2>2. slice_trs_setun(Number(f, n), n, p, p) = Number(g, 1)
    BY <1>1, <2>1, SliceNumber
  <2>3. AreTrits(g, p)
    BY <2>1, NumberSplit
  <2>4. AreTrits(g, 1) /\ g[0] = f[n - p]
    BY <1>1, <2>1, <2>3 DEF AreTrits, TritsFrom
  <2> QED
    BY <1>1, <2>2, <2>4, NumberOfOne DEF get_trit_setun
<1>2. CASE ~(p \in 1 .. n)
  BY <1>2 DEF get_trit_setun
<1> QED
  BY <1>1, <1>2

(* The sign of a number is its first trit that is not zero.                *)
LEMMA SignNumber ==
    ASSUME NEW n \in 0 .. 19, NEW f, AreTrits(f, n), NEW top \in 0 .. n - 1,
           f[top] # 0, \A i \in top + 1 .. n - 1 : f[i] = 0
    PROVE  sgn_trs(Number(f, n)) = f[top]
<1>1. top + 1 \in 0 .. n /\ top \in Widths /\ top \in 0 .. 19 /\ top + 1 \in 0 .. 19
  BY DEF Widths
<1>2. Number(f, n) = Number(f, top + 1)
  BY <1>1, NumberOfLow
<1>3. AreTrits(f, top) /\ AreTrits(f, top + 1) /\ f[top] \in {-1, 1}
  BY <1>1 DEF AreTrits
<1>4. Number(f, top + 1) = Number(f, top) + f[top] * pow3(top)
  BY <1>1, <1>3, NumberStep
<1>5. Number(f, top) \in -MaxWord(top) .. MaxWord(top)
  BY <1>1, <1>3, NumberType
<1>6. MaxWord(top) \in Nat /\ pow3(top) = 2 * MaxWord(top) + 1
  BY <1>1, Pow3
<1>7. CASE f[top] = 1
  BY <1>2, <1>4, <1>5, <1>6, <1>7 DEF sgn_trs
<1>8. CASE f[top] = -1
  BY <1>2, <1>4, <1>5, <1>6, <1>8 DEF sgn_trs
<1> QED
  BY <1>3, <1>7, <1>8

(* Changing the sign of every trit changes that of the number.             *)
LEMMA NumberNegated ==
    ASSUME NEW n \in 0 .. 19, NEW f, AreTrits(f, n), NEW g, \A i \in 0 .. n - 1 : g[i] = - f[i]
    PROVE  AreTrits(g, n) /\ Number(g, n) = - Number(f, n)
<1> DEFINE T == {m \in 0 .. n : Number(g, m) = - Number(f, m)}
<1>1. \A m \in 0 .. n : AreTrits(f, m) /\ AreTrits(g, m)
  BY DEF AreTrits
<1>2. 0 \in T
  BY NumberZero
<1>3. ASSUME NEW m \in 0 .. n - 1, m \in T PROVE m + 1 \in T
  <2>1. m \in Widths /\ m + 1 \in 0 .. n /\ pow3(m) \in Nat /\ g[m] = - f[m] /\ f[m] \in -1 .. 1
    BY Pow3 DEF Widths, AreTrits
  <2>2. /\ Number(f, m + 1) = Number(f, m) + f[m] * pow3(m)
        /\ Number(g, m + 1) = Number(g, m) + g[m] * pow3(m)
        /\ Number(f, m) \in Int
    BY <1>1, <2>1, NumberStep
  <2>3. g[m] * pow3(m) = - (f[m] * pow3(m)) /\ f[m] * pow3(m) \in Int
    BY <2>1
  <2> QED
    BY <1>3, <2>1, <2>2, <2>3
<1> HIDE DEF T
<1>4. 0 .. n \subseteq T
  BY <1>2, <1>3, Induction
<1> QED
  BY <1>1, <1>4 DEF T

(* A sum, trit by trit with a carry.                                       *)
LEMMA SumWithCarry ==
    ASSUME NEW n \in 0 .. 19, NEW x, NEW y, NEW s, AreTrits(x, n), AreTrits(y, n), AreTrits(s, n),
           NEW c, c[0] = 0, \A i \in 0 .. n : c[i] \in -1 .. 1,
           \A i \in 0 .. n - 1 : s[i] + 3 * c[i + 1] = x[i] + y[i] + c[i]
    PROVE  /\ Number(x, n) + Number(y, n) = Number(s, n) + c[n] * pow3(n)
           /\ n \in Widths => mod_3_n(Number(x, n) + Number(y, n), n) = Number(s, n)
<1> DEFINE T == {m \in 0 .. n : Number(x, m) + Number(y, m) = Number(s, m) + c[m] * pow3(m)}
<1>1. \A m \in 0 .. n : AreTrits(x, m) /\ AreTrits(y, m) /\ AreTrits(s, m)
  BY DEF AreTrits
<1>2. 0 \in T
  <2>1. pow3(0) \in Nat /\ c[0] * pow3(0) = 0
    BY Pow3
  <2> QED
    BY <2>1, NumberZero
<1>3. ASSUME NEW m \in 0 .. n - 1, m \in T PROVE m + 1 \in T
  <2>1. m \in Widths /\ m + 1 \in 0 .. n /\ pow3(m) \in Nat
    BY Pow3 DEF Widths
  <2>2. /\ Number(x, m + 1) = Number(x, m) + x[m] * pow3(m)
        /\ Number(y, m + 1) = Number(y, m) + y[m] * pow3(m)
        /\ Number(s, m + 1) = Number(s, m) + s[m] * pow3(m)
        /\ Number(x, m) \in Int /\ Number(y, m) \in Int /\ Number(s, m) \in Int
    BY <1>1, <2>1, NumberStep
  <2>3. /\ x[m] \in -1 .. 1 /\ y[m] \in -1 .. 1 /\ s[m] \in -1 .. 1
        /\ c[m] \in -1 .. 1 /\ c[m + 1] \in -1 .. 1
        /\ s[m] + 3 * c[m + 1] = x[m] + y[m] + c[m]
    BY <2>1 DEF AreTrits
  <2>4. pow3(m + 1) = 3 * pow3(m)
    BY <2>1, Pow3Next
  <2>5. Number(x, m) + Number(y, m) = Number(s, m) + c[m] * pow3(m)
    BY <1>3
  <2> DEFINE p == pow3(m)  xm == x[m]  ym == y[m]  sm == s[m]  cm == c[m]  cn == c[m + 1]
  <2>6. xm * p + ym * p + cm * p = sm * p + cn * (3 * p)
    <3>1. p \in Nat /\ xm \in Int /\ ym \in Int /\ sm \in Int /\ cm \in Int /\ cn \in Int
          /\ sm + 3 * cn = xm + ym + cm
      BY <2>1, <2>3
    <3> HIDE DEF p, xm, ym, sm, cm, cn
    <3>2. (xm + ym + cm) * p = xm * p + ym * p + cm * p
      BY <3>1
    <3>3. (sm + 3 * cn) * p = sm * p + cn * (3 * p)
      BY <3>1
    <3> QED
      BY <3>1, <3>2, <3>3
  <2>7. xm * p \in Int /\ ym * p \in Int /\ cm * p \in Int /\ sm * p \in Int /\ cn * (3 * p) \in Int
    <3>1. p \in Nat /\ xm \in Int /\ ym \in Int /\ sm \in Int /\ cm \in Int /\ cn \in Int
      BY <2>1, <2>3
    <3> HIDE DEF p, xm, ym, sm, cm, cn
    <3> QED
      BY <3>1
  <2>8. Number(x, m + 1) + Number(y, m + 1) = Number(s, m + 1) + cn * (3 * p)
    <3>1. /\ Number(x, m) + Number(y, m) = Number(s, m) + cm * p
          /\ Number(x, m + 1) = Number(x, m) + xm * p
          /\ Number(y, m + 1) = Number(y, m) + ym * p
          /\ Number(s, m + 1) = Number(s, m) + sm * p
      BY <2>2, <2>5
    <3> HIDE DEF p, xm, ym, sm, cm, cn
    <3> QED
      BY <2>2, <2>6, <2>7, <3>1
  <2> QED
    BY <2>1, <2>4, <2>8
<1> HIDE DEF T
<1>4. 0 .. n \subseteq T
  BY <1>2, <1>3, Induction
<1>5. n \in T
  BY <1>4
<1>6. Number(x, n) + Number(y, n) = Number(s, n) + c[n] * pow3(n)
  BY <1>5 DEF T
<1>7. ASSUME n \in Widths PROVE mod_3_n(Number(x, n) + Number(y, n), n) = Number(s, n)
  <2> DEFINE r == Number(s, n)  q == c[n]
  <2>1. r \in -MaxWord(n) .. MaxWord(n) /\ r \in Int /\ q \in Int /\ pow3(n) \in Nat
    BY NumberType, Pow3
  <2>2. Number(x, n) + Number(y, n) = q * pow3(n) + r
    BY <1>6, <2>1
  <2>3. mod_3_n(q * pow3(n) + r, n) = r
    BY <1>7, <2>1, Centered
  <2> QED
    BY <2>2, <2>3
<1> QED
  BY <1>6, <1>7

(* Every word has trits.                                                   *)
LEMMA WordHasTrits ==
    ASSUME NEW n \in Widths, NEW v \in Word(n)
    PROVE  \E f \in [Nat -> -1 .. 1] : AreTrits(f, n) /\ Number(f, n) = v
<1> DEFINE T == {m \in 0 .. n : \A w \in Word(m) : \E f \in [Nat -> -1 .. 1] : Number(f, m) = w}
<1>1. 0 \in T
  <2>1. Word(0) = {0}
    BY DEF Word, MaxWord, pow3, POW3_TABLE
  <2>2. [i \in Nat |-> 0] \in [Nat -> -1 .. 1]
    OBVIOUS
  <2>3. \A w \in Word(0) : \E f \in [Nat -> -1 .. 1] : Number(f, 0) = w
    BY <2>1, <2>2, NumberZero
  <2> QED
    BY <2>3 DEF Widths
<1>2. ASSUME NEW m \in 0 .. n - 1, m \in T PROVE m + 1 \in T
  <2>1. m \in Widths /\ m \in 0 .. 19 /\ m + 1 \in 0 .. 19 /\ m + 1 \in 0 .. n
    BY DEF Widths
  <2>2. ASSUME NEW w \in Word(m + 1)
        PROVE  \E f \in [Nat -> -1 .. 1] : Number(f, m + 1) = w
    <3> DEFINE M == MaxWord(m)  p == pow3(m)
               t == IF w > M THEN 1 ELSE IF w < -M THEN -1 ELSE 0
               r == w - t * p
    <3>1. M \in Nat /\ p = 2 * M + 1 /\ MaxWord(m + 1) \in Nat
          /\ pow3(m + 1) = 2 * MaxWord(m + 1) + 1 /\ pow3(m + 1) = 3 * p
      BY <2>1, Pow3, Pow3Next
    <3>2. w \in -MaxWord(m + 1) .. MaxWord(m + 1)
      BY DEF Word
    <3> HIDE DEF M, p
    <3>3. w \in -(3 * M + 1) .. 3 * M + 1
      BY <3>1, <3>2
    <3>4. r \in -M .. M /\ t \in -1 .. 1 /\ w = r + t * p /\ r \in Int
      BY <3>1, <3>3
    <3> HIDE DEF t, r
    <3>5. PICK g \in [Nat -> -1 .. 1] : Number(g, m) = r
      BY <1>2, <3>4 DEF Word, M
    <3> DEFINE f == [i \in Nat |-> IF i = m THEN t ELSE g[i]]
    <3>6. f \in [Nat -> -1 .. 1] /\ f[m] = t /\ \A i \in 0 .. m - 1 : f[i] = g[i]
      BY <2>1, <3>4
    <3> HIDE DEF f
    <3>7. AreTrits(f, m + 1)
      BY <2>1, <3>6 DEF AreTrits
    <3>8. Number(f, m + 1) = Number(f, m) + t * p
      BY <2>1, <3>6, <3>7, NumberStep DEF p
    <3>9. Number(f, m) = r
      BY <2>1, <3>5, <3>6, NumberSame
    <3> QED
      BY <3>4, <3>6, <3>8, <3>9
  <2> QED
    BY <2>1, <2>2
<1> HIDE DEF T
<1>3. 0 .. n \subseteq T
  <2>1. 0 \in Nat /\ n \in Nat
    BY DEF Widths
  <2> QED
    BY <1>1, <1>2, <2>1, Induction
<1>4. n \in T
  BY <1>3 DEF Widths
<1>5. PICK f \in [Nat -> -1 .. 1] : Number(f, n) = v
  BY <1>4 DEF T
<1>6. AreTrits(f, n)
  BY DEF AreTrits, Widths
<1> QED
  BY <1>5, <1>6

(* A shift to the left moves the trits up and fills with zeros.            *)
TritsUp(f, d) == [i \in Nat |-> IF i < d THEN 0 ELSE f[i - d]]

LEMMA ShiftLeftTrits ==
    ASSUME NEW n \in Widths, NEW f, AreTrits(f, n), NEW d \in 0 .. n - 1
    PROVE  /\ AreTrits(TritsUp(f, d), n)
           /\ ShiftLeft(Number(f, n), n, d) = Number(TritsUp(f, d), n)
<1> DEFINE g == TritsUp(f, d)  h == TritsFrom(g, d)
<1>1. n \in 0 .. 19 /\ d \in 0 .. n /\ n - d \in 0 .. 19 /\ d \in Nat /\ d < n
  BY DEF Widths
<1>2. AreTrits(g, n)
  BY DEF AreTrits, TritsUp, Widths
<1>3. \A i \in 0 .. d - 1 : g[i] = 0
  BY DEF TritsUp
<1>4. \A i \in 0 .. (n - d) - 1 : h[i] = f[i]
  BY DEF TritsUp, TritsFrom, Widths
<1> HIDE DEF g
<1>5. Number(g, n) = Number(h, n - d) * pow3(d)
  BY <1>1, <1>2, <1>3, NumberOfHigh
<1> HIDE DEF h
<1>6. Number(h, n - d) = Number(f, n - d)
  BY <1>1, <1>4, NumberSame
<1>7. ShiftLeft(Number(f, n), n, d) = Number(f, n - d) * pow3(d)
  BY <1>1, ShiftLeftNumber
<1> QED
  BY <1>2, <1>5, <1>6, <1>7 DEF g

(* A number is zero only if all its trits are.                             *)
LEMMA NumberNotZero ==
    ASSUME NEW n \in 0 .. 19, NEW f, AreTrits(f, n), NEW i \in 0 .. n - 1, f[i] # 0
    PROVE  Number(f, n) # 0
<1>1. Bit(Number(f, n), i) = f[i]
  BY NumberBit
<1>2. Bit(0, i) = 0
  <2>1. i \in Widths /\ 1 \in Widths
    BY DEF Widths
  <2>2. pow3(i) \in Nat \ {0} /\ \A k \in Widths : MaxWord(k) \in Nat /\ pow3(k) = 2 * MaxWord(k) + 1
    BY <2>1, Pow3 DEF Widths
  <2>3. \A k \in Widths : mod_3_n(0, k) = 0
    <3> TAKE k \in Widths
    <3> DEFINE M == MaxWord(k)
    <3>1. M \in Nat /\ pow3(k) = 2 * M + 1
      BY <2>2
    <3> HIDE DEF M
    <3>2. (0 + M) % (2 * M + 1) = M
      BY <3>1
    <3> QED
      BY <3>1, <3>2 DEF mod_3_n, M
  <2>4. (0 - 0) \div pow3(i) = 0
    BY <2>2
  <2> QED
    BY <2>1, <2>3, <2>4 DEF Bit
<1> QED
  BY <1>1, <1>2
=============================================================================
