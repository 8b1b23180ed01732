------------------------- MODULE TritPlanes_proofs --------------------------
(***************************************************************************)
(* That the functions on bit planes compute on the numbers the planes      *)
(* denote (PlanesImplementNumbers), for every word of up to 18 trits, and  *)
(* the four facts about the notation of words in TritNotation.             *)
(*                                                                         *)
(* Every function has a lemma ...Facts with two parts: its result is a     *)
(* word, and which trits it has.  The digit theory of Ternary_proofs makes *)
(* numbers of the trits; a loop with a carry, a loop over partial products *)
(* and the division by 3 are recursive functions, which have a solution    *)
(* (RecursionHasSolution) and are followed by Induction over its domain.   *)
(***************************************************************************)
EXTENDS TritNotation, Induction

TP == INSTANCE Ternary_proofs

(* Both instances of Ternary are the same operators.                       *)
LEMMA SameOperators ==
    /\ \A n : T!pow3(n) = TP!pow3(n) /\ T!MaxWord(n) = TP!MaxWord(n)
    /\ \A v : T!sgn_trs(v) = TP!sgn_trs(v)
    /\ \A v, n : /\ T!mod_3_n(v, n) = TP!mod_3_n(v, n) /\ T!Bit(v, n) = TP!Bit(v, n)
                 /\ T!inc_trs(v, n) = TP!inc_trs(v, n) /\ T!dec_trs(v, n) = TP!dec_trs(v, n)
    /\ \A v, n, d : /\ T!shift_trs(v, n, d) = TP!shift_trs(v, n, d)
                    /\ T!copy_trs_setun(v, n, d) = TP!copy_trs_setun(v, n, d)
                    /\ T!ShiftRight(v, n, d) = TP!ShiftRight(v, n, d)
                    /\ T!get_trit_setun(v, n, d) = TP!get_trit_setun(v, n, d)
    /\ \A x, y, n : /\ T!add_trs(x, y, n) = TP!add_trs(x, y, n)
                    /\ T!sub_trs(x, y, n) = TP!sub_trs(x, y, n)
                    /\ T!cmp_trs(x, y, n) = TP!cmp_trs(x, y, n)
    /\ \A v, l, p1, p2 : T!slice_trs_setun(v, l, p1, p2) = TP!slice_trs_setun(v, l, p1, p2)
  BY DEF T!pow3, T!POW3_TABLE, T!MaxWord, T!sgn_trs, T!mod_3_n, T!Bit, T!shift_trs, T!TRS_WIDTH,
      T!ShiftLeft, T!ShiftRight, T!copy_trs_setun, T!get_trit_setun, T!slice_trs_setun,
      T!add_trs, T!sub_trs, T!inc_trs, T!dec_trs, T!cmp_trs,
      TP!pow3, TP!POW3_TABLE, TP!MaxWord, TP!sgn_trs, TP!mod_3_n, TP!Bit, TP!shift_trs, TP!TRS_WIDTH,
      TP!ShiftLeft, TP!ShiftRight, TP!copy_trs_setun, TP!get_trit_setun, TP!slice_trs_setun,
      TP!add_trs, TP!sub_trs, TP!inc_trs, TP!dec_trs, TP!cmp_trs

LEMMA SameSums ==
    ASSUME NEW f, NEW n PROVE T!SumTo(f, n) = TP!SumTo(f, n)
  BY DEF T!SumTo, TP!SumTo

LEMMA SameProducts ==
    ASSUME NEW x, NEW y, NEW n
    PROVE  T!and_trs(x, y, n) = TP!and_trs(x, y, n) /\ T!mul_trs(x, y, n) = TP!mul_trs(x, y, n)
<1>1. [i \in 0 .. n - 1 |-> T!Bit(x, i) * T!Bit(y, i) * T!pow3(i)]
        = [i \in 0 .. n - 1 |-> TP!Bit(x, i) * TP!Bit(y, i) * TP!pow3(i)]
  BY SameOperators
<1>2. [i \in 0 .. n - 1 |-> T!Bit(y, i) * T!ShiftRight(x, n, i)]
        = [i \in 0 .. n - 1 |-> TP!Bit(y, i) * TP!ShiftRight(x, n, i)]
  BY SameOperators
<1> DEFINE f == [i \in 0 .. n - 1 |-> TP!Bit(x, i) * TP!Bit(y, i) * TP!pow3(i)]
           g == [i \in 0 .. n - 1 |-> TP!Bit(y, i) * TP!ShiftRight(x, n, i)]
<1>3. T!and_trs(x, y, n) = T!SumTo(f, n) /\ TP!and_trs(x, y, n) = TP!SumTo(f, n)
  BY <1>1, Zenon DEF T!and_trs, TP!and_trs
<1>4. /\ T!mul_trs(x, y, n) = (T!SumTo(g, n) - T!mod_3_n(T!SumTo(g, n), n)) \div T!pow3(n)
      /\ TP!mul_trs(x, y, n) = (TP!SumTo(g, n) - TP!mod_3_n(TP!SumTo(g, n), n)) \div TP!pow3(n)
  BY <1>2, Zenon DEF T!mul_trs, TP!mul_trs
<1> HIDE DEF f, g
<1> QED
  BY <1>3, <1>4, SameSums, SameOperators

(***************************************************************************)
(* Planes.                                                                 *)
(***************************************************************************)
Trit == -1 .. 1
TritsOf(t) == [i \in Nat |-> get_trit(t, i)]

LEMMA WidthOfWord == N \in 1 .. 18 /\ N \in TP!Widths /\ N \in Nat
  BY TritPlanesAssumption DEF TP!Widths

LEMMA GetTritType == ASSUME NEW t, NEW i PROVE get_trit(t, i) \in Trit
  BY DEF get_trit, Trit

LEMMA TritsAreDigits ==
    ASSUME NEW t, NEW n \in Nat PROVE TP!AreTrits(TritsOf(t), n)
  BY GetTritType DEF TP!AreTrits, TritsOf, Trit

(* The number of a word is that of its trits.                              *)
LEMMA ValueIsNumber == ASSUME NEW t PROVE Value(t) = TP!Number(TritsOf(t), N)
<1>1. TP!Number(TritsOf(t), N) = TP!SumTo(TP!Weighted(TritsOf(t), N), N)
  BY WidthOfWord DEF TP!Number
<1>2. \A i \in 0 .. N - 1 : get_trit(t, i) * T!pow3(i) = TritsOf(t)[i] * TP!pow3(i)
  BY SameOperators, WidthOfWord DEF TritsOf
<1>3. [i \in 0 .. N - 1 |-> get_trit(t, i) * T!pow3(i)] = TP!Weighted(TritsOf(t), N)
  BY <1>2 DEF TP!Weighted
<1> QED
  BY <1>1, <1>3, SameSums DEF Value

LEMMA FromTritsGet ==
    ASSUME NEW l, NEW trits, \A i \in DOMAIN trits : trits[i] \in Trit, NEW i
    PROVE  get_trit(FromTrits(l, trits), i) = IF i \in DOMAIN trits THEN trits[i] ELSE 0
  BY DEF get_trit, FromTrits, Trit

LEMMA SumOfTrits ==
    ASSUME NEW a \in Trit, NEW b \in Trit, NEW p \in Trit
    PROVE  /\ sum_t(a, b, p).s \in Trit /\ sum_t(a, b, p).p1 \in Trit
           /\ sum_t(a, b, p).s + 3 * sum_t(a, b, p).p1 = a + b + p
  BY DEF Trit, sum_t, SUM_T_S, SUM_T_P1

(* The loop of a sum: its trits, with the carries between them.            *)
Carries(c, x, y, sign, j) ==
    /\ c \in [0 .. j -> Trit] /\ c[0] = 0
    /\ \A i \in 0 .. j - 1 :
          get_trit(SumLoop(x, y, sign, j), i) + 3 * c[i + 1]
              = get_trit(x, i) + sign * get_trit(y, i) + c[i]

LEMMA SumLoopTrits ==
    ASSUME NEW x, NEW y, NEW sign \in {-1, 1}, NEW j \in Nat
    PROVE  /\ SumLoop(x, y, sign, j).l = j
           /\ SumLoop(x, y, sign, j).t1 \subseteq SumLoop(x, y, sign, j).t0
           /\ SumLoop(x, y, sign, j).t0 \subseteq 0 .. j - 1
           /\ SumLoop(x, y, sign, j) = [l |-> j, t1 |-> SumLoop(x, y, sign, j).t1,
                                                 t0 |-> SumLoop(x, y, sign, j).t0]
           /\ \E c : Carries(c, x, y, sign, j)
<1> DEFINE a(i) == get_trit(x, i)
           b(i) == sign * get_trit(y, i)
           step == [i \in 1 .. j |-> [v \in Trit |-> sum_t(a(i - 1), b(i - 1), v).p1]]
           E(f) == [i \in 0 .. j |-> IF i = 0 THEN 0
                                     ELSE sum_t(a(i - 1), b(i - 1), f[i - 1]).p1]
           carry == CHOOSE f : f = E(f)
           s == [i \in 0 .. j - 1 |-> sum_t(a(i), b(i), carry[i]).s]
<1>1. \A i : a(i) \in Trit /\ b(i) \in Trit
  BY GetTritType DEF Trit
<1>2. SumLoop(x, y, sign, j) = FromTrits(j, s)
  BY DEF SumLoop
<1> HIDE DEF a, b
<1>3. Solvable(0, j, Trit, 0, step)
  <2>1. \A i \in 1 .. j, v \in Trit : step[i][v] \in Trit
    BY <1>1, SumOfTrits
  <2>2. Steps(0, j, Trit, step)
    BY <2>1 DEF Steps
  <2>3. 0 \in Nat /\ 0 <= j /\ 0 \in Trit
    BY DEF Trit
  <2> HIDE DEF step
  <2> QED
    BY <2>2, <2>3, RecursionHasSolution
<1>4. PICK g \in [0 .. j -> Trit] : g[0] = 0 /\ \A i \in 0 + 1 .. j : g[i] = step[i][g[i - 1]]
  BY <1>3 DEF Solvable
<1>5. g = E(g)
  <2>1. ASSUME NEW i \in 1 .. j PROVE g[i] = sum_t(a(i - 1), b(i - 1), g[i - 1]).p1
    <3>1. i - 1 \in 0 .. j /\ i \in 0 + 1 .. j
      OBVIOUS
    <3> QED
      BY <1>4, <3>1
  <2>2. \A i \in 0 .. j : i # 0 => i \in 1 .. j
    OBVIOUS
  <2> HIDE DEF step
  <2> QED
    BY <1>4, <2>1, <2>2
<1>6. carry = E(carry)
  <2> HIDE DEF E
  <2> QED
    BY <1>5
<1> HIDE DEF carry, step
<1>7. /\ carry[0] = 0
      /\ \A i \in 0 .. j - 1 : carry[i + 1] = sum_t(a(i), b(i), carry[i]).p1
  <2>1. \A i \in 0 .. j - 1 : i + 1 \in 0 .. j /\ i + 1 # 0 /\ (i + 1) - 1 = i
    OBVIOUS
  <2>2. 0 \in 0 .. j
    OBVIOUS
  <2> QED
    BY <1>6, <2>1, <2>2
<1>8. \A i \in 0 .. j : carry[i] \in Trit
  <2> DEFINE S == {i \in 0 .. j : carry[i] \in Trit}
  <2>1. 0 \in S
    BY <1>7 DEF Trit
  <2>2. ASSUME NEW i \in 0 .. j - 1, i \in S PROVE i + 1 \in S
    BY <1>1, <1>7, <2>2, SumOfTrits
  <2> HIDE DEF S
  <2>3. 0 .. j \subseteq S
    BY <2>1, <2>2, Induction
  <2> QED
    BY <2>3 DEF S
<1>9. \A i \in 0 .. j - 1 : /\ s[i] \in Trit
                            /\ s[i] + 3 * carry[i + 1] = a(i) + b(i) + carry[i]
  BY <1>1, <1>7, <1>8, SumOfTrits
<1>10. DOMAIN s = 0 .. j - 1
  OBVIOUS
<1> HIDE DEF s
<1>11. \A i \in 0 .. j - 1 : get_trit(SumLoop(x, y, sign, j), i) = s[i]
  BY <1>2, <1>9, <1>10, FromTritsGet
<1>12. Carries(carry, x, y, sign, j)
  <2>1. carry \in [0 .. j -> Trit]
    BY <1>6, <1>8
  <2> QED
    BY <1>7, <1>9, <1>11, <2>1 DEF Carries, a, b
<1>13. \A i \in 0 .. j - 1 : s[i] > 0 => s[i] # 0
  BY <1>9 DEF Trit
<1> QED
  BY <1>2, <1>10, <1>12, <1>13 DEF FromTrits

(* Words of N trits.                                                       *)
LEMMA PlaneWordIs ==
    /\ \A A, B : A \subseteq B /\ B \subseteq 0 .. N - 1
            => [l |-> N, t1 |-> A, t0 |-> B] \in PlaneWord
    /\ \A t \in PlaneWord : /\ t.l = N /\ t.t1 \subseteq t.t0 /\ t.t0 \subseteq 0 .. N - 1
                            /\ t = [l |-> N, t1 |-> t.t1, t0 |-> t.t0]
<1>1. ASSUME NEW A, NEW B, A \subseteq B, B \subseteq 0 .. N - 1
      PROVE  [l |-> N, t1 |-> A, t0 |-> B] \in PlaneWord
  <2>1. [l |-> N, t1 |-> A, t0 |-> B] \in [l : {N}, t1 : SUBSET B, t0 : {B}]
    BY <1>1
  <2> QED
    BY <1>1, <2>1 DEF PlaneWord
<1>2. ASSUME NEW t \in PlaneWord
      PROVE  /\ t.l = N /\ t.t1 \subseteq t.t0 /\ t.t0 \subseteq 0 .. N - 1
             /\ t = [l |-> N, t1 |-> t.t1, t0 |-> t.t0]
  <2>1. PICK B \in SUBSET (0 .. N - 1) : t \in [l : {N}, t1 : SUBSET B, t0 : {B}]
    BY DEF PlaneWord
  <2> QED
    BY <2>1
<1> QED
  BY <1>1, <1>2

WithPlanes(t, C, D) == [t EXCEPT !.t1 = C, !.t0 = D]

LEMMA BothPlanes ==
    ASSUME NEW t, NEW l, NEW A, NEW B, NEW C, NEW D, t = [l |-> l, t1 |-> A, t0 |-> B]
    PROVE  WithPlanes(t, C, D) = [l |-> l, t1 |-> C, t0 |-> D]
<1> DEFINE u == [t EXCEPT !.t1 = C]
<1>1. u = [l |-> l, t1 |-> C, t0 |-> B]
  <2>1. [[l |-> l, t1 |-> A, t0 |-> B] EXCEPT !.t1 = C] = [l |-> l, t1 |-> C, t0 |-> B]
    OBVIOUS
  <2> QED
    BY <2>1
<1>2. WithPlanes(t, C, D) = [u EXCEPT !.t0 = D]
  BY DEF WithPlanes
<1> HIDE DEF u
<1>3. [[l |-> l, t1 |-> C, t0 |-> B] EXCEPT !.t0 = D] = [l |-> l, t1 |-> C, t0 |-> D]
  OBVIOUS
<1> QED
  BY <1>1, <1>2, <1>3

LEMMA MaskedIs ==
    ASSUME NEW l, NEW A, NEW B, NEW n
    PROVE  Masked([l |-> l, t1 |-> A, t0 |-> B], n)
             = [l |-> l, t1 |-> A \cap 0 .. n - 1, t0 |-> B \cap 0 .. n - 1]
<1> DEFINE t == [l |-> l, t1 |-> A, t0 |-> B]
<1>1. Masked(t, n) = WithPlanes(t, t.t1 \cap 0 .. n - 1, t.t0 \cap 0 .. n - 1)
  BY DEF Masked, WithPlanes
<1>2. t.t1 = A /\ t.t0 = B
  OBVIOUS
<1>0. t = [l |-> l, t1 |-> A, t0 |-> B]
  OBVIOUS
<1> HIDE DEF t
<1>3. WithPlanes(t, A \cap 0 .. n - 1, B \cap 0 .. n - 1)
        = [l |-> l, t1 |-> A \cap 0 .. n - 1, t0 |-> B \cap 0 .. n - 1]
  <2> DEFINE C == A \cap 0 .. n - 1
             D == B \cap 0 .. n - 1
  <2> HIDE DEF C, D
  <2>1. WithPlanes(t, C, D) = [l |-> l, t1 |-> C, t0 |-> D]
    BY <1>0, BothPlanes
  <2> QED
    BY <2>1 DEF C, D
<1>4. Masked(t, n) = [l |-> l, t1 |-> A \cap 0 .. n - 1, t0 |-> B \cap 0 .. n - 1]
  BY <1>1, <1>2, <1>3
<1> QED
  BY <1>4 DEF t

LEMMA MaskedWord ==
    ASSUME NEW t \in PlaneWord PROVE Masked(t, N) = t /\ t.l = N
<1>1. /\ t.l = N /\ t = [l |-> N, t1 |-> t.t1, t0 |-> t.t0]
      /\ t.t1 \cap 0 .. N - 1 = t.t1 /\ t.t0 \cap 0 .. N - 1 = t.t0
  BY PlaneWordIs
<1>2. Masked([l |-> N, t1 |-> t.t1, t0 |-> t.t0], N)
        = [l |-> N, t1 |-> t.t1 \cap 0 .. N - 1, t0 |-> t.t0 \cap 0 .. N - 1]
  BY MaskedIs
<1> QED
  BY <1>1, <1>2

(* A word is the word of its trits.                                        *)
LEMMA SameTrits ==
    ASSUME NEW s \in PlaneWord, NEW t \in PlaneWord,
           \A i \in 0 .. N - 1 : get_trit(s, i) = get_trit(t, i)
    PROVE  s = t
<1>1. s.t0 = t.t0
  <2>1. \A i \in 0 .. N - 1 : i \in s.t0 <=> i \in t.t0
    BY DEF get_trit
  <2>2. s.t0 \subseteq 0 .. N - 1 /\ t.t0 \subseteq 0 .. N - 1
    BY PlaneWordIs
  <2> QED
    BY <2>1, <2>2
<1>2. s.t1 = t.t1
  <2>1. \A i \in 0 .. N - 1 : i \in s.t0 => (i \in s.t1 <=> i \in t.t1)
    BY <1>1 DEF get_trit
  <2>2. s.t1 \subseteq s.t0 /\ t.t1 \subseteq s.t0 /\ s.t0 \subseteq 0 .. N - 1
    BY <1>1, PlaneWordIs
  <2> QED
    BY <2>1, <2>2
<1>3. /\ s = [l |-> N, t1 |-> s.t1, t0 |-> s.t0]
      /\ t = [l |-> N, t1 |-> t.t1, t0 |-> t.t0]
  BY PlaneWordIs
<1> QED
  BY <1>1, <1>2, <1>3

(***************************************************************************)
(* Sums.                                                                   *)
(***************************************************************************)
LEMMA SignedDigits ==
    ASSUME NEW y, NEW sign \in {-1, 1}, NEW n \in 0 .. 19
    PROVE  LET g == [i \in Nat |-> sign * get_trit(y, i)]
           IN  TP!AreTrits(g, n) /\ TP!Number(g, n) = sign * TP!Number(TritsOf(y), n)
<1> DEFINE f == TritsOf(y)  g == [i \in Nat |-> sign * get_trit(y, i)]
<1>1. TP!AreTrits(f, n) /\ TP!Number(f, n) \in Int
  BY TritsAreDigits, TP!NumberType
<1>2. CASE sign = 1
  <2>1. \A i \in 0 .. n - 1 : g[i] = f[i] /\ f[i] \in -1 .. 1
    BY <1>2, GetTritType DEF TritsOf, Trit
  <2> HIDE DEF f, g
  <2>2. TP!AreTrits(g, n) /\ TP!Number(g, n) = TP!Number(f, n)
    BY <1>1, <2>1, TP!NumberSame DEF TP!AreTrits
  <2> QED
    BY <1>1, <1>2, <2>2 DEF f, g
<1>3. CASE sign = -1
  <2>1. \A i \in 0 .. n - 1 : g[i] = - f[i]
    BY <1>3, GetTritType DEF TritsOf, Trit
  <2> HIDE DEF f, g
  <2>2. TP!AreTrits(g, n) /\ TP!Number(g, n) = - TP!Number(f, n)
    BY <1>1, <2>1, TP!NumberNegated
  <2> QED
    BY <1>1, <1>3, <2>2 DEF f, g
<1> QED
  BY <1>2, <1>3

LEMMA SumOfNumbers ==
    ASSUME NEW x, NEW y, NEW sign \in {-1, 1}, NEW n \in 0 .. 19, NEW j \in Nat, n <= j,
           NEW c, Carries(c, x, y, sign, j)
    PROVE  LET X == TP!Number(TritsOf(x), n)
               Y == TP!Number(TritsOf(y), n)
               S == TP!Number(TritsOf(SumLoop(x, y, sign, j)), n)
           IN  /\ X + sign * Y = S + c[n] * TP!pow3(n)
               /\ n \in TP!Widths => TP!mod_3_n(X + sign * Y, n) = S
<1> DEFINE f == TritsOf(x)
           g == [i \in Nat |-> sign * get_trit(y, i)]
           s == TritsOf(SumLoop(x, y, sign, j))
<1>1. TP!AreTrits(f, n) /\ TP!AreTrits(s, n)
  BY TritsAreDigits
<1>2. TP!AreTrits(g, n) /\ TP!Number(g, n) = sign * TP!Number(TritsOf(y), n)
  BY SignedDigits
<1>3. \A i \in 0 .. n - 1 : s[i] + 3 * c[i + 1] = f[i] + g[i] + c[i]
  BY DEF Carries, TritsOf
<1>4. \A i \in 0 .. n : c[i] \in -1 .. 1
  BY DEF Carries, Trit
<1>5. c[0] = 0
  BY DEF Carries
<1> HIDE DEF f, g, s
<1>6. /\ TP!Number(f, n) + TP!Number(g, n) = TP!Number(s, n) + c[n] * TP!pow3(n)
      /\ n \in TP!Widths => TP!mod_3_n(TP!Number(f, n) + TP!Number(g, n), n) = TP!Number(s, n)
  BY <1>1, <1>2, <1>3, <1>4, <1>5, TP!SumWithCarry
<1> QED
  BY <1>2, <1>6 DEF f, s

LEMMA SumLoopIsSum ==
    ASSUME NEW x, NEW y, NEW sign \in {-1, 1}
    PROVE  /\ SumLoop(x, y, sign, N) \in PlaneWord
           /\ Value(SumLoop(x, y, sign, N)) = TP!mod_3_n(Value(x) + sign * Value(y), N)
<1> DEFINE s == SumLoop(x, y, sign, N)
<1>1. PICK c : Carries(c, x, y, sign, N)
  BY WidthOfWord, SumLoopTrits
<1>2. s \in PlaneWord
  <2>1. s.t1 \subseteq s.t0 /\ s.t0 \subseteq 0 .. N - 1 /\ s = [l |-> N, t1 |-> s.t1, t0 |-> s.t0]
    BY WidthOfWord, SumLoopTrits
  <2> HIDE DEF s
  <2>2. [l |-> N, t1 |-> s.t1, t0 |-> s.t0] \in PlaneWord
    <3>1. s.t1 \subseteq s.t0 /\ s.t0 \subseteq 0 .. N - 1
      BY <2>1
    <3> QED
      BY <3>1, PlaneWordIs
  <2>3. s = [l |-> N, t1 |-> s.t1, t0 |-> s.t0]
    BY <2>1
  <2> QED
    BY <2>2, <2>3
<1>3. N \in 0 .. 19 /\ N <= N
  BY WidthOfWord
<1>4. TP!mod_3_n(TP!Number(TritsOf(x), N) + sign * TP!Number(TritsOf(y), N), N)
         = TP!Number(TritsOf(s), N)
  BY <1>1, <1>3, WidthOfWord, SumOfNumbers
<1> QED
  BY <1>2, <1>4, ValueIsNumber

LEMMA ValueType == ASSUME NEW t PROVE Value(t) \in Int
<1>1. N \in 0 .. 19 /\ TP!AreTrits(TritsOf(t), N)
  BY WidthOfWord, TritsAreDigits
<1> QED
  BY <1>1, TP!NumberType, ValueIsNumber

LEMMA AddFacts ==
    ASSUME NEW x \in PlaneWord, NEW y \in PlaneWord
    PROVE  /\ add_trs(x, y) \in PlaneWord /\ sub_trs(x, y) \in PlaneWord
           /\ Value(add_trs(x, y)) = T!add_trs(Value(x), Value(y), N)
           /\ Value(sub_trs(x, y)) = T!sub_trs(Value(x), Value(y), N)
<1>1. /\ Masked(x, x.l) = x /\ Masked(y, y.l) = y /\ Max2(x.l, y.l) = N
  BY MaskedWord DEF Max2
<1>2. add_trs(x, y) = SumLoop(x, y, 1, N)
  BY <1>1 DEF add_trs
<1>3. sub_trs(x, y) = SumLoop(x, y, -1, N)
  <2>1. SumLoop(x, y, -1, N) \in PlaneWord
    BY SumLoopIsSum
  <2> QED
    BY <1>1, <2>1, MaskedWord DEF sub_trs
<1>4. Value(x) \in Int /\ Value(y) \in Int
  BY ValueType
<1>5. 1 * Value(y) = Value(y) /\ Value(x) + (-1) * Value(y) = Value(x) - Value(y)
  BY <1>4
<1>6. /\ Value(SumLoop(x, y, 1, N)) = TP!mod_3_n(Value(x) + 1 * Value(y), N)
      /\ Value(SumLoop(x, y, -1, N)) = TP!mod_3_n(Value(x) + (-1) * Value(y), N)
      /\ SumLoop(x, y, 1, N) \in PlaneWord /\ SumLoop(x, y, -1, N) \in PlaneWord
  BY SumLoopIsSum
<1> QED
  BY <1>2, <1>3, <1>5, <1>6, SameOperators DEF TP!add_trs, TP!sub_trs

LEMMA OneTrit ==
    ASSUME NEW t, get_trit(t, 0) \in Trit, \A i \in 1 .. N - 1 : get_trit(t, i) = 0
    PROVE  Value(t) = get_trit(t, 0)
<1> DEFINE f == TritsOf(t)
<1>1. N \in 0 .. 19 /\ 1 \in 0 .. N /\ TP!AreTrits(f, N) /\ TP!AreTrits(f, 1)
  BY WidthOfWord, TritsAreDigits
<1>2. f[0] = get_trit(t, 0) /\ \A i \in 1 .. N - 1 : f[i] = 0
  BY DEF TritsOf
<1> HIDE DEF f
<1>3. TP!Number(f, N) = TP!Number(f, 1)
  BY <1>1, <1>2, TP!NumberOfLow
<1> QED
  BY <1>1, <1>2, <1>3, TP!NumberOfOne, ValueIsNumber DEF f

LEMMA IncFacts ==
    ASSUME NEW x \in PlaneWord
    PROVE  /\ inc_trs(x) \in PlaneWord /\ dec_trs(x) \in PlaneWord
           /\ Value(inc_trs(x)) = T!inc_trs(Value(x), N)
           /\ Value(dec_trs(x)) = T!dec_trs(Value(x), N)
<1> DEFINE one == [l |-> 1, t1 |-> {0}, t0 |-> {0}]
           minus == [l |-> 1, t1 |-> {}, t0 |-> {0}]
<1>1. /\ Masked(x, x.l) = x /\ Max2(x.l, 1) = N
      /\ Masked(one, one.l) = one /\ Masked(minus, minus.l) = minus /\ one.l = 1 /\ minus.l = 1
  <2>1. 0 .. 1 - 1 = {0} /\ {0} \cap {0} = {0} /\ {} \cap {0} = {}
    OBVIOUS
  <2>2. Masked(one, 1) = one /\ Masked(minus, 1) = minus
    BY <2>1, MaskedIs
  <2> QED
    BY <2>2, MaskedWord, WidthOfWord DEF Max2
<1>2. /\ get_trit(one, 0) = 1 /\ get_trit(minus, 0) = -1
      /\ \A i \in 1 .. N - 1 : get_trit(one, i) = 0 /\ get_trit(minus, i) = 0
  BY DEF get_trit
<1> HIDE DEF one, minus
<1>3. Value(one) = 1 /\ Value(minus) = -1
  BY <1>2, OneTrit DEF Trit
<1>4. inc_trs(x) = SumLoop(x, one, 1, N) /\ dec_trs(x) = SumLoop(x, minus, 1, N)
  BY <1>1 DEF inc_trs, dec_trs, add_trs, one, minus
<1>5. /\ inc_trs(x) \in PlaneWord /\ Value(inc_trs(x)) = TP!mod_3_n(Value(x) + 1 * 1, N)
      /\ dec_trs(x) \in PlaneWord /\ Value(dec_trs(x)) = TP!mod_3_n(Value(x) + 1 * (-1), N)
  BY <1>3, <1>4, SumLoopIsSum
<1>6. 1 * 1 = 1 /\ 1 * (-1) = -1
  OBVIOUS
<1> QED
  BY <1>5, <1>6, SameOperators DEF TP!inc_trs, TP!dec_trs, TP!add_trs
(***************************************************************************)
(* Shifts.                                                                 *)
(***************************************************************************)
(* No trit outside the word.                                               *)
Inside(t) == \A i \in Int : i \notin 0 .. N - 1 => get_trit(t, i) = 0

LEMMA WordIsInside == ASSUME NEW t \in PlaneWord PROVE Inside(t)
<1>1. t.t0 \subseteq 0 .. N - 1
  BY PlaneWordIs
<1> QED
  BY <1>1 DEF Inside, get_trit

LEMMA ValueOfZeros ==
    ASSUME NEW t, \A i \in 0 .. N - 1 : get_trit(t, i) = 0
    PROVE  Value(t) = 0
<1>1. \A i \in 0 .. N - 1 : TritsOf(t)[i] = 0
  BY DEF TritsOf
<1> QED
  BY <1>1, WidthOfWord, TP!NumberOfZeros, ValueIsNumber

LEMMA MovedUp ==
    ASSUME NEW t, Inside(t), NEW d \in Nat, NEW s,
           \A i \in 0 .. N - 1 : get_trit(s, i) = get_trit(t, i - d)
    PROVE  Value(s) = T!ShiftLeft(Value(t), N, d)
<1> DEFINE f == TritsOf(t)  g == TritsOf(s)
<1>1. N \in 0 .. 19 /\ N \in TP!Widths /\ TP!AreTrits(f, N) /\ TP!AreTrits(g, N)
  BY WidthOfWord, TritsAreDigits
<1>2. T!ShiftLeft(Value(t), N, d) = IF d < N THEN TP!Number(f, N - d) * TP!pow3(d) ELSE 0
  <2>1. T!ShiftLeft(Value(t), N, d) = TP!ShiftLeft(Value(t), N, d)
    BY SameOperators DEF T!ShiftLeft, TP!ShiftLeft
  <2> QED
    BY <1>1, <2>1, ValueIsNumber, TP!ShiftLeftNumber
<1>3. CASE d < N
  <2>1. d \in 0 .. N /\ N - d \in 0 .. 19
    BY <1>1, <1>3
  <2>2. ASSUME NEW i \in 0 .. d - 1 PROVE g[i] = 0
    <3>1. i \in 0 .. N - 1 /\ i - d \in Int /\ i - d \notin 0 .. N - 1 /\ i \in Nat
      BY <1>3, WidthOfWord
    <3> QED
      BY <3>1 DEF Inside, TritsOf
  <2>3. ASSUME NEW i \in 0 .. (N - d) - 1 PROVE TP!TritsFrom(g, d)[i] = f[i]
    <3>1. d + i \in 0 .. N - 1 /\ (d + i) - d = i /\ i \in Nat /\ d + i \in Nat
      BY <1>3, WidthOfWord
    <3> QED
      BY <3>1 DEF TritsOf, TP!TritsFrom
  <2> HIDE DEF f, g
  <2>4. TP!Number(g, N) = TP!Number(TP!TritsFrom(g, d), N - d) * TP!pow3(d)
    BY <1>1, <2>1, <2>2, TP!NumberOfHigh
  <2>5. TP!Number(TP!TritsFrom(g, d), N - d) = TP!Number(f, N - d)
    BY <2>1, <2>3, TP!NumberSame
  <2> QED
    BY <1>2, <1>3, <2>4, <2>5, ValueIsNumber DEF g
<1>4. CASE ~(d < N)
  <2>1. ASSUME NEW i \in 0 .. N - 1 PROVE get_trit(s, i) = 0
    <3>1. i - d \in Int /\ i - d \notin 0 .. N - 1
      BY <1>4, WidthOfWord
    <3> QED
      BY <3>1 DEF Inside
  <2> QED
    BY <1>2, <1>4, <2>1, ValueOfZeros
<1> QED
  BY <1>3, <1>4

LEMMA MovedDown ==
    ASSUME NEW t, Inside(t), NEW d \in Nat, NEW s,
           \A i \in 0 .. N - 1 : get_trit(s, i) = get_trit(t, i + d)
    PROVE  Value(s) = T!ShiftRight(Value(t), N, d)
<1> DEFINE f == TritsOf(t)  g == TritsOf(s)
<1>1. N \in 0 .. 19 /\ N \in TP!Widths /\ TP!AreTrits(f, N) /\ TP!AreTrits(g, N)
  BY WidthOfWord, TritsAreDigits
<1>2. T!ShiftRight(Value(t), N, d) = IF d < N THEN TP!Number(TP!TritsFrom(f, d), N - d) ELSE 0
  BY <1>1, SameOperators, ValueIsNumber, TP!ShiftRightNumber
<1>3. CASE d < N
  <2>1. N - d \in 0 .. N /\ N - d \in 0 .. 19
    BY <1>1, <1>3
  <2>2. ASSUME NEW i \in N - d .. N - 1 PROVE g[i] = 0
    <3>1. i \in 0 .. N - 1 /\ i + d \in Int /\ i + d \notin 0 .. N - 1 /\ i \in Nat
      BY <1>3, WidthOfWord
    <3> QED
      BY <3>1 DEF Inside, TritsOf
  <2>3. ASSUME NEW i \in 0 .. (N - d) - 1 PROVE g[i] = TP!TritsFrom(f, d)[i]
    <3>1. i \in 0 .. N - 1 /\ i + d = d + i /\ i \in Nat /\ d + i \in Nat
      BY <1>3, WidthOfWord
    <3> QED
      BY <3>1 DEF TritsOf, TP!TritsFrom
  <2> HIDE DEF f, g
  <2>4. TP!Number(g, N) = TP!Number(g, N - d)
    BY <1>1, <2>1, <2>2, TP!NumberOfLow
  <2>5. TP!Number(g, N - d) = TP!Number(TP!TritsFrom(f, d), N - d)
    BY <2>1, <2>3, TP!NumberSame
  <2> QED
    BY <1>2, <1>3, <2>4, <2>5, ValueIsNumber DEF g
<1>4. CASE ~(d < N)
  <2>1. ASSUME NEW i \in 0 .. N - 1 PROVE get_trit(s, i) = 0
    <3>1. i + d \in Int /\ i + d \notin 0 .. N - 1
      BY <1>4, WidthOfWord
    <3> QED
      BY <3>1 DEF Inside
  <2> QED
    BY <1>2, <1>4, <2>1, ValueOfZeros
<1> QED
  BY <1>3, <1>4

(* Planes moved by d places in w bits and masked to n.                     *)
Planes(t, d, w, n, l) == [l |-> l, t1 |-> Moved(t.t1, d, w) \cap 0 .. n - 1,
                                   t0 |-> Moved(t.t0, d, w) \cap 0 .. n - 1]

LEMMA MovedPlanes ==
    ASSUME NEW t, t.t1 \subseteq t.t0, NEW d \in Int, NEW w \in Nat, w >= N, NEW n \in 0 .. N, NEW l
    PROVE  /\ l = N => Planes(t, d, w, n, l) \in PlaneWord
           /\ Inside(Planes(t, d, w, n, l))
           /\ Planes(t, d, w, n, l).t1 \subseteq Planes(t, d, w, n, l).t0
           /\ Planes(t, d, w, n, l).t0 \subseteq 0 .. n - 1
           /\ \A i \in 0 .. N - 1 : get_trit(Planes(t, d, w, n, l), i)
                                      = IF i < n THEN get_trit(t, i - d) ELSE 0
<1> DEFINE s == Planes(t, d, w, n, l)
           A == Moved(t.t1, d, w) \cap 0 .. n - 1
           B == Moved(t.t0, d, w) \cap 0 .. n - 1
<1>1. \A i \in 0 .. n - 1 : i \in 0 .. w - 1
  BY WidthOfWord
<1>2. s = [l |-> l, t1 |-> A, t0 |-> B] /\ s.t1 = A /\ s.t0 = B
  BY DEF Planes
<1>3. /\ \A i : i \in A <=> i \in 0 .. n - 1 /\ i - d \in t.t1
      /\ \A i : i \in B <=> i \in 0 .. n - 1 /\ i - d \in t.t0
  BY <1>1 DEF Moved
<1>4. \A i \in 0 .. N - 1 : i < n <=> i \in 0 .. n - 1
  BY WidthOfWord
<1>5. 0 .. n - 1 \subseteq 0 .. N - 1
  BY WidthOfWord
<1> HIDE DEF A, B, s
<1>6. A \subseteq B /\ B \subseteq 0 .. n - 1 /\ B \subseteq 0 .. N - 1
  BY <1>3, <1>5
<1>7. [l |-> N, t1 |-> A, t0 |-> B] \in PlaneWord
  BY <1>6, PlaneWordIs
<1>8. /\ Inside(s)
      /\ \A i \in 0 .. N - 1 : get_trit(s, i) = IF i < n THEN get_trit(t, i - d) ELSE 0
  BY <1>2, <1>3, <1>4, <1>5 DEF get_trit, Inside
<1> QED
  BY <1>2, <1>6, <1>7, <1>8 DEF s

LEMMA PlanesOfWord ==
    ASSUME NEW t \in PlaneWord, NEW C, NEW D
    PROVE  WithPlanes(t, C, D) = [l |-> N, t1 |-> C, t0 |-> D]
<1>1. t = [l |-> N, t1 |-> t.t1, t0 |-> t.t0]
  BY PlaneWordIs
<1> QED
  BY <1>1, BothPlanes

LEMMA ShiftFacts ==
    ASSUME NEW x \in PlaneWord, NEW d \in Int
    PROVE  /\ mod_3_n(shift_trs(x, d), N) \in PlaneWord
           /\ Value(mod_3_n(shift_trs(x, d), N)) = T!shift_trs(Value(x), N, d)
<1> DEFINE up == d % SIZE_TRITS_MAX
           down == (-d) % SIZE_TRITS_MAX
           places == IF d >= 0 THEN up ELSE - down
           C == Moved(x.t1, places, SIZE_TRITS_MAX)
           D == Moved(x.t0, places, SIZE_TRITS_MAX)
           s == mod_3_n(shift_trs(x, d), N)
<1>1. up \in Nat /\ down \in Nat /\ places \in Int
  BY DEF SIZE_TRITS_MAX
<1>2. shift_trs(x, d) = WithPlanes(x, C, D)
  BY DEF shift_trs, WithPlanes
<1>3. N % SIZE_TRITS_MAX = N /\ SIZE_TRITS_MAX \in Nat /\ SIZE_TRITS_MAX >= N
  BY WidthOfWord DEF SIZE_TRITS_MAX
<1> HIDE DEF up, down, places
<1>4. s = Planes(x, places, SIZE_TRITS_MAX, N, N)
  <2>0. Planes(x, places, SIZE_TRITS_MAX, N, N)
           = [l |-> N, t1 |-> C \cap 0 .. N - 1, t0 |-> D \cap 0 .. N - 1]
    BY DEF Planes
  <2> HIDE DEF C, D
  <2>1. shift_trs(x, d) = [l |-> N, t1 |-> C, t0 |-> D]
    BY <1>2, PlanesOfWord
  <2> QED
    BY <1>3, <2>0, <2>1, MaskedIs DEF mod_3_n
<1>5. x.t1 \subseteq x.t0 /\ N \in 0 .. N
  <2>1. x.t1 \subseteq x.t0
    BY PlaneWordIs
  <2> QED
    BY <2>1, WidthOfWord
<1> HIDE DEF s
<1>6. /\ s \in PlaneWord
      /\ \A i \in 0 .. N - 1 : get_trit(s, i) = IF i < N THEN get_trit(x, i - places) ELSE 0
  BY <1>1, <1>3, <1>4, <1>5, MovedPlanes
<1>8. Inside(x)
  BY WordIsInside
<1>9. Value(s) = T!shift_trs(Value(x), N, d)
  <2>1. CASE d >= 0
    <3>1. \A i \in 0 .. N - 1 : get_trit(s, i) = get_trit(x, i - up)
      BY <1>6, <2>1, WidthOfWord DEF places
    <3>2. Value(s) = T!ShiftLeft(Value(x), N, up)
      BY <1>1, <1>8, <3>1, MovedUp
    <3> QED
      BY <2>1, <3>2 DEF T!shift_trs, T!TRS_WIDTH, up, SIZE_TRITS_MAX
  <2>2. CASE ~(d >= 0)
    <3>1. \A i \in 0 .. N - 1 : get_trit(s, i) = get_trit(x, i + down)
      <4>1. \A i \in 0 .. N - 1 : i - places = i + down /\ i < N
        BY <1>1, <2>2, WidthOfWord DEF places
      <4> QED
        BY <1>6, <4>1
    <3>2. Value(s) = T!ShiftRight(Value(x), N, down)
      BY <1>1, <1>8, <3>1, MovedDown
    <3> QED
      BY <2>2, <3>2 DEF T!shift_trs, T!TRS_WIDTH, down, SIZE_TRITS_MAX
  <2> QED
    BY <2>1, <2>2
<1> QED
  BY <1>6, <1>9 DEF s
(***************************************************************************)
(* Trits, signs, slices and copies.                                        *)
(***************************************************************************)
LEMMA AndFacts ==
    ASSUME NEW x \in PlaneWord, NEW y \in PlaneWord
    PROVE  /\ and_trs(x, y) \in PlaneWord
           /\ \A i \in 0 .. N - 1 : get_trit(and_trs(x, y), i) = get_trit(x, i) * get_trit(y, i)
           /\ Value(and_trs(x, y)) = T!and_trs(Value(x), Value(y), N)
<1> DEFINE f == [i \in 0 .. N - 1 |-> get_trit(x, i) * get_trit(y, i)]
           g == [i \in 0 .. N - 1 |-> TP!Bit(Value(x), i) * TP!Bit(Value(y), i) * TP!pow3(i)]
<1>1. Max2(x.l, y.l) = N /\ Min2(x.l, y.l) = N
  BY MaskedWord DEF Max2, Min2
<1>2. and_trs(x, y) = FromTrits(N, f)
  BY <1>1 DEF and_trs
<1>3. \A i \in 0 .. N - 1 : f[i] \in Trit /\ f[i] = get_trit(x, i) * get_trit(y, i)
  <2> TAKE i \in 0 .. N - 1
  <2>1. get_trit(x, i) \in -1 .. 1 /\ get_trit(y, i) \in -1 .. 1
    BY GetTritType DEF Trit
  <2>2. get_trit(x, i) * get_trit(y, i) \in -1 .. 1
    BY <2>1
  <2> QED
    BY <2>2 DEF Trit
<1>4. DOMAIN f = 0 .. N - 1
  OBVIOUS
<1> HIDE DEF f
<1>5. \A i \in 0 .. N - 1 : get_trit(and_trs(x, y), i) = f[i]
  BY <1>2, <1>3, <1>4, FromTritsGet
<1>6. and_trs(x, y) \in PlaneWord
  <2> DEFINE A == {i \in DOMAIN f : f[i] > 0}  B == {i \in DOMAIN f : f[i] # 0}
  <2>1. A \subseteq B /\ B \subseteq 0 .. N - 1
    BY <1>3, <1>4 DEF Trit
  <2>2. FromTrits(N, f) = [l |-> N, t1 |-> A, t0 |-> B]
    BY DEF FromTrits
  <2> HIDE DEF A, B
  <2>3. [l |-> N, t1 |-> A, t0 |-> B] \in PlaneWord
    BY <2>1, PlaneWordIs
  <2> QED
    BY <1>2, <2>2, <2>3
<1>7. ASSUME NEW i \in 0 .. N - 1
      PROVE  TP!Bit(Value(x), i) = get_trit(x, i) /\ TP!Bit(Value(y), i) = get_trit(y, i)
  <2>1. N \in 0 .. 19 /\ TP!AreTrits(TritsOf(x), N) /\ TP!AreTrits(TritsOf(y), N)
    BY WidthOfWord, TritsAreDigits
  <2>2. /\ TP!Bit(TP!Number(TritsOf(x), N), i) = TritsOf(x)[i]
        /\ TP!Bit(TP!Number(TritsOf(y), N), i) = TritsOf(y)[i]
    BY <2>1, TP!NumberBit
  <2>3. i \in Nat
    BY WidthOfWord
  <2> QED
    BY <2>2, <2>3, ValueIsNumber DEF TritsOf
<1>8. T!and_trs(Value(x), Value(y), N) = TP!SumTo(g, N)
  BY SameProducts DEF TP!and_trs
<1>9. g = TP!Weighted(TritsOf(and_trs(x, y)), N)
  <2>1. \A i \in 0 .. N - 1 : i \in Nat
    BY WidthOfWord
  <2>2. \A i \in 0 .. N - 1 : TP!Bit(Value(x), i) * TP!Bit(Value(y), i) = TritsOf(and_trs(x, y))[i]
    BY <1>3, <1>5, <1>7, <2>1 DEF TritsOf
  <2> QED
    BY <2>2 DEF TP!Weighted
<1> HIDE DEF g
<1>10. Value(and_trs(x, y)) = TP!SumTo(g, N)
  BY <1>9, ValueIsNumber, WidthOfWord DEF TP!Number
<1> QED
  BY <1>3, <1>5, <1>6, <1>8, <1>10

LEMMA TritFacts ==
    ASSUME NEW x \in PlaneWord, NEW p \in 0 .. N + 1
    PROVE  /\ get_trit_setun(x, p) \in Trit
           /\ get_trit_setun(x, p) = IF p \in 1 .. N THEN get_trit(x, N - p) ELSE 0
           /\ get_trit_setun(x, p) = T!get_trit_setun(Value(x), N, p)
<1>1. x.l = N /\ N \in 1 .. 18
  BY MaskedWord, WidthOfWord
<1>2. p \in 1 .. N <=> ~(p = 0 \/ p > x.l \/ x.l > N)
  BY <1>1
<1>3. get_trit_setun(x, p) = IF p \in 1 .. N THEN get_trit(x, N - p) ELSE 0
  BY <1>1, <1>2 DEF get_trit_setun
<1>4. TP!AreTrits(TritsOf(x), N) /\ p \in Int
  BY WidthOfWord, TritsAreDigits
<1>5. TP!get_trit_setun(Value(x), N, p) = IF p \in 1 .. N THEN TritsOf(x)[N - p] ELSE 0
  BY <1>4, WidthOfWord, ValueIsNumber, TP!TritNumber
<1>6. p \in 1 .. N => TritsOf(x)[N - p] = get_trit(x, N - p)
  BY <1>1 DEF TritsOf
<1> QED
  BY <1>3, <1>5, <1>6, SameOperators, GetTritType DEF Trit

(* The sign of a word whose first trit, from the left, that is not zero is *)
(* trit top.                                                               *)
LEMMA SignOfTop ==
    ASSUME NEW x, NEW top \in 0 .. N - 1, get_trit(x, top) # 0,
           \A i \in top + 1 .. N - 1 : get_trit(x, i) = 0
    PROVE  T!sgn_trs(Value(x)) = get_trit(x, top)
<1> DEFINE f == TritsOf(x)
<1>1. N \in 0 .. 19 /\ TP!AreTrits(f, N)
  BY WidthOfWord, TritsAreDigits
<1>2. f[top] = get_trit(x, top) /\ \A i \in top + 1 .. N - 1 : f[i] = 0
  BY WidthOfWord DEF TritsOf
<1> HIDE DEF f
<1>3. TP!sgn_trs(TP!Number(f, N)) = f[top]
  BY <1>1, <1>2, TP!SignNumber
<1> QED
  BY <1>2, <1>3, ValueIsNumber, SameOperators DEF f

LEMMA SignOfZero ==
    ASSUME NEW x, \A i \in 0 .. N - 1 : get_trit(x, i) = 0
    PROVE  T!sgn_trs(Value(x)) = 0
  BY ValueOfZeros DEF T!sgn_trs

LEMMA GreatestElement ==
    ASSUME NEW n \in Nat, NEW S, S \subseteq 0 .. n - 1, S # {}
    PROVE  \E i \in S : \A k \in S : k <= i
<1> DEFINE R == {n - i : i \in S}
<1>0. \A i \in S : i \in 0 .. n - 1
  OBVIOUS
<1>1. R \in SUBSET Nat /\ R # {}
  <2>1. \A i \in S : n - i \in Nat
    BY <1>0
  <2> QED
    BY <2>1
<1>2. PICK r \in R : \A q \in R : r <= q
  BY <1>1, LeastElement
<1>3. PICK i \in S : r = n - i
  BY <1>2
<1>4. \A k \in S : n - i <= n - k
  BY <1>2, <1>3
<1>5. \A k \in S : k <= i
  BY <1>0, <1>4
<1> QED
  BY <1>5

(* The sign of every length that is in a word; nothing of the word but its *)
(* trits matters.                                                          *)
LEMMA SignFacts ==
    ASSUME NEW x, x.l \in 0 .. N, x.t0 \subseteq Nat, \A i \in x.l .. N - 1 : get_trit(x, i) = 0
    PROVE  sgn_trs(x) = T!sgn_trs(Value(x)) /\ sgn_trs(x) \in Trit
<1> DEFINE S == x.t0 \cap 0 .. x.l - 1
<1>0. N \in Nat
  BY WidthOfWord
<1>1. CASE S = {}
  <2>1. \A i \in 0 .. N - 1 : get_trit(x, i) = 0
    <3> TAKE i \in 0 .. N - 1
    <3>1. CASE i \in x.l .. N - 1
      BY <3>1
    <3>2. CASE i \in 0 .. x.l - 1
      BY <1>1, <3>2 DEF get_trit
    <3> QED
      BY <1>0, <3>1, <3>2
  <2> QED
    BY <1>1, <2>1, SignOfZero DEF sgn_trs, Trit
<1>2. CASE S # {}
  <2> DEFINE Top(i) == i < x.l /\ \A k \in x.t0 : k < x.l => k <= i
             top == CHOOSE i \in x.t0 : Top(i)
  <2>1. sgn_trs(x) = get_trit(x, top)
    BY <1>2 DEF sgn_trs
  <2>2. \A k \in x.t0 : k < x.l <=> k \in S
    BY <1>0
  <2>3. \E i \in x.t0 : Top(i)
    <3>1. PICK i \in S : \A k \in S : k <= i
      <4>1. S \subseteq 0 .. x.l - 1 /\ x.l \in Nat
        BY <1>0
      <4> HIDE DEF S
      <4> QED
        BY <1>2, <4>1, GreatestElement
    <3> QED
      BY <2>2, <3>1
  <2>4. top \in x.t0 /\ Top(top)
    <3> HIDE DEF Top
    <3> QED
      BY <2>3
  <2> HIDE DEF top
  <2>5. top \in 0 .. N - 1 /\ get_trit(x, top) # 0
    BY <1>0, <2>4 DEF get_trit
  <2>6. ASSUME NEW i \in top + 1 .. N - 1 PROVE get_trit(x, i) = 0
    <3>1. CASE i \in x.l .. N - 1
      BY <3>1
    <3>2. CASE i < x.l
      <4>1. i \notin x.t0
        BY <2>4, <2>5, <3>2
      <4> QED
        BY <4>1 DEF get_trit
    <3> QED
      BY <1>0, <2>5, <3>1, <3>2
  <2> QED
    BY <2>1, <2>5, <2>6, SignOfTop, GetTritType
<1> QED
  BY <1>1, <1>2
LEMMA CmpFacts ==
    ASSUME NEW x \in PlaneWord, NEW y \in PlaneWord
    PROVE  cmp_trs(x, y) = T!cmp_trs(Value(x), Value(y), N) /\ cmp_trs(x, y) \in Trit
<1> DEFINE r == sub_trs(x, y)
           S == {i \in 1 .. r.l : get_trit_setun(r, i) # 0}
<1>1. r \in PlaneWord /\ r.l = N /\ Value(r) = TP!sub_trs(Value(x), Value(y), N)
  BY AddFacts, MaskedWord, SameOperators
<1>2. T!cmp_trs(Value(x), Value(y), N) = T!sgn_trs(Value(r))
  BY <1>1, SameOperators DEF TP!cmp_trs
<1>3. cmp_trs(x, y) = IF S = {} THEN 0
                      ELSE get_trit_setun(r, CHOOSE i \in S : \A k \in S : i <= k)
  BY DEF cmp_trs
<1> HIDE DEF r
<1>4. \A i \in 1 .. N : get_trit_setun(r, i) = get_trit(r, N - i)
  BY <1>1, TritFacts, WidthOfWord
<1>5. CASE S = {}
  <2>1. \A i \in 0 .. N - 1 : get_trit(r, i) = 0
    <3> TAKE i \in 0 .. N - 1
    <3>1. N - i \in 1 .. N /\ N - (N - i) = i
      BY WidthOfWord
    <3> QED
      BY <1>1, <1>4, <1>5, <3>1
  <2> QED
    BY <1>2, <1>3, <1>5, <2>1, SignOfZero DEF Trit
<1>6. CASE S # {}
  <2> DEFINE first == CHOOSE i \in S : \A k \in S : i <= k
  <2>1. S \in SUBSET Nat
    BY <1>1, WidthOfWord
  <2>2. first \in S /\ \A k \in S : first <= k
    <3>1. \E i \in S : \A k \in S : i <= k
      <4> HIDE DEF S
      <4> QED
        BY <1>6, <2>1, LeastElement
    <3> HIDE DEF S
    <3> QED
      BY <3>1
  <2>3. cmp_trs(x, y) = get_trit_setun(r, first)
    BY <1>3, <1>6
  <2> HIDE DEF first
  <2>4. first \in 1 .. N /\ get_trit_setun(r, first) # 0
    BY <1>1, <2>2
  <2>5. N - first \in 0 .. N - 1 /\ get_trit(r, N - first) # 0
    BY <1>4, <2>4, WidthOfWord
  <2>6. ASSUME NEW i \in (N - first) + 1 .. N - 1 PROVE get_trit(r, i) = 0
    <3>1. N - i \in 1 .. N /\ N - (N - i) = i /\ ~(first <= N - i)
      BY <2>4, WidthOfWord
    <3>2. N - i \notin S
      BY <2>2, <3>1
    <3> QED
      BY <1>1, <1>4, <3>1, <3>2
  <2> QED
    BY <1>2, <1>4, <2>3, <2>4, <2>5, <2>6, SignOfTop, GetTritType
<1> QED
  BY <1>5, <1>6

(* A slice, in a register of N trits.                                      *)
LEMMA RecordOf ==
    ASSUME NEW l, NEW A, NEW B, NEW n
    PROVE  [[l |-> l, t1 |-> A, t0 |-> B] EXCEPT !.l = n] = [l |-> n, t1 |-> A, t0 |-> B]
  OBVIOUS

LEMMA SamePlanes ==
    ASSUME NEW s, NEW t, s.t1 = t.t1, s.t0 = t.t0
    PROVE  Value(s) = Value(t)
  BY DEF Value, get_trit

LEMMA SliceFacts ==
    ASSUME NEW x \in PlaneWord, NEW p1 \in 0 .. N + 1, NEW p2 \in 0 .. N + 1
    PROVE  /\ [slice_trs_setun(x, p1, p2) EXCEPT !.l = N] \in PlaneWord
           /\ Value(slice_trs_setun(x, p1, p2)) = T!slice_trs_setun(Value(x), N, p1, p2)
<1>1. x = [l |-> N, t1 |-> x.t1, t0 |-> x.t0] /\ x.l = N /\ x.t1 \subseteq x.t0 /\ N # 0
  <2>1. x = [l |-> N, t1 |-> x.t1, t0 |-> x.t0] /\ x.l = N /\ x.t1 \subseteq x.t0
    BY PlaneWordIs
  <2> QED
    BY <2>1, WidthOfWord
<1>2. CASE p1 > p2 \/ p1 < 1 \/ p2 > N
  <2>1. slice_trs_setun(x, p1, p2) = x
    BY <1>1, <1>2 DEF slice_trs_setun
  <2>2. [x EXCEPT !.l = N] = x
    BY <1>1, RecordOf
  <2>3. T!slice_trs_setun(Value(x), N, p1, p2) = Value(x)
    BY <1>2 DEF T!slice_trs_setun
  <2> QED
    BY <2>1, <2>2, <2>3
<1>3. CASE ~(p1 > p2 \/ p1 < 1 \/ p2 > N)
  <2> DEFINE n == p2 - p1 + 1
             C == Moved(x.t1, p2 - x.l, SIZE_TRITS_MAX)
             D == Moved(x.t0, p2 - x.l, SIZE_TRITS_MAX)
             A == C \cap 0 .. n - 1
             B == D \cap 0 .. n - 1
             s == Planes(x, p2 - N, SIZE_TRITS_MAX, n, N)
  <2>1. /\ p1 \in 1 .. N /\ p2 \in p1 .. N /\ n \in 0 .. N /\ n \in 0 .. 19 /\ N - p2 \in Nat
        /\ p2 - N \in Int /\ SIZE_TRITS_MAX \in Nat /\ SIZE_TRITS_MAX >= N
    BY <1>3, WidthOfWord DEF SIZE_TRITS_MAX
  <2>2. slice_trs_setun(x, p1, p2) = [Masked(WithPlanes(x, C, D), n) EXCEPT !.l = n]
    BY <1>1, <1>3 DEF slice_trs_setun, WithPlanes
  <2>3. s = [l |-> N, t1 |-> A, t0 |-> B]
    BY <1>1 DEF Planes
  <2>4. s \in PlaneWord
        /\ \A i \in 0 .. N - 1 : get_trit(s, i) = IF i < n THEN get_trit(x, i - (p2 - N)) ELSE 0
    <3> HIDE DEF n
    <3> QED
      BY <1>1, <2>1, MovedPlanes
  <2>5. slice_trs_setun(x, p1, p2) = [l |-> n, t1 |-> A, t0 |-> B]
    <3> HIDE DEF C, D, n
    <3>1. WithPlanes(x, C, D) = [l |-> N, t1 |-> C, t0 |-> D]
      BY PlanesOfWord
    <3>2. Masked(WithPlanes(x, C, D), n) = [l |-> N, t1 |-> A, t0 |-> B]
      BY <3>1, MaskedIs
    <3> HIDE DEF A, B
    <3> QED
      BY <2>2, <3>2, RecordOf
  <2> HIDE DEF A, B, s, C, D
  <2>6. [slice_trs_setun(x, p1, p2) EXCEPT !.l = N] = s
    <3> HIDE DEF n
    <3> QED
      BY <2>3, <2>5, RecordOf
  <2>7. Value(slice_trs_setun(x, p1, p2)) = Value(s)
    <3> HIDE DEF n
    <3> QED
      BY <2>3, <2>5, SamePlanes
  <2>8. Value(s) = TP!Number(TP!TritsFrom(TritsOf(x), N - p2), n)
    <3> DEFINE f == TritsOf(s)  g == TP!TritsFrom(TritsOf(x), N - p2)
    <3>1. \A i \in n .. N - 1 : f[i] = 0
      BY <2>1, <2>4, WidthOfWord DEF TritsOf
    <3>2. \A i \in 0 .. n - 1 : f[i] = g[i]
      <4> TAKE i \in 0 .. n - 1
      <4>1. i \in 0 .. N - 1 /\ i < n /\ i - (p2 - N) = (N - p2) + i /\ i \in Nat /\ (N - p2) + i \in Nat
        BY <2>1, WidthOfWord
      <4> QED
        BY <2>4, <4>1 DEF TritsOf, TP!TritsFrom
    <3>3. N \in 0 .. 19 /\ TP!AreTrits(f, N)
      BY WidthOfWord, TritsAreDigits
    <3> HIDE DEF f, g, n
    <3>4. TP!Number(f, N) = TP!Number(f, n)
      BY <2>1, <3>1, <3>3, TP!NumberOfLow
    <3>5. TP!Number(f, n) = TP!Number(g, n)
      BY <2>1, <3>2, TP!NumberSame
    <3> QED
      BY <3>4, <3>5, ValueIsNumber DEF f, g
  <2>9. TP!slice_trs_setun(Value(x), N, p1, p2) = TP!Number(TP!TritsFrom(TritsOf(x), N - p2), n)
    BY <2>1, WidthOfWord, TritsAreDigits, ValueIsNumber, TP!SliceNumber
  <2> QED
    BY <2>4, <2>6, <2>7, <2>8, <2>9, SameOperators
<1> QED
  BY <1>2, <1>3

(* A word copied to a register of n trits and back.                        *)
LEMMA CopyFacts ==
    ASSUME NEW x \in PlaneWord, NEW n \in 1 .. N
    PROVE  /\ copy_trs_setun(copy_trs_setun(x, n), N) \in PlaneWord
           /\ Value(copy_trs_setun(copy_trs_setun(x, n), N))
                 = T!copy_trs_setun(T!copy_trs_setun(Value(x), N, n), n, N)
<1> DEFINE u == copy_trs_setun(x, n)
           w == copy_trs_setun(u, N)
           d == N - n
           W == SIZE_TRITS_MAX
<1>1. /\ d \in Nat /\ n \in 0 .. N /\ N \in 0 .. N /\ W \in Nat /\ W >= N
      /\ n - N = - d /\ - d \in Int /\ d \in Int
  BY WidthOfWord DEF SIZE_TRITS_MAX
<1>2. x.l = N /\ x.t1 \subseteq x.t0 /\ x.t0 \subseteq 0 .. N - 1
  BY PlaneWordIs
<1>3. /\ Moved(x.t1, n - N, W) \subseteq 0 .. n - 1
      /\ Moved(x.t0, n - N, W) \subseteq 0 .. n - 1
  <2>1. \A i \in 0 .. W - 1 : i - (n - N) \in 0 .. N - 1 => i \in 0 .. n - 1
    BY <1>1
  <2> QED
    BY <1>2, <2>1 DEF Moved
<1>4. u = Planes(x, n - N, W, n, n)
  BY <1>2, <1>3 DEF copy_trs_setun, Planes
<1> HIDE DEF u, W
<1>5. /\ Inside(u) /\ u.t1 \subseteq u.t0 /\ u.t0 \subseteq 0 .. n - 1
      /\ \A i \in 0 .. N - 1 : get_trit(u, i) = IF i < n THEN get_trit(x, i - (n - N)) ELSE 0
  BY <1>1, <1>2, <1>4, MovedPlanes
<1>6. u.l = n
  BY <1>4 DEF Planes
<1>7. /\ Moved(u.t1, N - n, W) \subseteq 0 .. N - 1
      /\ Moved(u.t0, N - n, W) \subseteq 0 .. N - 1
  <2>1. \A i \in 0 .. W - 1 : i - (N - n) \in 0 .. n - 1 => i \in 0 .. N - 1
    BY <1>1
  <2> QED
    BY <1>5, <2>1 DEF Moved
<1>8. w = Planes(u, N - n, W, N, N)
  BY <1>6, <1>7 DEF copy_trs_setun, Planes, W
<1> HIDE DEF w
<1>9. /\ w \in PlaneWord
      /\ \A i \in 0 .. N - 1 : get_trit(w, i) = IF i < N THEN get_trit(u, i - (N - n)) ELSE 0
  BY <1>1, <1>5, <1>8, MovedPlanes
<1>10. Value(u) = T!ShiftRight(Value(x), N, d)
  <2>1. Inside(x)
    BY WordIsInside
  <2>2. ASSUME NEW i \in 0 .. N - 1 PROVE get_trit(u, i) = get_trit(x, i + d)
    <3>1. CASE i < n
      <4>1. i - (n - N) = i + d
        BY <1>1
      <4> QED
        BY <1>5, <3>1, <4>1
    <3>2. CASE ~(i < n)
      <4>1. i + d \in Int /\ i + d \notin 0 .. N - 1
        BY <1>1, <3>2
      <4> QED
        BY <1>5, <2>1, <3>2, <4>1 DEF Inside
    <3> QED
      BY <3>1, <3>2
  <2> HIDE DEF d
  <2> QED
    BY <1>1, <2>1, <2>2, MovedDown
<1>11. Value(w) = T!ShiftLeft(Value(u), N, d)
  <2>1. \A i \in 0 .. N - 1 : get_trit(w, i) = get_trit(u, i - d)
    BY <1>9, WidthOfWord
  <2> HIDE DEF d
  <2> QED
    BY <1>1, <1>5, <2>1, MovedUp
<1>12. T!copy_trs_setun(Value(x), N, n) = Value(u)
  BY <1>10, WidthOfWord DEF T!copy_trs_setun
<1>13. T!copy_trs_setun(Value(u), n, N) = Value(w)
  <2>1. CASE n = N
    <3>1. d = 0
      BY <2>1, WidthOfWord
    <3>2. \A i \in 0 .. N - 1 : get_trit(w, i) = get_trit(u, i + d)
      <4>1. \A i \in 0 .. N - 1 : i < N /\ i - (N - n) = i + d
        BY <2>1, WidthOfWord
      <4> QED
        BY <1>9, <4>1
    <3>3. Value(w) = T!ShiftRight(Value(u), N, d)
      <4> HIDE DEF d
      <4> QED
        BY <1>1, <1>5, <3>2, MovedDown
    <3> QED
      BY <2>1, <3>3, WidthOfWord DEF T!copy_trs_setun
  <2>2. CASE n # N
    BY <1>11, <2>2, WidthOfWord DEF T!copy_trs_setun
  <2> QED
    BY <2>1, <2>2
<1> QED
  BY <1>9, <1>12, <1>13 DEF w, u

(* A register that holds one trit.                                         *)
LEMMA OneTritWord ==
    ASSUME NEW v \in Trit PROVE set_trit_setun(Zero(N), N, v) \in PlaneWord
<1> DEFINE A == IF v > 0 THEN {} \cup {0} ELSE {} \ {0}
           B == IF v # 0 THEN {} \cup {0} ELSE {} \ {0}
<1>1. Zero(N) = [l |-> N, t1 |-> {}, t0 |-> {}] /\ {} \subseteq {} /\ {} \subseteq 0 .. N - 1
  BY DEF Zero
<1>2. Zero(N) \in PlaneWord /\ N # 0 /\ N - N = 0
  <2>1. Zero(N) \in PlaneWord
    <3> DEFINE a == {}
               b == {}
    <3>1. a \subseteq b /\ b \subseteq 0 .. N - 1
      OBVIOUS
    <3> HIDE DEF a, b
    <3>2. [l |-> N, t1 |-> a, t0 |-> b] \in PlaneWord
      BY <3>1, PlaneWordIs
    <3> QED
      BY <1>1, <3>2 DEF a, b
  <2> QED
    BY <2>1, WidthOfWord
<1>3. Zero(N).l = N /\ Zero(N).t1 = {} /\ Zero(N).t0 = {}
  BY DEF Zero
<1>4. ~(N = 0 \/ N > Zero(N).l \/ Zero(N).l > N)
  BY <1>2, <1>3, WidthOfWord
<1>5. set_trit_setun(Zero(N), N, v) = WithPlanes(Zero(N), A, B)
  BY <1>2, <1>3, <1>4 DEF set_trit_setun, WithPlanes
<1>6. A \subseteq B /\ B \subseteq 0 .. N - 1
  BY WidthOfWord DEF Trit
<1> HIDE DEF A, B
<1>7. WithPlanes(Zero(N), A, B) = [l |-> N, t1 |-> A, t0 |-> B]
  BY <1>2, PlanesOfWord
<1>8. [l |-> N, t1 |-> A, t0 |-> B] \in PlaneWord
  BY <1>6, PlaneWordIs
<1> QED
  BY <1>5, <1>7, <1>8
(***************************************************************************)
(* Products.  The sum of the shifted multiplicands fits N + 1 trits, and   *)
(* the longer words of the loop are zero beyond them.                      *)
(***************************************************************************)
LongWord == [l : {l \in Nat : l >= N + 1}, t1 : SUBSET Nat, t0 : SUBSET Nat]

LongSum(a, b, sign) == [SumLoop(a, b, sign, LongLength(a, b)) EXCEPT !.l = LongLength(a, b) + 1]

\* No trit behind N + 1 trits, and no positive trit that is zero.
Short(t) == t.t1 \subseteq t.t0 /\ \A k \in Nat : k > N => get_trit(t, k) = 0

LongNumber(t) == TP!Number(TritsOf(t), N + 1)

LEMMA LongSumFacts ==
    ASSUME NEW a \in LongWord, NEW b, b.l = N, NEW sign \in {-1, 1}
    PROVE  /\ LongSum(a, b, sign) \in LongWord
           /\ (Short(a) /\ Short(b) /\ LongNumber(a) + sign * LongNumber(b)
                                           \in -T!MaxWord(N + 1) .. T!MaxWord(N + 1))
                 => /\ Short(LongSum(a, b, sign))
                    /\ LongNumber(LongSum(a, b, sign)) = LongNumber(a) + sign * LongNumber(b)
<1> DEFINE j == LongLength(a, b)
           r == SumLoop(a, b, sign, j)
           s == LongSum(a, b, sign)
<1>1. j \in Nat /\ j >= N + 1
  BY WidthOfWord DEF LongLength, Min2, Max2, LongWord, SIZE_LONG_TRITS_MAX
<1> HIDE DEF j
<1>2. /\ r.t1 \subseteq r.t0 /\ r.t0 \subseteq 0 .. j - 1
      /\ r = [l |-> j, t1 |-> r.t1, t0 |-> r.t0]
  BY <1>1, SumLoopTrits
<1>3. s = [l |-> j + 1, t1 |-> r.t1, t0 |-> r.t0]
  <2>1. s = [r EXCEPT !.l = j + 1]
    BY DEF LongSum, j
  <2> HIDE DEF r, s
  <2> QED
    BY <1>2, <2>1, RecordOf
<1>4. s \in LongWord
  <2>1. j + 1 \in Nat /\ j + 1 >= N + 1 /\ r.t0 \subseteq Nat /\ r.t1 \subseteq Nat
    BY <1>1, <1>2, WidthOfWord
  <2> HIDE DEF r, s
  <2> QED
    BY <1>3, <2>1 DEF LongWord
<1> SUFFICES ASSUME Short(a), Short(b),
                    LongNumber(a) + sign * LongNumber(b) \in -T!MaxWord(N + 1) .. T!MaxWord(N + 1)
             PROVE  Short(s) /\ LongNumber(s) = LongNumber(a) + sign * LongNumber(b)
  BY <1>4
<1>5. PICK c : Carries(c, a, b, sign, j)
  BY <1>1, SumLoopTrits
<1> HIDE DEF r, s
<1>6. s.t1 = r.t1 /\ s.t0 = r.t0
  BY <1>3
<1>7. \A k : get_trit(s, k) = get_trit(r, k)
  BY <1>6 DEF get_trit
<1>8. TritsOf(s) = TritsOf(r)
  BY <1>7 DEF TritsOf
<1>9. N + 1 \in 0 .. 19 /\ N + 1 <= j /\ N + 1 \in 0 .. j
  BY <1>1, WidthOfWord
<1>10. LongNumber(a) + sign * LongNumber(b) = LongNumber(s) + c[N + 1] * TP!pow3(N + 1)
  <2> DEFINE n == N + 1
  <2>1. n \in 0 .. 19 /\ n <= j
    BY <1>9
  <2> HIDE DEF n
  <2>2. TP!Number(TritsOf(a), n) + sign * TP!Number(TritsOf(b), n)
          = TP!Number(TritsOf(SumLoop(a, b, sign, j)), n) + c[n] * TP!pow3(n)
    <3>1. sign \in {-1, 1} /\ j \in Nat /\ Carries(c, a, b, sign, j)
      BY <1>1, <1>5
    <3> QED
      BY <2>1, <3>1, SumOfNumbers, SMTT(30)
  <2> QED
    BY <1>8, <2>2 DEF LongNumber, r, n
<1>11. c[N + 1] = 0
  <2> DEFINE M == TP!MaxWord(N + 1)  P == TP!pow3(N + 1)  S == LongNumber(s)
             Z == LongNumber(a) + sign * LongNumber(b)
  <2>1. M \in Nat /\ P = 2 * M + 1
    BY <1>9, TP!Pow3
  <2>2. S \in -M .. M
    BY <1>9, TritsAreDigits, TP!NumberType DEF LongNumber
  <2>3. Z \in -M .. M
    BY SameOperators
  <2>4. c[N + 1] \in -1 .. 1
    BY <1>5, <1>9 DEF Carries, Trit
  <2>5. Z = S + c[N + 1] * P
    BY <1>10
  <2> HIDE DEF M, P, S, Z
  <2>6. CASE c[N + 1] = 1
    BY <2>1, <2>2, <2>3, <2>5, <2>6
  <2>7. CASE c[N + 1] = -1
    BY <2>1, <2>2, <2>3, <2>5, <2>7
  <2> QED
    BY <2>4, <2>6, <2>7
<1>12. LongNumber(s) = LongNumber(a) + sign * LongNumber(b)
  <2>1. LongNumber(s) \in Int /\ TP!pow3(N + 1) \in Nat
    BY <1>9, TritsAreDigits, TP!NumberType, TP!Pow3 DEF LongNumber
  <2> QED
    BY <1>10, <1>11, <2>1
<1>13. ASSUME NEW k \in N + 1 .. j - 1, c[k] = 0 PROVE get_trit(r, k) = 0 /\ c[k + 1] = 0
  <2>1. k \in Nat /\ k > N /\ k \in 0 .. j - 1 /\ k + 1 \in 0 .. j
    BY <1>1, WidthOfWord
  <2>2. get_trit(a, k) = 0 /\ get_trit(b, k) = 0
    BY <2>1 DEF Short
  <2>3. get_trit(r, k) + 3 * c[k + 1] = 0 + sign * 0 + 0
    BY <1>5, <1>13, <2>1, <2>2 DEF Carries, r
  <2>4. get_trit(r, k) \in -1 .. 1 /\ c[k + 1] \in -1 .. 1
    BY <1>5, <2>1, GetTritType DEF Carries, Trit
  <2> QED
    BY <2>3, <2>4
<1>14. \A k \in N + 1 .. j : c[k] = 0
  <2> DEFINE R == {k \in N + 1 .. j : c[k] = 0}
  <2>1. N + 1 \in R
    BY <1>1, <1>9, <1>11, WidthOfWord
  <2>2. ASSUME NEW k \in N + 1 .. j - 1, k \in R PROVE k + 1 \in R
    <3>1. c[k + 1] = 0
      BY <1>13, <2>2
    <3> QED
      BY <1>1, <3>1, WidthOfWord
  <2> HIDE DEF R
  <2>3. N + 1 .. j \subseteq R
    <3>1. N + 1 \in Nat
      BY <1>9
    <3> QED
      BY <1>1, <2>1, <2>2, <3>1, Induction
  <2> QED
    BY <2>3 DEF R
<1>15. ASSUME NEW k \in Nat, k > N PROVE get_trit(s, k) = 0
  <2>1. CASE k <= j - 1
    <3>1. k \in N + 1 .. j - 1 /\ k \in N + 1 .. j
      BY <1>1, <1>15, <2>1, WidthOfWord
    <3> QED
      BY <1>7, <1>13, <1>14, <3>1
  <2>2. CASE ~(k <= j - 1)
    <3>1. k \notin s.t0
      BY <1>1, <1>2, <1>6, <2>2
    <3> QED
      BY <3>1 DEF get_trit
  <2> QED
    BY <2>1, <2>2
<1> QED
  BY <1>2, <1>6, <1>12, <1>15 DEF Short
Terms(x, y) == [i \in 0 .. N - 1 |-> TP!Bit(Value(y), i) * TP!ShiftRight(Value(x), N, i)]

LEMMA TermFacts ==
    ASSUME NEW x, NEW y, NEW i \in 0 .. N - 1
    PROVE  /\ Terms(x, y)[i] = get_trit(y, i) * TP!Number(TP!TritsFrom(TritsOf(x), i), N - i)
           /\ TP!Number(TP!TritsFrom(TritsOf(x), i), N - i) \in -TP!MaxWord(N - i) .. TP!MaxWord(N - i)
           /\ TP!Number(TP!TritsFrom(TritsOf(x), i), N - i) \in Int
           /\ get_trit(y, i) \in -1 .. 1 /\ Terms(x, y)[i] \in Int
<1> DEFINE f == TritsOf(x)  h == TritsOf(y)  v == TP!Number(TP!TritsFrom(f, i), N - i)
<1>1. /\ N \in 0 .. 19 /\ TP!AreTrits(f, N) /\ TP!AreTrits(h, N) /\ i \in 0 .. N /\ N - i \in 0 .. 19
      /\ i \in Nat /\ i < N
  BY WidthOfWord, TritsAreDigits
<1>2. TP!Bit(Value(y), i) = get_trit(y, i)
  <2>1. TP!Bit(TP!Number(h, N), i) = h[i]
    <3> HIDE DEF h
    <3> QED
      BY <1>1, TP!NumberBit
  <2> QED
    BY <1>1, <2>1, ValueIsNumber DEF TritsOf
<1>3. TP!ShiftRight(Value(x), N, i) = v
  <2> HIDE DEF f
  <2>1. TP!ShiftRight(TP!Number(f, N), N, i) = v
    BY <1>1, WidthOfWord, TP!ShiftRightNumber
  <2> QED
    BY <2>1, ValueIsNumber DEF f
<1>4. v \in -TP!MaxWord(N - i) .. TP!MaxWord(N - i) /\ v \in Int
  <2> HIDE DEF f
  <2>1. TP!AreTrits(TP!TritsFrom(f, i), N - i)
    BY <1>1, TP!NumberSplit
  <2> QED
    BY <1>1, <2>1, TP!NumberType
<1>5. get_trit(y, i) \in -1 .. 1
  BY GetTritType DEF Trit
<1>6. Terms(x, y)[i] = get_trit(y, i) * v
  BY <1>2, <1>3 DEF Terms
<1> HIDE DEF v
<1>7. get_trit(y, i) * v \in Int
  BY <1>4, <1>5
<1> QED
  BY <1>4, <1>5, <1>6, <1>7 DEF v

(* The first m terms of a product, and that they fit N + 1 trits.          *)
LEMMA PartialProducts ==
    ASSUME NEW x, NEW y
    PROVE  \A m \in 0 .. N : /\ TP!SumTo(Terms(x, y), m) \in Int
                             /\ TP!SumTo(Terms(x, y), m) \in -T!MaxWord(N + 1) .. T!MaxWord(N + 1)
                             /\ m < N => TP!SumTo(Terms(x, y), m + 1)
                                          = TP!SumTo(Terms(x, y), m) + Terms(x, y)[m]
<1> DEFINE g == Terms(x, y)
           S(m) == TP!SumTo(g, m)
           Fits(m) == /\ S(m) \in Int
                      /\ 4 * S(m) + TP!pow3(N - m + 1) <= TP!pow3(N + 1)
                      /\ -(4 * S(m)) + TP!pow3(N - m + 1) <= TP!pow3(N + 1)
           R == {m \in 0 .. N : Fits(m)}
<1>1. \A i \in 0 .. N - 1 : g[i] \in Int
  BY TermFacts
<1>2. ASSUME NEW m \in 0 .. N - 1 PROVE S(m + 1) = S(m) + g[m]
  <2>1. m \in 0 .. 17 /\ \A i \in 0 .. m : g[i] \in Int
    BY <1>1, WidthOfWord
  <2> HIDE DEF g
  <2> QED
    BY <2>1, TP!SumStep
<1>3. \A n \in 0 .. 19 : /\ TP!pow3(n) \in Nat /\ TP!MaxWord(n) \in Nat
                         /\ TP!pow3(n) = 2 * TP!MaxWord(n) + 1
  BY TP!Pow3
<1>4. 0 \in R
  <2>1. S(0) = 0
    BY TP!SumZero
  <2>2. N + 1 \in 0 .. 19 /\ N - 0 + 1 = N + 1 /\ 0 \in 0 .. N
    BY WidthOfWord
  <2> HIDE DEF S
  <2> QED
    BY <1>3, <2>1, <2>2
<1>5. ASSUME NEW m \in 0 .. N - 1, m \in R PROVE m + 1 \in R
  <2> DEFINE v == TP!Number(TP!TritsFrom(TritsOf(x), m), N - m)  t == get_trit(y, m)
             M == TP!MaxWord(N - m)  P == TP!pow3(N - m)
  <2>1. /\ N - m \in TP!Widths /\ N - m \in 0 .. 19 /\ m + 1 \in 0 .. N /\ m \in 0 .. N
        /\ N - (m + 1) + 1 = N - m /\ N - m + 1 = (N - m) + 1 /\ N + 1 \in 0 .. 19
    BY WidthOfWord DEF TP!Widths
  <2>2. M \in Nat /\ P \in Nat /\ P = 2 * M + 1 /\ TP!pow3(N + 1) \in Nat
    BY <1>3, <2>1
  <2>3. TP!pow3(N - m + 1) = 3 * P
    BY <2>1, TP!Pow3Next
  <2>4. v \in -M .. M /\ v \in Int /\ t \in -1 .. 1 /\ g[m] = t * v
    BY TermFacts
  <2>5. S(m + 1) = S(m) + g[m]
    BY <1>2
  <2>6. Fits(m)
    BY <1>5
  <2> HIDE DEF v, t, M, P, S, g
  <2>7. g[m] \in -M .. M
    <3>1. CASE t = 0
      BY <2>2, <2>4, <3>1
    <3>2. CASE t = 1
      BY <2>2, <2>4, <3>2
    <3>3. CASE t = -1
      BY <2>2, <2>4, <3>3
    <3> QED
      BY <2>4, <3>1, <3>2, <3>3
  <2>8. TP!pow3(N - (m + 1) + 1) = P
    BY <2>1 DEF P
  <2>9. /\ S(m + 1) \in Int
        /\ 4 * S(m + 1) + P <= TP!pow3(N + 1)
        /\ -(4 * S(m + 1)) + P <= TP!pow3(N + 1)
    BY <2>2, <2>3, <2>5, <2>6, <2>7
  <2> QED
    BY <2>1, <2>8, <2>9
<1> HIDE DEF R
<1>6. 0 .. N \subseteq R
  BY <1>4, <1>5, WidthOfWord, Induction
<1>7. ASSUME NEW m \in 0 .. N PROVE S(m) \in Int /\ S(m) \in -T!MaxWord(N + 1) .. T!MaxWord(N + 1)
  <2>1. Fits(m)
    BY <1>6 DEF R
  <2>2. N - m + 1 \in 0 .. 19 /\ N + 1 \in 0 .. 19
    BY WidthOfWord
  <2> DEFINE M == TP!MaxWord(N + 1)  P == TP!pow3(N + 1)  Q == TP!pow3(N - m + 1)
  <2>3. M \in Nat /\ P = 2 * M + 1 /\ Q \in Nat /\ TP!pow3(N - m + 1) \in Nat \ {0}
    BY <1>3, <2>2, TP!Pow3
  <2> HIDE DEF M, P, Q, S
  <2>4. S(m) \in -M .. M
    BY <2>1, <2>3 DEF P, Q
  <2> QED
    BY <2>1, <2>4, SameOperators DEF M
<1> QED
  <2>1. \A m \in 0 .. N : m < N => m \in 0 .. N - 1
    BY WidthOfWord
  <2> HIDE DEF g
  <2> QED
    BY <1>2, <1>7, <2>1 DEF g

(* The sum of the first m partial products.                                *)
ProductSum(x, y, m) == TP!SumTo(Terms(x, y), m)

LEMMA ProductSums ==
    ASSUME NEW x, NEW y, NEW m \in 0 .. N
    PROVE  /\ ProductSum(x, y, m) \in Int
           /\ ProductSum(x, y, m) \in -T!MaxWord(N + 1) .. T!MaxWord(N + 1)
           /\ m < N => ProductSum(x, y, m + 1) = ProductSum(x, y, m) + Terms(x, y)[m]
BY PartialProducts DEF ProductSum

(* The multiplicand moved down by i places.                                *)
Shifted(x, i) == [l |-> x.l, t1 |-> Moved(x.t1, -i, SIZE_LONG_TRITS_MAX),
                             t0 |-> Moved(x.t0, -i, SIZE_LONG_TRITS_MAX)]

LEMMA ShiftedFacts ==
    ASSUME NEW x \in PlaneWord, NEW i \in 0 .. N - 1
    PROVE  /\ Shifted(x, i).l = N /\ Short(Shifted(x, i))
           /\ LongNumber(Shifted(x, i)) = TP!Number(TP!TritsFrom(TritsOf(x), i), N - i)
<1> DEFINE s == Shifted(x, i)  f == TritsOf(s)  g == TP!TritsFrom(TritsOf(x), i)
           W == SIZE_LONG_TRITS_MAX
<1>1. /\ x.l = N /\ x.t1 \subseteq x.t0 /\ x.t0 \subseteq 0 .. N - 1 /\ Inside(x)
  BY PlaneWordIs, WordIsInside
<1>2. /\ s.l = N
      /\ \A k : k \in s.t1 <=> k \in 0 .. W - 1 /\ k - (-i) \in x.t1
      /\ \A k : k \in s.t0 <=> k \in 0 .. W - 1 /\ k - (-i) \in x.t0
  BY <1>1 DEF Shifted, Moved
<1> HIDE DEF s
<1>3. ASSUME NEW k \in Nat PROVE get_trit(s, k) = get_trit(x, i + k)
  <2>1. k - (-i) = i + k /\ (i + k \in 0 .. N - 1 => k \in 0 .. W - 1)
    BY WidthOfWord DEF SIZE_LONG_TRITS_MAX
  <2> HIDE DEF W
  <2> QED
    BY <1>1, <1>2, <2>1 DEF get_trit
<1>4. Short(s)
  <2>1. s.t1 \subseteq s.t0
    BY <1>1, <1>2
  <2>2. \A k \in Nat : k > N => i + k \in Int /\ i + k \notin 0 .. N - 1
    BY WidthOfWord
  <2> QED
    BY <1>1, <1>3, <2>1, <2>2 DEF Short, Inside
<1>5. \A k \in Nat : f[k] = get_trit(x, i + k)
  BY <1>3 DEF TritsOf
<1>6. \A k \in Nat : g[k] = get_trit(x, i + k)
  <2>1. \A k \in Nat : i + k \in Nat
    BY WidthOfWord
  <2> QED
    BY <2>1 DEF TP!TritsFrom, TritsOf
<1>7. /\ N + 1 \in 0 .. 19 /\ N - i \in 0 .. N + 1 /\ N - i \in 0 .. 19 /\ TP!AreTrits(f, N + 1)
  BY WidthOfWord, TritsAreDigits
<1>8. \A k \in N - i .. (N + 1) - 1 : f[k] = 0
  <2>1. \A k \in N - i .. (N + 1) - 1 : k \in Nat /\ i + k \in Int /\ i + k \notin 0 .. N - 1
    BY WidthOfWord
  <2> QED
    BY <1>1, <1>5, <2>1 DEF Inside
<1>9. \A k \in 0 .. (N - i) - 1 : f[k] = g[k]
  BY <1>5, <1>6, WidthOfWord
<1> HIDE DEF f, g
<1>10. TP!Number(f, N + 1) = TP!Number(f, N - i)
  <2> DEFINE n == N + 1
  <2> HIDE DEF n
  <2>1. TP!Number(f, n) = TP!Number(f, N - i)
    BY <1>7, <1>8, TP!NumberOfLow DEF n
  <2> QED
    BY <2>1 DEF n
<1>11. TP!Number(f, N - i) = TP!Number(g, N - i)
  BY <1>7, <1>9, TP!NumberSame
<1> QED
  BY <1>2, <1>4, <1>10, <1>11 DEF LongNumber, f, g, s

ProductRound(r, x, y, i) ==
    CASE get_trit(y, i - 1) > 0 -> add_long_trs(r, Shifted(x, i - 1))
      [] get_trit(y, i - 1) < 0 -> sub_long_trs(r, Shifted(x, i - 1))
      [] OTHER                  -> r

LEMMA RoundFacts ==
    ASSUME NEW x \in PlaneWord, NEW y, NEW i \in 1 .. N, NEW r \in LongWord
    PROVE  /\ ProductRound(r, x, y, i) \in LongWord
           /\ (Short(r) /\ LongNumber(r) = TP!SumTo(Terms(x, y), i - 1))
                 => /\ Short(ProductRound(r, x, y, i))
                    /\ LongNumber(ProductRound(r, x, y, i)) = TP!SumTo(Terms(x, y), i)
<1> DEFINE m == i - 1
           s == Shifted(x, m)
           t == get_trit(y, m)
           S(k) == ProductSum(x, y, k)
           v == TP!Number(TP!TritsFrom(TritsOf(x), m), N - m)
<1>1. m \in 0 .. N - 1 /\ m \in 0 .. N /\ i \in 0 .. N /\ m + 1 = i /\ m < N
  BY WidthOfWord
<1>2. s.l = N /\ Short(s) /\ LongNumber(s) = v
  BY <1>1, ShiftedFacts
<1>3. t \in -1 .. 1 /\ v \in Int /\ Terms(x, y)[m] = t * v
  BY <1>1, TermFacts
<1>4. /\ S(m) \in Int /\ S(i) \in Int /\ S(i) \in -T!MaxWord(N + 1) .. T!MaxWord(N + 1)
      /\ S(i) = S(m) + Terms(x, y)[m]
  <2> HIDE DEF m
  <2>1. S(m) \in Int /\ S(m + 1) = S(m) + Terms(x, y)[m]
    BY <1>1, ProductSums
  <2>2. S(i) \in Int /\ S(i) \in -T!MaxWord(N + 1) .. T!MaxWord(N + 1)
    BY <1>1, ProductSums
  <2>3. S(m + 1) = S(i)
    BY <1>1
  <2> QED
    BY <2>1, <2>2, <2>3
<1>5. ProductRound(r, x, y, i) = IF t > 0 THEN LongSum(r, s, 1)
                           ELSE IF t < 0 THEN LongSum(r, s, -1) ELSE r
  <2>1. /\ add_long_trs(r, s) = LongSum(r, s, 1) /\ sub_long_trs(r, s) = LongSum(r, s, -1)
    BY DEF add_long_trs, sub_long_trs, LongSum
  <2>2. ~(t > 0 /\ t < 0)
    BY <1>3
  <2> HIDE DEF s
  <2> QED
    BY <2>1, <2>2 DEF ProductRound, s
<1> HIDE DEF m, s, t, S, v
<1>6. /\ LongSum(r, s, 1) \in LongWord /\ LongSum(r, s, -1) \in LongWord
  BY <1>2, LongSumFacts
<1>7. ASSUME Short(r), LongNumber(r) = S(m)
      PROVE  Short(ProductRound(r, x, y, i)) /\ LongNumber(ProductRound(r, x, y, i)) = S(i)
  <2>1. CASE t = 1
    <3>1. LongNumber(r) + 1 * LongNumber(s) = S(i)
      BY <1>2, <1>3, <1>4, <1>7, <2>1
    <3> QED
      BY <1>2, <1>4, <1>5, <1>7, <2>1, <3>1, LongSumFacts
  <2>2. CASE t = -1
    <3>1. LongNumber(r) + (-1) * LongNumber(s) = S(i)
      BY <1>2, <1>3, <1>4, <1>7, <2>2
    <3>2. ~(t > 0) /\ t < 0
      BY <2>2
    <3> QED
      BY <1>2, <1>4, <1>5, <1>7, <3>1, <3>2, LongSumFacts
  <2>3. CASE t = 0
    BY <1>3, <1>4, <1>5, <1>7, <2>3
  <2> QED
    BY <1>3, <2>1, <2>2, <2>3
<1> QED
  BY <1>5, <1>6, <1>7 DEF S, m, ProductSum

LEMMA MulFacts ==
    ASSUME NEW x \in PlaneWord, NEW y \in PlaneWord
    PROVE  /\ mul_trs(x, y) \in PlaneWord
           /\ Value(mul_trs(x, y)) = T!mul_trs(Value(x), Value(y), N)
<1> DEFINE step == [i \in 1 .. N |-> [v \in LongWord |-> ProductRound(v, x, y, i)]]
           E(f) == [i \in 0 .. N |-> IF i = 0 THEN Zero(2 * N) ELSE ProductRound(f[i - 1], x, y, i)]
           rr == CHOOSE f : f = E(f)
           S(k) == TP!SumTo(Terms(x, y), k)
<1>1. Min2(y.l, 2 * N) = N /\ N \in Nat
  BY MaskedWord, WidthOfWord DEF Min2
<1>2. mul_trs(x, y) = Masked([l |-> N, t1 |-> Moved(rr[N].t1, -N, SIZE_LONG_TRITS_MAX),
                                      t0 |-> Moved(rr[N].t0, -N, SIZE_LONG_TRITS_MAX)], N)
  BY <1>1 DEF mul_trs, ProductRound, Shifted
<1>3. Zero(2 * N) \in LongWord
  BY WidthOfWord DEF Zero, LongWord
<1>4. Solvable(0, N, LongWord, Zero(2 * N), step)
  <2>1. \A i \in 1 .. N, v \in LongWord : step[i][v] \in LongWord
    BY RoundFacts
  <2>2. Steps(0, N, LongWord, step)
    BY <2>1 DEF Steps
  <2>3. 0 \in Nat /\ 0 <= N
    BY <1>1
  <2> HIDE DEF step
  <2> QED
    BY <1>1, <1>3, <2>2, <2>3, RecursionHasSolution
<1>5. PICK g \in [0 .. N -> LongWord] :
           g[0] = Zero(2 * N) /\ \A i \in 0 + 1 .. N : g[i] = step[i][g[i - 1]]
  BY <1>4 DEF Solvable
<1>6. g = E(g)
  <2>1. ASSUME NEW i \in 1 .. N PROVE g[i] = ProductRound(g[i - 1], x, y, i)
    <3>1. i - 1 \in 0 .. N /\ i \in 0 + 1 .. N
      BY <1>1
    <3> QED
      BY <1>5, <3>1
  <2>2. \A i \in 0 .. N : i # 0 => i \in 1 .. N
    BY <1>1
  <2> HIDE DEF step
  <2> QED
    BY <1>5, <2>1, <2>2
<1>7. rr = E(rr)
  <2> HIDE DEF E
  <2> QED
    BY <1>6
<1>8. /\ rr[0] = Zero(2 * N)
      /\ \A i \in 1 .. N : rr[i] = ProductRound(rr[i - 1], x, y, i)
  <2>1. \A i \in 1 .. N : i \in 0 .. N /\ i # 0
    BY <1>1
  <2>2. 0 \in 0 .. N
    BY <1>1
  <2> HIDE DEF rr
  <2> QED
    BY <1>7, <2>1, <2>2
<1> HIDE DEF rr, step
<1> DEFINE R == {i \in 0 .. N : rr[i] \in LongWord /\ Short(rr[i]) /\ LongNumber(rr[i]) = S(i)}
<1>9. 0 \in R
  <2> DEFINE z == Zero(2 * N)
  <2>1. z.t1 = {} /\ z.t0 = {}
    BY DEF Zero
  <2>2. Short(z)
    BY <2>1 DEF Short, get_trit
  <2>3. \A i \in 0 .. (N + 1) - 1 : TritsOf(z)[i] = 0
    <3>1. \A i \in 0 .. (N + 1) - 1 : i \in Nat
      BY <1>1
    <3> HIDE DEF z
    <3> QED
      BY <2>1, <3>1 DEF TritsOf, get_trit
  <2>4. LongNumber(z) = 0
    <3> DEFINE n == N + 1
    <3>1. n \in 0 .. 19
      BY WidthOfWord
    <3> HIDE DEF n, z
    <3>2. TP!Number(TritsOf(z), n) = 0
      BY <2>3, <3>1, TP!NumberOfZeros DEF n
    <3> QED
      BY <3>2 DEF LongNumber, n
  <2>5. S(0) = 0 /\ 0 \in 0 .. N
    BY <1>1, TP!SumZero
  <2> HIDE DEF S
  <2> QED
    BY <1>3, <1>8, <2>2, <2>4, <2>5
<1>10. ASSUME NEW i \in 0 .. N - 1, i \in R PROVE i + 1 \in R
  <2>1. i + 1 \in 1 .. N /\ (i + 1) - 1 = i /\ i + 1 \in 0 .. N
    BY <1>1
  <2>2. rr[i + 1] = ProductRound(rr[i], x, y, i + 1)
    BY <1>8, <2>1
  <2>3. rr[i] \in LongWord /\ Short(rr[i]) /\ LongNumber(rr[i]) = S((i + 1) - 1)
    BY <1>10, <2>1
  <2> DEFINE k == i + 1
  <2> HIDE DEF k
  <2>4. rr[k] = ProductRound(rr[i], x, y, k) /\ LongNumber(rr[i]) = S(k - 1) /\ k \in 1 .. N /\ k \in 0 .. N
    BY <2>1, <2>2, <2>3 DEF k
  <2>5. rr[k] \in LongWord /\ Short(rr[k]) /\ LongNumber(rr[k]) = S(k)
    BY <2>3, <2>4, RoundFacts
  <2> QED
    BY <2>4, <2>5 DEF k
<1> DEFINE sum == rr[N]
<1>11. Short(sum) /\ LongNumber(sum) = S(N)
  <2> HIDE DEF R
  <2>1. 0 .. N \subseteq R
    BY <1>1, <1>9, <1>10, Induction
  <2>2. N \in R
    BY <1>1, <2>1
  <2> QED
    BY <2>2 DEF R
<1> HIDE DEF sum
<1> DEFINE p == Planes(sum, -N, SIZE_LONG_TRITS_MAX, N, N)
<1>12. mul_trs(x, y) = p
  BY <1>2, MaskedIs DEF Planes, sum
<1>13. /\ p \in PlaneWord
       /\ \A i \in 0 .. N - 1 : get_trit(p, i) = IF i < N THEN get_trit(sum, i - (-N)) ELSE 0
  <2>1. -N \in Int /\ SIZE_LONG_TRITS_MAX \in Nat /\ SIZE_LONG_TRITS_MAX >= N /\ N \in 0 .. N
    BY WidthOfWord DEF SIZE_LONG_TRITS_MAX
  <2>2. sum.t1 \subseteq sum.t0
    BY <1>11 DEF Short
  <2> QED
    BY <2>1, <2>2, MovedPlanes
<1> HIDE DEF p
<1>14. get_trit(p, 0) = get_trit(sum, N) /\ \A i \in 1 .. N - 1 : get_trit(p, i) = 0
  <2>1. 0 \in 0 .. N - 1 /\ 0 < N /\ 0 - (-N) = N
    BY WidthOfWord
  <2>2. ASSUME NEW i \in 1 .. N - 1 PROVE get_trit(p, i) = 0
    <3>1. i \in 0 .. N - 1 /\ i < N /\ i - (-N) \in Nat /\ i - (-N) > N
      BY WidthOfWord
    <3> QED
      BY <1>11, <1>13, <3>1 DEF Short
  <2> QED
    BY <1>13, <2>1, <2>2
<1>15. Value(p) = get_trit(sum, N)
  BY <1>14, GetTritType, OneTrit
<1>16. T!mul_trs(Value(x), Value(y), N) = (S(N) - TP!mod_3_n(S(N), N)) \div TP!pow3(N)
  BY SameProducts DEF TP!mul_trs, Terms
<1>17. (S(N) - TP!mod_3_n(S(N), N)) \div TP!pow3(N) = get_trit(sum, N)
  <2> DEFINE f == TritsOf(sum)  n == N + 1  high == TP!TritsFrom(f, N)
  <2>1. n \in 0 .. 19 /\ TP!AreTrits(f, n) /\ N \in TP!Widths /\ N <= n /\ n - N = 1 /\ N \in 0 .. n
    BY WidthOfWord, TritsAreDigits
  <2>2. high[0] = get_trit(sum, N)
    BY WidthOfWord DEF TP!TritsFrom, TritsOf
  <2>3. S(N) = TP!Number(f, n)
    BY <1>11 DEF LongNumber
  <2> HIDE DEF f, n, high, S
  <2>4. /\ TP!mod_3_n(TP!Number(f, n), N) = TP!Number(f, N)
        /\ (TP!Number(f, n) - TP!Number(f, N)) \div TP!pow3(N) = TP!Number(TP!TritsFrom(f, N), n - N)
    BY <2>1, TP!NumberLow
  <2>5. TP!AreTrits(TP!TritsFrom(f, N), n - N)
    BY <2>1, TP!NumberSplit
  <2>6. TP!Number(high, 1) = high[0]
    BY <2>1, <2>5, TP!NumberOfOne DEF high
  <2> QED
    BY <2>1, <2>2, <2>3, <2>4, <2>6 DEF high
<1> QED
  BY <1>12, <1>13, <1>15, <1>16, <1>17

LEMMA WordSign ==
    ASSUME NEW x \in PlaneWord PROVE sgn_trs(x) = T!sgn_trs(Value(x)) /\ sgn_trs(x) \in Trit
<1>1. x.l = N /\ x.t0 \subseteq 0 .. N - 1
  BY PlaneWordIs
<1>2. x.l \in 0 .. N /\ x.t0 \subseteq Nat /\ \A i \in x.l .. N - 1 : get_trit(x, i) = 0
  BY <1>1, WidthOfWord
<1> QED
  BY <1>2, SignFacts

(***************************************************************************)
(* The two registers.                                                      *)
(***************************************************************************)

(* Every function leaves planes that are those of a word of N trits, for   *)
(* every N up to 18 and all shift counts of one byte.                      *)
THEOREM TypeCorrect == Spec => []TypeOK
<1>1. Init => TypeOK
  BY DEF Init, TypeOK
<1>2. TypeOK /\ [Next]_vars => TypeOK'
  <2> SUFFICES ASSUME TypeOK, [Next]_vars PROVE TypeOK'
    OBVIOUS
  <2>1. ta \in PlaneWord /\ tb \in PlaneWord
    BY DEF TypeOK
  <2>2. ASSUME NEW t \in PlaneWord, Becomes(t) PROVE TypeOK'
    BY <2>1, <2>2 DEF TypeOK, Becomes
  <2>3. ASSUME NEW v \in Trit, IsTrit(v) PROVE TypeOK'
    BY <2>2, <2>3, OneTritWord DEF IsTrit
  <2>4. CASE Arithmetic
    <3>1. add_trs(ta, tb) \in PlaneWord /\ sub_trs(ta, tb) \in PlaneWord
      BY <2>1, AddFacts
    <3>2. mul_trs(ta, tb) \in PlaneWord
      BY <2>1, MulFacts
    <3>3. and_trs(ta, tb) \in PlaneWord
      BY <2>1, AndFacts
    <3>4. inc_trs(ta) \in PlaneWord /\ dec_trs(ta) \in PlaneWord
      BY <2>1, IncFacts
    <3> QED
      BY <2>2, <2>4, <3>1, <3>2, <3>3, <3>4 DEF Arithmetic
  <2>5. CASE Tests
    <3>1. sgn_trs(ta) \in Trit
      BY <2>1, WordSign
    <3>2. cmp_trs(ta, tb) \in Trit
      BY <2>1, CmpFacts
    <3>3. \A p \in 0 .. N + 1 : get_trit_setun(ta, p) \in Trit
      BY <2>1, TritFacts
    <3> QED
      BY <2>3, <2>5, <3>1, <3>2, <3>3 DEF Tests
  <2>6. CASE Shift
    <3>1. \A d \in Counts : mod_3_n(shift_trs(ta, d), N) \in PlaneWord
      BY <2>1, ShiftFacts, TritPlanesAssumption
    <3> QED
      BY <2>2, <2>6, <3>1 DEF Shift
  <2>7. CASE Slice
    <3>1. \A p1, p2 \in 0 .. N + 1 : [slice_trs_setun(ta, p1, p2) EXCEPT !.l = N] \in PlaneWord
      BY <2>1, SliceFacts
    <3> QED
      BY <2>2, <2>7, <3>1 DEF Slice
  <2>8. CASE Copy
    <3>1. \A n \in 1 .. N : copy_trs_setun(copy_trs_setun(ta, n), N) \in PlaneWord
      BY <2>1, CopyFacts
    <3> QED
      BY <2>2, <2>8, <3>1 DEF Copy
  <2>9. CASE Exchange
    BY <2>1, <2>9 DEF Exchange, TypeOK
  <2>10. CASE UNCHANGED vars
    BY <2>1, <2>10 DEF vars, TypeOK
  <2> QED
    BY <2>4, <2>5, <2>6, <2>7, <2>8, <2>9, <2>10 DEF Next
<1> QED
  BY <1>1, <1>2, PTL DEF Spec

(* The planes implement the numbers: sums, differences, products, trit by  *)
(* trit products, tests, shifts, slices and copies of all words of up to   *)
(* 18 trits are those of module Ternary, on which the other modules rest.  *)
THEOREM PlanesImplementNumbers == Spec => []ImplementsNumbers
<1>1. ASSUME NEW x \in PlaneWord, NEW y \in PlaneWord PROVE SameArithmetic(x, y)
  <2>1. /\ Value(add_trs(x, y)) = T!add_trs(Value(x), Value(y), N)
        /\ Value(sub_trs(x, y)) = T!sub_trs(Value(x), Value(y), N)
    BY AddFacts
  <2>2. Value(mul_trs(x, y)) = T!mul_trs(Value(x), Value(y), N)
    BY MulFacts
  <2>3. Value(and_trs(x, y)) = T!and_trs(Value(x), Value(y), N)
    BY AndFacts
  <2>4. Value(inc_trs(x)) = T!inc_trs(Value(x), N) /\ Value(dec_trs(x)) = T!dec_trs(Value(x), N)
    BY IncFacts
  <2>5. sgn_trs(x) = T!sgn_trs(Value(x))
    BY WordSign
  <2>6. cmp_trs(x, y) = T!cmp_trs(Value(x), Value(y), N)
    BY CmpFacts
  <2> QED
    BY <2>1, <2>2, <2>3, <2>4, <2>5, <2>6 DEF SameArithmetic
<1>2. ASSUME NEW x \in PlaneWord PROVE SamePlaces(x)
  <2>1. \A d \in Counts : Value(mod_3_n(shift_trs(x, d), N)) = T!shift_trs(Value(x), N, d)
    BY ShiftFacts, TritPlanesAssumption
  <2>2. \A p \in 0 .. N + 1 : get_trit_setun(x, p) = T!get_trit_setun(Value(x), N, p)
    BY TritFacts
  <2>3. \A p1, p2 \in 0 .. N + 1 :
           Value(slice_trs_setun(x, p1, p2)) = T!slice_trs_setun(Value(x), N, p1, p2)
    BY SliceFacts
  <2>4. \A n \in 1 .. N :
           Value(copy_trs_setun(copy_trs_setun(x, n), N))
               = T!copy_trs_setun(T!copy_trs_setun(Value(x), N, n), n, N)
    BY CopyFacts
  <2> QED
    BY <2>1, <2>2, <2>3, <2>4 DEF SamePlaces
<1>3. TypeOK => ImplementsNumbers
  BY <1>1, <1>2 DEF TypeOK, ImplementsNumbers
<1> QED
  BY <1>3, TypeCorrect, PTL

(***************************************************************************)
(* Logic.                                                                  *)
(***************************************************************************)
LEMMA FromTritsWord ==
    ASSUME NEW f, DOMAIN f = 0 .. N - 1, \A i \in 0 .. N - 1 : f[i] \in Trit
    PROVE  /\ FromTrits(N, f) \in PlaneWord
           /\ \A i \in 0 .. N - 1 : get_trit(FromTrits(N, f), i) = f[i]
<1> DEFINE A == {i \in DOMAIN f : f[i] > 0}  B == {i \in DOMAIN f : f[i] # 0}
<1>1. A \subseteq B /\ B \subseteq 0 .. N - 1
  BY DEF Trit
<1>2. FromTrits(N, f) = [l |-> N, t1 |-> A, t0 |-> B]
  BY DEF FromTrits
<1> HIDE DEF A, B
<1>3. [l |-> N, t1 |-> A, t0 |-> B] \in PlaneWord
  BY <1>1, PlaneWordIs
<1>4. \A i \in 0 .. N - 1 : get_trit(FromTrits(N, f), i) = f[i]
  BY FromTritsGet
<1> QED
  BY <1>2, <1>3, <1>4

LEMMA XorFacts ==
    ASSUME NEW x \in PlaneWord, NEW y \in PlaneWord
    PROVE  /\ xor_trs(x, y) \in PlaneWord
           /\ \A i \in 0 .. N - 1 : get_trit(xor_trs(x, y), i) = - get_trit(and_trs(x, y), i)
           /\ xor_setun_trs(x, y) = xor_trs(x, y)
<1> DEFINE f == [i \in 0 .. N - 1 |-> XOR_TABLE[get_trit(x, i) + 2][get_trit(y, i) + 2]]
<1>1. Max2(x.l, y.l) = N /\ Min2(x.l, y.l) = N
  BY MaskedWord DEF Max2, Min2
<1>2. xor_trs(x, y) = FromTrits(N, f)
  BY <1>1 DEF xor_trs, ByTable
<1>3. \A a, b \in Trit : XOR_TABLE[a + 2][b + 2] = -(a * b) /\ -(a * b) \in Trit
  <2> TAKE a, b \in Trit
  <2>1. a \in {-1, 0, 1} /\ b \in {-1, 0, 1}
    BY DEF Trit
  <2> QED
    BY <2>1 DEF XOR_TABLE, Trit
<1>4. \A i \in 0 .. N - 1 : f[i] = -(get_trit(x, i) * get_trit(y, i)) /\ f[i] \in Trit
  BY <1>3, GetTritType
<1>5. DOMAIN f = 0 .. N - 1
  OBVIOUS
<1> HIDE DEF f
<1>6. /\ xor_trs(x, y) \in PlaneWord
      /\ \A i \in 0 .. N - 1 : get_trit(xor_trs(x, y), i) = -(get_trit(x, i) * get_trit(y, i))
  BY <1>2, <1>4, <1>5, FromTritsWord
<1>7. \A i \in 0 .. N - 1 : get_trit(xor_trs(x, y), i) = - get_trit(and_trs(x, y), i)
  BY <1>6, AndFacts
<1> DEFINE both == {i \in x.t0 \cap y.t0 : i < N}
           pos  == {i \in both : ~ (i \in x.t1 <=> i \in y.t1)}
           w    == [l |-> N, t1 |-> pos, t0 |-> both]
<1>8. xor_setun_trs(x, y) = w
  BY <1>1 DEF xor_setun_trs
<1>9. pos \subseteq both /\ both \subseteq 0 .. N - 1
  BY PlaneWordIs
<1>10. \A i \in 0 .. N - 1 : get_trit(w, i) = -(get_trit(x, i) * get_trit(y, i))
  <2> TAKE i \in 0 .. N - 1
  <2>1. get_trit(w, i) = IF i \notin both THEN 0 ELSE IF i \in pos THEN 1 ELSE -1
    <3> HIDE DEF both, pos
    <3> QED
      BY DEF get_trit
  <2>2. i < N
    BY WidthOfWord
  <2> QED
    BY <2>1, <2>2 DEF get_trit
<1> HIDE DEF both, pos
<1>11. w \in PlaneWord
  BY <1>9, PlaneWordIs
<1> HIDE DEF w
<1>12. w = xor_trs(x, y)
  BY <1>6, <1>10, <1>11, SameTrits
<1> QED
  BY <1>6, <1>7, <1>8, <1>12

LEMMA NegatedValue ==
    ASSUME NEW s, NEW t, \A i \in 0 .. N - 1 : get_trit(s, i) = - get_trit(t, i)
    PROVE  Value(s) = - Value(t)
<1> DEFINE f == TritsOf(t)  g == TritsOf(s)
<1>1. N \in 0 .. 19 /\ TP!AreTrits(f, N)
  BY WidthOfWord, TritsAreDigits
<1>2. \A i \in 0 .. N - 1 : g[i] = - f[i]
  BY WidthOfWord DEF TritsOf
<1> HIDE DEF f, g
<1>3. TP!Number(g, N) = - TP!Number(f, N)
  BY <1>1, <1>2, TP!NumberNegated
<1> QED
  BY <1>3, ValueIsNumber DEF f, g

(* Both exclusive ors are the same function of all pairs of words, and the *)
(* word they give is the trit by trit product negated.                     *)
THEOREM XorsAreOne == Spec => []XorsAgree
<1>1. ASSUME NEW x \in PlaneWord, NEW y \in PlaneWord
      PROVE  /\ xor_setun_trs(x, y) = xor_trs(x, y)
             /\ Value(xor_trs(x, y)) = - Value(and_trs(x, y))
  BY XorFacts, NegatedValue
<1>2. TypeOK => XorsAgree
  BY <1>1 DEF TypeOK, XorsAgree
<1> QED
  BY <1>2, TypeCorrect, PTL

(***************************************************************************)
(* Decimal numbers.  A number is divided by 3 until nothing is left; what  *)
(* every division leaves over, -1, 0 or 1, is a trit.                      *)
(***************************************************************************)
LastTrit(v) == LET rem == v % 3 IN IF rem = 2 THEN -1 ELSE rem
Third(v)    == (v - LastTrit(v)) \div 3

LEMMA ThirdFacts ==
    ASSUME NEW v \in Int
    PROVE  LastTrit(v) \in Trit /\ Third(v) \in Int /\ v = 3 * Third(v) + LastTrit(v)
  BY DEF LastTrit, Third, Trit

LEMMA ThirdRange ==
    ASSUME NEW v \in Int, NEW k \in 0 .. 17, v \in -T!MaxWord(k + 1) .. T!MaxWord(k + 1)
    PROVE  Third(v) \in -T!MaxWord(k) .. T!MaxWord(k)
<1> DEFINE M == TP!MaxWord(k)  P == TP!pow3(k)  n == k + 1  MM == TP!MaxWord(n)  PP == TP!pow3(n)
<1>1. M \in Nat /\ P \in Nat /\ P = 2 * M + 1
  BY TP!Pow3
<1>2. n \in 0 .. 19 /\ k \in TP!Widths
  BY DEF TP!Widths
<1>3. MM \in Nat /\ PP \in Nat /\ PP = 2 * MM + 1
  <2> HIDE DEF n
  <2> QED
    BY <1>2, TP!Pow3
<1>4. PP = 3 * P
  BY <1>2, TP!Pow3Next
<1>5. v \in -MM .. MM
  BY SameOperators
<1> HIDE DEF M, P, MM, PP
<1>6. Third(v) \in -M .. M
  BY <1>1, <1>3, <1>4, <1>5, ThirdFacts DEF Trit
<1> QED
  BY <1>6, SameOperators DEF M

LEMMA RoundedIsWord ==
    ASSUME NEW twice \in Int PROVE Clamp(Round(twice)) \in -T!MaxWord(N) .. T!MaxWord(N)
<1>1. TP!MaxWord(N) \in Nat /\ TP!MaxWord(N) >= 1
  <2>1. TP!MaxWord(N) \in Nat /\ TP!pow3(N) = 2 * TP!MaxWord(N) + 1
    BY WidthOfWord, TP!Pow3
  <2>2. TP!pow3(N) >= 3
    BY WidthOfWord DEF TP!pow3, TP!POW3_TABLE
  <2> QED
    BY <2>1, <2>2
<1>2. Round(twice) \in Int
  BY DEF Round
<1> QED
  BY <1>1, <1>2, SameOperators DEF Clamp

(* The digits of a conversion, and what is left behind every one.          *)
Rests(rest, n) ==
    /\ rest[0] = n
    /\ \A i \in 0 .. N : rest[i] \in Int /\ rest[i] \in -T!MaxWord(N - i) .. T!MaxWord(N - i)
    /\ \A i \in 0 .. N - 1 : rest[i + 1] = Third(rest[i])

Converted(rest, len) ==
    FromTrits(len, [i \in 0 .. len - 1 |-> LastTrit(rest[i])])

Length(rest, len) ==
    /\ len \in 1 .. N
    /\ \A i \in len .. N : rest[i] = 0

LEMMA ConversionRuns ==
    ASSUME NEW twice \in Int
    PROVE  \E rest, len : /\ Rests(rest, Clamp(Round(twice))) /\ Length(rest, len)
                          /\ d10_to_t3(twice) = Converted(rest, len)
<1> DEFINE n == Clamp(Round(twice))
           step == [i \in 1 .. N |-> [v \in Int |-> Third(v)]]
           E(f) == [i \in 0 .. N |-> IF i = 0 THEN n ELSE Third(f[i - 1])]
           rest == CHOOSE f : f = E(f)
           Ends(l) == (\A i \in l .. N : rest[i] = 0) /\ (l = 1 \/ rest[l - 1] # 0)
           len == CHOOSE l \in 1 .. N : Ends(l)
<1>1. N \in 1 .. 18
  BY WidthOfWord
<1>2. d10_to_t3(twice) = Converted(rest, len)
  BY Zenon DEF d10_to_t3, Converted, Third, LastTrit
<1>3. n \in -T!MaxWord(N) .. T!MaxWord(N) /\ n \in Int
  BY RoundedIsWord, SameOperators, TP!Pow3, WidthOfWord
<1> HIDE DEF n
<1>4. Solvable(0, N, Int, n, step)
  <2>1. \A i \in 1 .. N, v \in Int : step[i][v] \in Int
    BY ThirdFacts
  <2>2. Steps(0, N, Int, step)
    BY <2>1 DEF Steps
  <2>3. 0 \in Nat /\ 0 <= N /\ N \in Nat
    BY <1>1
  <2> HIDE DEF step
  <2> QED
    BY <1>3, <2>2, <2>3, RecursionHasSolution
<1>5. PICK g \in [0 .. N -> Int] : g[0] = n /\ \A i \in 0 + 1 .. N : g[i] = step[i][g[i - 1]]
  BY <1>4 DEF Solvable
<1>6. g = E(g)
  <2>1. ASSUME NEW i \in 1 .. N PROVE g[i] = Third(g[i - 1])
    <3>1. i - 1 \in 0 .. N /\ i \in 0 + 1 .. N
      BY <1>1
    <3> QED
      BY <1>5, <3>1
  <2>2. \A i \in 0 .. N : i # 0 => i \in 1 .. N
    BY <1>1
  <2> HIDE DEF step
  <2> QED
    BY <1>5, <2>1, <2>2
<1>7. rest = E(rest)
  <2> HIDE DEF E
  <2> QED
    BY <1>6
<1>8. /\ rest[0] = n
      /\ \A i \in 0 .. N - 1 : rest[i + 1] = Third(rest[i])
  <2>1. \A i \in 0 .. N - 1 : i + 1 \in 0 .. N /\ i + 1 # 0 /\ (i + 1) - 1 = i
    BY <1>1
  <2>2. 0 \in 0 .. N
    BY <1>1
  <2> HIDE DEF rest
  <2> QED
    BY <1>7, <2>1, <2>2
<1> HIDE DEF rest, step, E
<1>9. Rests(rest, n)
  <2> DEFINE S == {i \in 0 .. N : rest[i] \in Int /\ rest[i] \in -T!MaxWord(N - i) .. T!MaxWord(N - i)}
  <2>1. 0 \in S
    BY <1>1, <1>3, <1>8
  <2>2. ASSUME NEW i \in 0 .. N - 1, i \in S PROVE i + 1 \in S
    <3> DEFINE k == N - (i + 1)
    <3>1. k \in 0 .. 17 /\ k + 1 = N - i
      BY <1>1
    <3>2. rest[i] \in Int /\ rest[i] \in -T!MaxWord(k + 1) .. T!MaxWord(k + 1)
      BY <2>2, <3>1
    <3> HIDE DEF k
    <3>3. Third(rest[i]) \in Int /\ Third(rest[i]) \in -T!MaxWord(k) .. T!MaxWord(k)
      BY <3>1, <3>2, ThirdFacts, ThirdRange
    <3> QED
      BY <1>1, <1>8, <3>3 DEF k
  <2>3. 0 \in Nat /\ N \in Nat /\ \A i \in 0 .. N - 1 : i \in S => i + 1 \in S
    BY <1>1, <2>2
  <2> HIDE DEF S
  <2>4. 0 .. N \subseteq S
    BY <2>1, <2>3, Induction
  <2> QED
    BY <1>8, <2>4 DEF S, Rests
<1>10. rest[N] = 0
  <2>1. N \in 0 .. N /\ N - N = 0
    BY <1>1
  <2>2. T!MaxWord(0) = 0
    BY DEF T!MaxWord, T!pow3, T!POW3_TABLE
  <2> QED
    BY <1>9, <2>1, <2>2 DEF Rests
<1>11. \E l \in 1 .. N : Ends(l)
  <2> DEFINE S == {l \in 1 .. N : \A i \in l .. N : rest[i] = 0}
  <2>1. S \in SUBSET Nat
    OBVIOUS
  <2>2. N \in S
    BY <1>1, <1>10
  <2>3. PICK l \in S : \A k \in S : l <= k
    <3> HIDE DEF S
    <3> QED
      BY <2>1, <2>2, LeastElement
  <2>4. l \in 1 .. N
    OBVIOUS
  <2>5. ASSUME l # 1, rest[l - 1] = 0 PROVE FALSE
    <3>1. l - 1 \in 1 .. N
      BY <1>1, <2>4, <2>5
    <3>2. \A i \in l - 1 .. N : i = l - 1 \/ i \in l .. N
      BY <1>1, <2>4
    <3>3. l - 1 \in S
      BY <2>5, <3>1, <3>2
    <3> QED
      BY <2>3, <2>4, <3>3
  <2> QED
    BY <2>4, <2>5
<1>12. len \in 1 .. N /\ Ends(len)
  BY <1>11
<1>13. Length(rest, len)
  BY <1>12 DEF Length
<1> QED
  BY <1>2, <1>9, <1>13 DEF n

LEMMA ConvertedValue ==
    ASSUME NEW n, NEW rest, Rests(rest, n), NEW len, Length(rest, len)
    PROVE  Value(Converted(rest, len)) = n
<1> DEFINE w == Converted(rest, len)
           t == [i \in 0 .. len - 1 |-> LastTrit(rest[i])]
           d == TritsOf(w)
<1>1. N \in 1 .. 18 /\ len \in 1 .. N
  BY WidthOfWord DEF Length
<1>2. \A i \in 0 .. N : rest[i] \in Int
  BY DEF Rests
<1>3. \A i \in DOMAIN t : t[i] \in Trit
  BY <1>1, <1>2, ThirdFacts
<1>4. ASSUME NEW i \in 0 .. N - 1 PROVE get_trit(w, i) = LastTrit(rest[i])
  <2>1. DOMAIN t = 0 .. len - 1 /\ w = FromTrits(len, t)
    BY DEF Converted
  <2>2. CASE i < len
    <3>1. i \in 0 .. len - 1 /\ t[i] = LastTrit(rest[i])
      BY <1>1, <2>2
    <3> HIDE DEF t, w
    <3> QED
      BY <1>3, <2>1, <3>1, FromTritsGet
  <2>3. CASE ~(i < len)
    <3>1. i \notin 0 .. len - 1 /\ i \in len .. N
      BY <1>1, <2>3
    <3>2. rest[i] = 0 /\ LastTrit(0) = 0
      BY <3>1 DEF Length, LastTrit
    <3> HIDE DEF t, w
    <3> QED
      BY <1>3, <2>1, <3>1, <3>2, FromTritsGet
  <2> QED
    BY <2>2, <2>3
<1> HIDE DEF w, t
<1>5. \A i \in 0 .. N - 1 : d[i] = LastTrit(rest[i]) /\ d[i] \in -1 .. 1
  BY <1>1, <1>2, <1>4, ThirdFacts DEF TritsOf, Trit
<1> HIDE DEF d
<1> DEFINE S == {k \in 0 .. N : TP!Number(d, k) \in Int /\ n = TP!Number(d, k) + rest[k] * TP!pow3(k)}
<1>6. 0 \in S
  <2>1. TP!Number(d, 0) = 0 /\ TP!pow3(0) = 1 /\ rest[0] = n /\ n \in Int
    BY <1>1, <1>2, TP!NumberZero DEF Rests, TP!pow3, TP!POW3_TABLE
  <2> QED
    BY <1>1, <2>1
<1>7. ASSUME NEW k \in 0 .. N - 1, k \in S PROVE k + 1 \in S
  <2> DEFINE A == TP!Number(d, k)  P == TP!pow3(k)  r == rest[k]  q == Third(r)  c == LastTrit(r)
  <2>1. k \in TP!Widths /\ k \in 0 .. 19 /\ k + 1 \in 0 .. N /\ k \in 0 .. N
    BY <1>1 DEF TP!Widths
  <2>2. TP!AreTrits(d, k + 1)
    BY <1>1, <1>5 DEF TP!AreTrits
  <2>3. A \in Int /\ TP!Number(d, k + 1) = A + d[k] * P
    BY <2>1, <2>2, TP!NumberStep
  <2>4. P \in Nat /\ TP!pow3(k + 1) = 3 * P
    BY <2>1, TP!Pow3Nat, TP!Pow3Next
  <2>5. rest[k + 1] = q /\ d[k] = c
    BY <1>1, <1>5 DEF Rests
  <2>6. r \in Int /\ q \in Int /\ c \in Int /\ r = 3 * q + c
    BY <1>2, <2>1, ThirdFacts DEF Trit
  <2>7. n = A + r * P
    BY <1>7
  <2> HIDE DEF A, P, r, q, c
  <2>8. c * P \in Int /\ q * P \in Int
    BY <2>4, <2>6
  <2>9. r * P = 3 * (q * P) + c * P
    BY <2>4, <2>6
  <2>10. q * (3 * P) = 3 * (q * P)
    BY <2>4, <2>6
  <2>11. n = (A + c * P) + q * (3 * P)
    BY <2>3, <2>7, <2>8, <2>9, <2>10
  <2>12. A + c * P \in Int
    BY <2>3, <2>8
  <2> QED
    BY <2>1, <2>3, <2>4, <2>5, <2>11, <2>12
<1>8. TP!Number(d, N) = n
  <2> HIDE DEF S
  <2>1. N \in S
    BY <1>1, <1>6, <1>7, Induction
  <2>2. rest[N] = 0 /\ TP!pow3(N) \in Nat
    BY <1>1, TP!Pow3Nat DEF Length
  <2> QED
    BY <2>1, <2>2 DEF S
<1> QED
  BY <1>8, ValueIsNumber DEF d, w

LEMMA ValueRange ==
    ASSUME NEW t PROVE Value(t) \in Int /\ Value(t) \in -T!MaxWord(N) .. T!MaxWord(N)
<1>1. N \in 0 .. 19 /\ TP!AreTrits(TritsOf(t), N)
  BY WidthOfWord, TritsAreDigits
<1> QED
  BY <1>1, TP!NumberType, ValueIsNumber, SameOperators

(* A number with half a unit more or less becomes the nearest word, away   *)
(* from zero when there are two, and numbers beyond the range the words at *)
(* its ends, the upper of which is one below the largest word.             *)
THEOREM ConversionRounds == Spec => []ConversionIsRounding
<1>1. ASSUME NEW v \in -T!MaxWord(N) .. T!MaxWord(N), NEW half \in -1 .. 1
      PROVE  LET twice   == 2 * v + half
                 rounded == IF half = 0 THEN twice ELSE twice + T!sgn_trs(twice)
             IN  /\ twice \in Int
                 /\ 2 * Clamp(Round(twice)) =
                      IF rounded >= 2 * T!MaxWord(N) THEN 2 * T!MaxWord(N) - 2
                      ELSE IF rounded < -2 * T!MaxWord(N) THEN -2 * T!MaxWord(N)
                      ELSE rounded
  <2> DEFINE M == T!MaxWord(N)  twice == 2 * v + half
             rounded == IF half = 0 THEN twice ELSE twice + T!sgn_trs(twice)
  <2>1. M \in Nat
    BY SameOperators, TP!Pow3, WidthOfWord
  <2>2. v \in -M .. M
    OBVIOUS
  <2> HIDE DEF M
  <2>3. twice \in Int /\ Round(twice) \in Int /\ rounded = 2 * Round(twice)
    BY <2>1, <2>2 DEF Round, T!sgn_trs
  <2> HIDE DEF twice, rounded
  <2>4. Clamp(Round(twice)) = IF Round(twice) > M - 1 THEN M - 1
                              ELSE IF Round(twice) < -M THEN -M ELSE Round(twice)
    BY DEF Clamp, M
  <2>5. 2 * Clamp(Round(twice)) = IF rounded >= 2 * M THEN 2 * M - 2
                                  ELSE IF rounded < -2 * M THEN -2 * M ELSE rounded
    BY <2>1, <2>3, <2>4
  <2> QED
    BY <2>3, <2>5 DEF M, twice, rounded
<1>2. ASSUME NEW twice \in Int PROVE Value(d10_to_t3(twice)) = Clamp(Round(twice))
  <2>1. PICK rest, len : /\ Rests(rest, Clamp(Round(twice))) /\ Length(rest, len)
                         /\ d10_to_t3(twice) = Converted(rest, len)
    BY ConversionRuns
  <2> QED
    BY <2>1, ConvertedValue
<1>3. ConversionIsRounding
  <2> SUFFICES ASSUME NEW half \in -1 .. 1
               PROVE  LET twice   == 2 * Value(ta) + half
                          rounded == IF half = 0 THEN twice ELSE twice + T!sgn_trs(twice)
                      IN  2 * Value(d10_to_t3(twice)) =
                            IF rounded >= 2 * T!MaxWord(N) THEN 2 * T!MaxWord(N) - 2
                            ELSE IF rounded < -2 * T!MaxWord(N) THEN -2 * T!MaxWord(N)
                            ELSE rounded
    BY DEF ConversionIsRounding
  <2>1. Value(ta) \in -T!MaxWord(N) .. T!MaxWord(N)
    BY ValueRange
  <2> QED
    BY <1>1, <1>2, <2>1
<1> QED
  BY <1>3, PTL

(***************************************************************************)
(* Words of any length.                                                    *)
(***************************************************************************)
WordOf(l) == UNION {[l : {l}, t1 : SUBSET t0, t0 : {t0}] : t0 \in SUBSET (0 .. l - 1)}

LEMMA WordOfIs ==
    ASSUME NEW l
    PROVE  /\ \A A, B : A \subseteq B /\ B \subseteq 0 .. l - 1
                   => [l |-> l, t1 |-> A, t0 |-> B] \in WordOf(l)
           /\ \A t \in WordOf(l) : /\ t.l = l /\ t.t1 \subseteq t.t0 /\ t.t0 \subseteq 0 .. l - 1
                                   /\ t = [l |-> l, t1 |-> t.t1, t0 |-> t.t0]
<1>1. ASSUME NEW A, NEW B, A \subseteq B, B \subseteq 0 .. l - 1
      PROVE  [l |-> l, t1 |-> A, t0 |-> B] \in WordOf(l)
  <2>1. [l |-> l, t1 |-> A, t0 |-> B] \in [l : {l}, t1 : SUBSET B, t0 : {B}]
    BY <1>1
  <2> QED
    BY <1>1, <2>1 DEF WordOf
<1>2. ASSUME NEW t \in WordOf(l)
      PROVE  /\ t.l = l /\ t.t1 \subseteq t.t0 /\ t.t0 \subseteq 0 .. l - 1
             /\ t = [l |-> l, t1 |-> t.t1, t0 |-> t.t0]
  <2>1. PICK B \in SUBSET (0 .. l - 1) : t \in [l : {l}, t1 : SUBSET B, t0 : {B}]
    BY DEF WordOf
  <2> QED
    BY <2>1
<1> QED
  BY <1>1, <1>2

LEMMA SameWords ==
    ASSUME NEW l, NEW s \in WordOf(l), NEW t \in WordOf(l),
           \A i \in 0 .. l - 1 : get_trit(s, i) = get_trit(t, i)
    PROVE  s = t
<1>1. s.t0 = t.t0
  <2>1. \A i \in 0 .. l - 1 : i \in s.t0 <=> i \in t.t0
    BY DEF get_trit
  <2>2. s.t0 \subseteq 0 .. l - 1 /\ t.t0 \subseteq 0 .. l - 1
    BY WordOfIs
  <2> QED
    BY <2>1, <2>2
<1>2. s.t1 = t.t1
  <2>1. \A i \in 0 .. l - 1 : i \in s.t0 => (i \in s.t1 <=> i \in t.t1)
    BY <1>1 DEF get_trit
  <2>2. s.t1 \subseteq s.t0 /\ t.t1 \subseteq s.t0 /\ s.t0 \subseteq 0 .. l - 1
    BY <1>1, WordOfIs
  <2> QED
    BY <2>1, <2>2
<1>3. /\ s = [l |-> l, t1 |-> s.t1, t0 |-> s.t0]
      /\ t = [l |-> l, t1 |-> t.t1, t0 |-> t.t0]
  BY WordOfIs
<1> QED
  BY <1>1, <1>2, <1>3

LEMMA FromTritsIsWord ==
    ASSUME NEW l, NEW f, DOMAIN f = 0 .. l - 1, \A i \in 0 .. l - 1 : f[i] \in Trit
    PROVE  /\ FromTrits(l, f) \in WordOf(l)
           /\ \A i \in 0 .. l - 1 : get_trit(FromTrits(l, f), i) = f[i]
<1> DEFINE A == {i \in DOMAIN f : f[i] > 0}  B == {i \in DOMAIN f : f[i] # 0}
<1>1. A \subseteq B /\ B \subseteq 0 .. l - 1
  BY DEF Trit
<1>2. FromTrits(l, f) = [l |-> l, t1 |-> A, t0 |-> B]
  BY DEF FromTrits
<1> HIDE DEF A, B
<1>3. [l |-> l, t1 |-> A, t0 |-> B] \in WordOf(l)
  BY <1>1, WordOfIs
<1>4. \A i \in 0 .. l - 1 : get_trit(FromTrits(l, f), i) = f[i]
  BY FromTritsGet
<1> QED
  BY <1>2, <1>3, <1>4

LEMMA ShortToFacts ==
    ASSUME NEW x \in PlaneWord, NEW l \in 1 .. N
    PROVE  /\ ShortTo(x, l) \in WordOf(l)
           /\ \A i \in Nat : get_trit(ShortTo(x, l), i) = IF i < l THEN get_trit(x, i) ELSE 0
<1> DEFINE A == x.t1 \cap 0 .. l - 1  B == x.t0 \cap 0 .. l - 1  s == ShortTo(x, l)
<1>1. x = [l |-> N, t1 |-> x.t1, t0 |-> x.t0] /\ x.t1 \subseteq x.t0
  BY PlaneWordIs
<1>2. Masked([l |-> N, t1 |-> x.t1, t0 |-> x.t0], l) = [l |-> N, t1 |-> A, t0 |-> B]
  BY MaskedIs
<1>3. A \subseteq B /\ B \subseteq 0 .. l - 1
  BY <1>1
<1>4. \A i \in Nat : /\ i \in A <=> i \in x.t1 /\ i < l
                     /\ i \in B <=> i \in x.t0 /\ i < l
  BY WidthOfWord
<1> HIDE DEF A, B
<1>5. [[l |-> N, t1 |-> A, t0 |-> B] EXCEPT !.l = l] = [l |-> l, t1 |-> A, t0 |-> B]
  OBVIOUS
<1>6. s = [l |-> l, t1 |-> A, t0 |-> B]
  BY <1>1, <1>2, <1>5 DEF ShortTo
<1>7. s.t1 = A /\ s.t0 = B
  BY <1>6
<1>8. s \in WordOf(l)
  BY <1>3, <1>6, WordOfIs
<1> HIDE DEF s
<1>9. \A i \in Nat : get_trit(s, i) = IF i < l THEN get_trit(x, i) ELSE 0
  BY <1>4, <1>7 DEF get_trit
<1> QED
  BY <1>8, <1>9 DEF s

(***************************************************************************)
(* Signs.                                                                  *)
(***************************************************************************)
LEMMA SignOfTrit ==
    ASSUME NEW v \in Trit
    PROVE  numb2symtrs(v) \in {"-", "0", "+"} /\ symtrs2numb(numb2symtrs(v)) = v
  BY DEF Trit, numb2symtrs, symtrs2numb

LEMMA SignsFacts ==
    ASSUME NEW l \in Nat, NEW t, t.l = l
    PROVE  /\ valid_smtr(Signs(t))
           /\ smtr(Signs(t)) \in WordOf(l)
           /\ \A i \in 0 .. l - 1 : get_trit(smtr(Signs(t)), i) = get_trit(t, i)
<1> DEFINE s == Signs(t)
           f == [i \in 0 .. l - 1 |-> symtrs2numb(s[l - i])]
<1>1. Len(s) = l /\ \A k \in 1 .. l : s[k] = numb2symtrs(get_trit(t, l - k))
  BY DEF Signs
<1> HIDE DEF s
<1>2. valid_smtr(s)
  BY <1>1, SignOfTrit, GetTritType DEF valid_smtr
<1>3. smtr(s) = FromTrits(l, f)
  BY <1>1 DEF smtr
<1>4. ASSUME NEW i \in 0 .. l - 1 PROVE f[i] = get_trit(t, i) /\ f[i] \in Trit
  <2>1. l - i \in 1 .. l /\ l - (l - i) = i
    OBVIOUS
  <2> QED
    BY <1>1, <2>1, SignOfTrit, GetTritType
<1>5. DOMAIN f = 0 .. l - 1
  OBVIOUS
<1> HIDE DEF f
<1>6. /\ smtr(s) \in WordOf(l)
      /\ \A i \in 0 .. l - 1 : get_trit(smtr(s), i) = f[i]
  BY <1>3, <1>4, <1>5, FromTritsIsWord
<1> QED
  BY <1>2, <1>4, <1>6 DEF s

LEMMA CopyTrsFacts ==
    ASSUME NEW x \in PlaneWord, NEW m \in 1 .. N, NEW l \in 1 .. N
    PROVE  LET r == copy_trs(ShortTo(x, m), l)
           IN  /\ r.l = l /\ r.t0 \subseteq 0 .. l - 1
               /\ \A i \in Nat : get_trit(r, i) = IF i < l THEN get_trit(ShortTo(x, m), i) ELSE 0
               /\ r = [l |-> l, t1 |-> r.t1, t0 |-> r.t0]
<1> DEFINE s == ShortTo(x, m)  r == copy_trs(s, l)
           B == IF m = l THEN s.t0 ELSE s.t0 \cap 0 .. Min2(m, l) - 1
<1>1. /\ s \in WordOf(m) /\ s.l = m /\ s.t1 \subseteq s.t0 /\ s.t0 \subseteq 0 .. m - 1
  BY ShortToFacts, WordOfIs
<1> HIDE DEF s
<1>2. m \in Nat /\ l \in Nat
  BY WidthOfWord
<1>3. B \subseteq 0 .. l - 1 /\ \A i \in Nat : i \in B <=> i \in s.t0 /\ i < l
  BY <1>1, <1>2 DEF Min2
<1> HIDE DEF B
<1>4. r = [l |-> l, t1 |-> s.t1, t0 |-> B]
  BY <1>1 DEF copy_trs, B
<1>5. r.l = l /\ r.t1 = s.t1 /\ r.t0 = B
  BY <1>4
<1> HIDE DEF r
<1>6. \A i \in Nat : get_trit(r, i) = IF i < l THEN get_trit(s, i) ELSE 0
  BY <1>3, <1>5 DEF get_trit
<1> QED
  BY <1>3, <1>4, <1>5, <1>6 DEF r, s

(* Adding zero leaves the trits of a word and masks what is not one.       *)
LEMMA PlusZero ==
    ASSUME NEW l \in Nat, NEW r, r = [l |-> l, t1 |-> r.t1, t0 |-> r.t0]
    PROVE  /\ add_trs(r, Zero(l)) \in WordOf(l)
           /\ \A i \in 0 .. l - 1 : get_trit(add_trs(r, Zero(l)), i) = get_trit(r, i)
<1> DEFINE a == Masked(r, l)  b == Masked(Zero(l), l)  s == SumLoop(a, b, 1, l)
<1>1. a = [l |-> l, t1 |-> r.t1 \cap 0 .. l - 1, t0 |-> r.t0 \cap 0 .. l - 1]
  <2> DEFINE A == r.t1  B == r.t0
  <2>1. r = [l |-> l, t1 |-> A, t0 |-> B]
    OBVIOUS
  <2> HIDE DEF A, B
  <2>2. Masked([l |-> l, t1 |-> A, t0 |-> B], l)
          = [l |-> l, t1 |-> A \cap 0 .. l - 1, t0 |-> B \cap 0 .. l - 1]
    BY MaskedIs
  <2> QED
    BY <2>1, <2>2 DEF A, B
<1>2. b = [l |-> l, t1 |-> {} \cap 0 .. l - 1, t0 |-> {} \cap 0 .. l - 1]
  BY MaskedIs DEF Zero
<1>3. add_trs(r, Zero(l)) = s
  <2>1. r.l = l /\ Zero(l).l = l /\ Max2(l, l) = l
    BY DEF Zero, Max2
  <2> QED
    BY <2>1 DEF add_trs
<1>4. \A i \in 0 .. l - 1 : get_trit(a, i) = get_trit(r, i) /\ get_trit(b, i) = 0
  <2>1. a.t1 = r.t1 \cap 0 .. l - 1 /\ a.t0 = r.t0 \cap 0 .. l - 1 /\ b.t0 = {}
    BY <1>1, <1>2
  <2> HIDE DEF a, b
  <2> QED
    BY <2>1 DEF get_trit
<1> HIDE DEF a, b
<1>5. /\ s = [l |-> l, t1 |-> s.t1, t0 |-> s.t0] /\ s.t1 \subseteq s.t0 /\ s.t0 \subseteq 0 .. l - 1
      /\ \E c : Carries(c, a, b, 1, l)
  BY SumLoopTrits
<1>6. PICK c : Carries(c, a, b, 1, l)
  BY <1>5
<1> HIDE DEF s
<1>7. s \in WordOf(l)
  BY <1>5, WordOfIs
<1>8. \A i \in 0 .. l - 1 : get_trit(s, i) + 3 * c[i + 1] = get_trit(r, i) + c[i]
  <2> TAKE i \in 0 .. l - 1
  <2>1. get_trit(s, i) + 3 * c[i + 1] = get_trit(a, i) + 1 * get_trit(b, i) + c[i]
    BY <1>6 DEF Carries, s
  <2>2. get_trit(a, i) = get_trit(r, i) /\ get_trit(b, i) = 0 /\ get_trit(r, i) \in -1 .. 1
    BY <1>4, GetTritType DEF Trit
  <2> QED
    BY <2>1, <2>2
<1>9. c[0] = 0 /\ \A i \in 0 .. l : c[i] \in -1 .. 1
  BY <1>6 DEF Carries, Trit
<1>10. \A i : get_trit(s, i) \in -1 .. 1 /\ get_trit(r, i) \in -1 .. 1
  BY GetTritType DEF Trit
<1> DEFINE S == {i \in 0 .. l : c[i] = 0}
<1>11. 0 .. l \subseteq S
  <2>1. 0 \in S
    BY <1>9
  <2>2. \A i \in 0 .. l - 1 : i \in S => i + 1 \in S
    <3> TAKE i \in 0 .. l - 1
    <3>1. i + 1 \in 0 .. l /\ c[i + 1] \in -1 .. 1
      BY <1>9
    <3>2. get_trit(s, i) + 3 * c[i + 1] = get_trit(r, i) + c[i]
      BY <1>8
    <3>3. c[i] = 0 => c[i + 1] = 0
      BY <1>10, <3>1, <3>2
    <3> QED
      BY <3>1, <3>3
  <2> HIDE DEF S
  <2> QED
    BY <2>1, <2>2, Induction
<1>12. \A i \in 0 .. l - 1 : get_trit(s, i) = get_trit(r, i)
  <2> TAKE i \in 0 .. l - 1
  <2>1. i \in 0 .. l /\ i + 1 \in 0 .. l
    OBVIOUS
  <2>2. c[i] = 0 /\ c[i + 1] = 0
    BY <1>11, <2>1
  <2>3. get_trit(s, i) + 3 * c[i + 1] = get_trit(r, i) + c[i]
    BY <1>8
  <2> QED
    BY <1>10, <2>2, <2>3
<1> QED
  BY <1>3, <1>7, <1>12

LEMMA CopyTrsValue ==
    ASSUME NEW x \in PlaneWord, NEW m \in 1 .. N, NEW l \in 1 .. N
    PROVE  Value(copy_trs(ShortTo(x, m), l)) = T!mod_3_n(Value(ShortTo(x, m)), l)
<1> DEFINE s == ShortTo(x, m)  r == copy_trs(s, l)  f == TritsOf(s)  g == TritsOf(r)
<1>1. N \in 0 .. 19 /\ l \in 0 .. N /\ l \in TP!Widths /\ l \in 0 .. 19 /\ l <= N
  BY WidthOfWord DEF TP!Widths
<1>2. TP!AreTrits(f, N) /\ TP!AreTrits(g, N)
  BY WidthOfWord, TritsAreDigits
<1>3. \A i \in Nat : get_trit(r, i) = IF i < l THEN get_trit(s, i) ELSE 0
  BY CopyTrsFacts
<1> HIDE DEF r, s
<1>4. \A i \in 0 .. l - 1 : g[i] = f[i]
  BY <1>1, <1>3 DEF TritsOf
<1>5. \A i \in l .. N - 1 : g[i] = 0
  BY <1>1, <1>3 DEF TritsOf
<1> HIDE DEF f, g
<1>6. TP!Number(g, N) = TP!Number(g, l)
  BY <1>1, <1>2, <1>5, TP!NumberOfLow
<1>7. TP!Number(g, l) = TP!Number(f, l)
  BY <1>1, <1>4, TP!NumberSame
<1>8. TP!mod_3_n(TP!Number(f, N), l) = TP!Number(f, l)
  BY <1>1, <1>2, TP!NumberLow
<1> QED
  BY <1>6, <1>7, <1>8, ValueIsNumber, SameOperators DEF f, g, r, s

(* A register takes the last trits of a word of any length, and the plane  *)
(* the program does not mask is not seen: the sum with zero, the sign and  *)
(* what is printed and typed again are those of the number it holds.       *)
THEOREM RegistersTakeLowTrits == Spec => []RegisterTakesLowTrits
<1>1. ASSUME NEW x \in PlaneWord, NEW l \in 1 .. N, NEW m \in 1 .. N
      PROVE  LET r == copy_trs(ShortTo(x, m), l)
             IN  /\ Value(r) = T!mod_3_n(Value(ShortTo(x, m)), l)
                 /\ add_trs(r, Zero(l)) = smtr(Signs(r))
                 /\ sgn_trs(r) = T!sgn_trs(Value(r))
  <2> DEFINE r == copy_trs(ShortTo(x, m), l)
  <2>1. Value(r) = T!mod_3_n(Value(ShortTo(x, m)), l)
    BY CopyTrsValue
  <2>2. /\ r.l = l /\ r.t0 \subseteq 0 .. l - 1 /\ r = [l |-> l, t1 |-> r.t1, t0 |-> r.t0]
        /\ \A i \in Nat : get_trit(r, i) = IF i < l THEN get_trit(ShortTo(x, m), i) ELSE 0
    BY CopyTrsFacts
  <2>3. l \in Nat /\ l \in 0 .. N
    BY WidthOfWord
  <2> HIDE DEF r
  <2>4. add_trs(r, Zero(l)) = smtr(Signs(r))
    <3> DEFINE s == add_trs(r, Zero(l))  t == smtr(Signs(r))
    <3>1. s \in WordOf(l) /\ \A i \in 0 .. l - 1 : get_trit(s, i) = get_trit(r, i)
      BY <2>2, <2>3, PlusZero
    <3>2. t \in WordOf(l) /\ \A i \in 0 .. l - 1 : get_trit(t, i) = get_trit(r, i)
      BY <2>2, <2>3, SignsFacts
    <3> HIDE DEF s, t
    <3>3. s = t
      BY <3>1, <3>2, SameWords
    <3> QED
      BY <3>3 DEF s, t
  <2>5. r.t0 \subseteq Nat /\ \A i \in r.l .. N - 1 : get_trit(r, i) = 0
    <3>1. \A i \in l .. N - 1 : i \in Nat /\ ~(i < l)
      BY WidthOfWord
    <3> QED
      BY <2>2, <3>1
  <2>6. sgn_trs(r) = T!sgn_trs(Value(r))
    BY <2>2, <2>3, <2>5, SignFacts
  <2> QED
    BY <2>1, <2>4, <2>6 DEF r
<1>2. TypeOK => RegisterTakesLowTrits
  BY <1>1 DEF TypeOK, RegisterTakesLowTrits
<1> QED
  BY <1>2, TypeCorrect, PTL

(***************************************************************************)
(* Nonary digits.                                                          *)
(***************************************************************************)
LEMMA NonaryDigit ==
    ASSUME NEW a \in Trit, NEW b \in Trit
    PROVE  Upper(trit2lt(3 * a + b)) = a /\ Lower(trit2lt(3 * a + b)) = b
<1> DEFINE v == 3 * a + b  c == trit2lt(v)
<1>1. a \in {-1, 0, 1} /\ b \in {-1, 0, 1} /\ v \in -4 .. 4
  BY DEF Trit
<1> HIDE DEF v
<1>2. Code!lt2symtrs(c) = v
  <2>1. v \in {-4, -3, -2, -1, 0, 1, 2, 3, 4}
    BY <1>1
  <2> QED
    BY <1>1, <2>1 DEF trit2lt, NonaryDigits, Code!lt2symtrs
<1> HIDE DEF c
<1>3. Upper(c) = ((v + 4) \div 3) - 1 /\ Lower(c) = ((v + 4) % 3) - 1
  BY <1>2 DEF Upper, Lower
<1>4. ((v + 4) \div 3) - 1 = a /\ ((v + 4) % 3) - 1 = b
  BY <1>1 DEF v
<1> QED
  BY <1>3, <1>4 DEF c, v

LEMMA DigitsReadBack ==
    ASSUME NEW n \in Nat \ {0}, NEW l, l = 2 * n - 1, NEW t \in WordOf(l)
    PROVE  Len(trs2str(t)) = n /\ cmd_str_2_trs(trs2str(t)) = t
<1> DEFINE trit(i) == IF i < l THEN get_trit(t, i) ELSE 0
           s == trs2str(t)
           f == [i \in 0 .. l - 1 |-> IF i % 2 = 0 THEN Lower(s[n - (i \div 2)])
                                                   ELSE Upper(s[n - (i \div 2)])]
<1>1. t.l = l /\ (l + 1) \div 2 = n /\ l \in Nat
  BY WordOfIs
<1>2. s = [k \in 1 .. n |-> trit2lt(3 * trit(2 * (n - k) + 1) + trit(2 * (n - k)))]
  BY <1>1 DEF trs2str
<1>3. Len(s) = n /\ \A k \in 1 .. n : s[k] = trit2lt(3 * trit(2 * (n - k) + 1) + trit(2 * (n - k)))
  BY <1>2
<1>4. \A i : trit(i) \in Trit
  BY GetTritType DEF Trit
<1> HIDE DEF s, trit
<1>5. cmd_str_2_trs(s) = FromTrits(l, f)
  BY <1>3 DEF cmd_str_2_trs
<1>6. ASSUME NEW i \in 0 .. l - 1 PROVE f[i] = trit(i)
  <2> DEFINE k == n - (i \div 2)
  <2>1. k \in 1 .. n /\ n - k = i \div 2
    BY <1>1
  <2>2. f[i] = IF i % 2 = 0 THEN Lower(s[k]) ELSE Upper(s[k])
    OBVIOUS
  <2>3. IF i % 2 = 0 THEN 2 * (n - k) = i ELSE 2 * (n - k) + 1 = i
    BY <1>1, <2>1
  <2> HIDE DEF k
  <2>4. Lower(s[k]) = trit(2 * (n - k)) /\ Upper(s[k]) = trit(2 * (n - k) + 1)
    BY <1>3, <1>4, <2>1, NonaryDigit
  <2> QED
    BY <2>2, <2>3, <2>4
<1>7. \A i \in 0 .. l - 1 : f[i] = get_trit(t, i) /\ f[i] \in Trit
  <2> TAKE i \in 0 .. l - 1
  <2> HIDE DEF f
  <2>0. i < l
    BY <1>1
  <2>1. f[i] = trit(i)
    BY <1>6
  <2>2. trit(i) = get_trit(t, i)
    BY <2>0 DEF trit
  <2> QED
    BY <1>4, <2>1, <2>2
<1>8. DOMAIN f = 0 .. l - 1
  OBVIOUS
<1> HIDE DEF f
<1> DEFINE w == cmd_str_2_trs(s)
<1>9. /\ w \in WordOf(l)
      /\ \A i \in 0 .. l - 1 : get_trit(w, i) = get_trit(t, i)
  BY <1>5, <1>7, <1>8, FromTritsIsWord
<1> HIDE DEF w
<1>10. w = t
  BY <1>9, SameWords
<1> QED
  BY <1>3, <1>10 DEF s, w

(***************************************************************************)
(* The number and the fraction of a register.                              *)
(***************************************************************************)
LEMMA SumReversed ==
    ASSUME NEW n \in 1 .. 18, NEW f, NEW h,
           \A i \in 0 .. n - 1 : f[i] \in Int /\ h[i] = f[n - 1 - i]
    PROVE  TP!SumTo(h, n) = TP!SumTo(f, n)
<1> DEFINE F(k) == TP!SumTo(f, k)
           H(k) == TP!SumTo(h, k)
           S == {k \in 0 .. n : H(k) \in Int /\ H(k) = F(n) - F(n - k)}
<1>0. \A i \in 0 .. n - 1 : f[i] \in Int /\ h[i] \in Int /\ h[i] = f[n - 1 - i]
  <2> TAKE i \in 0 .. n - 1
  <2>1. n - 1 - i \in 0 .. n - 1
    OBVIOUS
  <2> QED
    BY <2>1
<1>1. \A k \in 0 .. n : F(k) \in Int
  <2> TAKE k \in 0 .. n
  <2>1. k \in TP!Widths /\ \A i \in 0 .. k - 1 : f[i] \in Int
    BY <1>0 DEF TP!Widths
  <2> QED
    BY <2>1, TP!SumType
<1>2. ASSUME NEW k \in 0 .. n - 1 PROVE F(k + 1) = F(k) + f[k] /\ H(k + 1) = H(k) + h[k]
  <2>1. k \in 0 .. 17 /\ \A i \in 0 .. k : f[i] \in Int /\ h[i] \in Int
    BY <1>0
  <2> QED
    BY <2>1, TP!SumStep
<1>3. H(0) = 0
  BY TP!SumZero
<1> HIDE DEF F, H
<1>4. 0 \in S
  <2>1. n - 0 = n /\ n \in 0 .. n /\ 0 \in 0 .. n
    OBVIOUS
  <2> QED
    BY <1>1, <1>3, <2>1
<1>5. \A k \in 0 .. n - 1 : k \in S => k + 1 \in S
  <2> TAKE k \in 0 .. n - 1
  <2> DEFINE j == n - (k + 1)
  <2>1. j \in 0 .. n - 1 /\ j + 1 = n - k /\ n - 1 - k = j /\ j \in 0 .. n /\ n \in 0 .. n
    OBVIOUS
  <2> HIDE DEF j
  <2>2. F(n - k) = F(j) + f[j]
    <3>1. F(j + 1) = F(j) + f[j]
      BY <1>2, <2>1
    <3> QED
      BY <2>1, <3>1
  <2>3. h[k] = f[j] /\ f[j] \in Int
    BY <1>0, <2>1
  <2>4. H(k + 1) = H(k) + h[k]
    BY <1>2
  <2>5. F(j) \in Int /\ F(n) \in Int
    BY <1>1, <2>1
  <2>6. ASSUME H(k) \in Int, H(k) = F(n) - F(n - k)
        PROVE  H(k + 1) \in Int /\ H(k + 1) = F(n) - F(j)
    BY <2>2, <2>3, <2>4, <2>5, <2>6
  <2> QED
    BY <2>6 DEF j
<1>6. n \in S
  <2> HIDE DEF S
  <2> QED
    BY <1>4, <1>5, Induction
<1>7. F(n - n) = 0
  <2>1. n - n = 0
    OBVIOUS
  <2> QED
    BY <2>1, TP!SumZero DEF F
<1>8. F(n) \in Int
  BY <1>1
<1> QED
  BY <1>6, <1>7, <1>8 DEF F, H

LEMMA FractionFacts ==
    ASSUME NEW l \in 1 .. N, NEW t, t.l = l, \A i \in l .. N - 1 : get_trit(t, i) = 0
    PROVE  Value(t) * T!pow3(N - l) = t3_to_d10(t)
<1> DEFINE m == N - l
           h == [i \in 0 .. N - 1 |-> get_trit_setun(t, i + 1) * T!pow3(N - 1 - i)]
           d == [i \in Nat |-> IF i < m THEN 0 ELSE get_trit(t, i - m)]
           f == TP!Weighted(d, N)
<1>1. /\ N \in 1 .. 18 /\ N \in 0 .. 19 /\ l \in 0 .. 19 /\ l \in 0 .. N /\ m \in 0 .. N
      /\ N - m = l /\ m \in 0 .. 19 /\ N \in TP!Widths /\ l \in Nat
  BY WidthOfWord DEF TP!Widths
<1>2. t3_to_d10(t) = TP!SumTo(h, N)
  BY SameSums DEF t3_to_d10
<1>3. TP!AreTrits(d, N)
  <2>1. \A i : get_trit(t, i) \in -1 .. 1
    BY GetTritType DEF Trit
  <2> QED
    BY <1>1, <2>1 DEF TP!AreTrits
<1>4. \A i \in 0 .. N - 1 : f[i] = d[i] * TP!pow3(i) /\ f[i] \in Int
  <2> HIDE DEF d
  <2> QED
    BY <1>1, <1>3, TP!WeightedInt
<1>5. ASSUME NEW i \in 0 .. N - 1 PROVE h[i] = f[N - 1 - i]
  <2> DEFINE j == N - 1 - i
  <2>1. j \in 0 .. N - 1 /\ j \in Nat
    BY <1>1
  <2>2. f[j] = d[j] * TP!pow3(j)
    BY <1>4, <2>1
  <2>3. h[i] = get_trit_setun(t, i + 1) * TP!pow3(j)
    BY SameOperators
  <2>4. get_trit_setun(t, i + 1) = IF i + 1 > l THEN 0 ELSE get_trit(t, l - (i + 1))
    BY <1>1 DEF get_trit_setun
  <2>5. d[j] = IF j < m THEN 0 ELSE get_trit(t, j - m)
    BY <2>1
  <2>6. (i + 1 > l <=> j < m) /\ l - (i + 1) = j - m
    BY <1>1
  <2>7. get_trit_setun(t, i + 1) = d[j]
    BY <2>4, <2>5, <2>6
  <2> HIDE DEF d, f, h
  <2> QED
    BY <2>2, <2>3, <2>7 DEF j
<1> HIDE DEF h, f
<1>6. TP!SumTo(h, N) = TP!SumTo(f, N)
  BY <1>1, <1>4, <1>5, SumReversed
<1>7. TP!SumTo(f, N) = TP!Number(d, N)
  BY <1>1 DEF TP!Number, f
<1>8. \A i \in 0 .. m - 1 : d[i] = 0
  BY <1>1
<1>9. \A i \in 0 .. l - 1 : TP!TritsFrom(d, m)[i] = TritsOf(t)[i]
  <2> TAKE i \in 0 .. l - 1
  <2>1. i \in Nat /\ i + m \in Nat /\ m + i = i + m /\ ~(i + m < m) /\ (i + m) - m = i
    BY <1>1
  <2>2. TP!TritsFrom(d, m)[i] = d[i + m]
    BY <2>1 DEF TP!TritsFrom
  <2> QED
    BY <2>1, <2>2 DEF TritsOf
<1> HIDE DEF d
<1>10. TP!Number(d, N) = TP!Number(TP!TritsFrom(d, m), l) * TP!pow3(m)
  <2> HIDE DEF m
  <2> QED
    BY <1>1, <1>3, <1>8, TP!NumberOfHigh
<1>11. TP!Number(TP!TritsFrom(d, m), l) = TP!Number(TritsOf(t), l)
  <2> HIDE DEF m
  <2> QED
    BY <1>1, <1>9, TP!NumberSame
<1>12. TP!Number(TritsOf(t), N) = TP!Number(TritsOf(t), l)
  <2>1. TP!AreTrits(TritsOf(t), N) /\ \A i \in l .. N - 1 : TritsOf(t)[i] = 0
    BY <1>1, TritsAreDigits DEF TritsOf
  <2> QED
    BY <1>1, <2>1, TP!NumberOfLow
<1> QED
  BY <1>2, <1>6, <1>7, <1>10, <1>11, <1>12, ValueIsNumber, SameOperators DEF m

(* The signs and the nonary digits printed of a register of any length are *)
(* read back as the same word, an address as the same address, and the     *)
(* number and the fraction printed after them denote that word.            *)
THEOREM PrintedReadsBack == Spec => []WhatIsPrintedReadsBack
<1>1. ASSUME NEW x \in PlaneWord, NEW l \in 1 .. N
      PROVE  LET t       == ShortTo(x, l)
                 printed == view_short_reg_fixpoint(t)
             IN  /\ valid_smtr(printed.signs) /\ smtr(printed.signs) = t
                 /\ l % 2 = 1 => cmd_str_2_trs(printed.digits) = t
                 /\ printed.number * T!pow3(N - l) = printed.fraction
                 /\ printed.number = Value(smtr(printed.signs))
  <2> DEFINE t == ShortTo(x, l)  printed == view_short_reg_fixpoint(t)
  <2>1. l \in Nat /\ l >= 1
    BY WidthOfWord
  <2>2. t \in WordOf(l) /\ t.l = l /\ \A i \in l .. N - 1 : get_trit(t, i) = 0
    <3>1. \A i \in l .. N - 1 : i \in Nat /\ ~(i < l)
      BY WidthOfWord
    <3> QED
      BY <3>1, ShortToFacts, WordOfIs
  <2>3. /\ printed.signs = Signs(t) /\ printed.digits = trs2str(t)
        /\ printed.number = Value(t) /\ printed.fraction = t3_to_d10(t)
    BY DEF view_short_reg_fixpoint
  <2> HIDE DEF t, printed
  <2>4. valid_smtr(Signs(t)) /\ smtr(Signs(t)) = t
    <3>1. /\ valid_smtr(Signs(t)) /\ smtr(Signs(t)) \in WordOf(l)
          /\ \A i \in 0 .. l - 1 : get_trit(smtr(Signs(t)), i) = get_trit(t, i)
      BY <2>1, <2>2, SignsFacts
    <3> QED
      BY <2>2, <3>1, SameWords
  <2>5. ASSUME l % 2 = 1 PROVE cmd_str_2_trs(trs2str(t)) = t
    <3> DEFINE n == (l + 1) \div 2
    <3>1. n \in Nat \ {0} /\ l = 2 * n - 1
      BY <2>1, <2>5
    <3> HIDE DEF n
    <3> QED
      BY <2>2, <3>1, DigitsReadBack
  <2>6. Value(t) * T!pow3(N - l) = t3_to_d10(t)
    BY <2>2, FractionFacts
  <2> QED
    BY <2>3, <2>4, <2>5, <2>6 DEF t, printed
<1>2. ASSUME NEW x, NEW y
      PROVE  LET address == AddressOf(x, y)
             IN  regC_str_2_trs(trs2str(address)) = [address EXCEPT !.l = 6]
  <2> DEFINE f == [i \in 0 .. 4 |-> IF i < 4 THEN get_trit(x, i) ELSE get_trit(y, 0)]
             address == AddressOf(x, y)
  <2>1. DOMAIN f = 0 .. 5 - 1 /\ \A i \in 0 .. 5 - 1 : f[i] \in Trit
    BY GetTritType
  <2>2. address = FromTrits(5, f)
    BY DEF AddressOf
  <2> HIDE DEF f
  <2>3. FromTrits(5, f) \in WordOf(5)
    BY <2>1, FromTritsIsWord
  <2>4. 3 \in Nat \ {0} /\ 5 = 2 * 3 - 1 /\ address \in WordOf(5)
    BY <2>2, <2>3
  <2> HIDE DEF address
  <2>5. Len(trs2str(address)) = 3 /\ cmd_str_2_trs(trs2str(address)) = address
    BY <2>4, DigitsReadBack
  <2> QED
    BY <2>5 DEF regC_str_2_trs, address
<1>3. TypeOK => WhatIsPrintedReadsBack
  BY <1>1, <1>2 DEF TypeOK, WhatIsPrintedReadsBack
<1> QED
  BY <1>3, TypeCorrect, PTL
=============================================================================
