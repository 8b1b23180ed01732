------------------------------ MODULE Ternary ------------------------------
(***************************************************************************)
(* Arithmetic of the balanced ternary words of the Setun-1958 emulator.    *)
(*                                                                         *)
(* The program keeps a word of n trits as two bit planes (trs_t: t0 marks  *)
(* the trits that are not zero, t1 those that are positive).  Here a word  *)
(* is the integer the planes denote, in -MaxWord(n)..MaxWord(n); module    *)
(* TritPlanes relates the two forms.  Operators keep the names of the C    *)
(* functions; where the C function reads the length of a word from the     *)
(* word itself (t.l) the operator has a parameter n or l for it.           *)
(*                                                                         *)
(* Positions of trits are those of the source: 1 is the most significant   *)
(* trit of the word, l the least significant one.                          *)
(***************************************************************************)
EXTENDS Integers

POW3_TABLE == << 1, 3, 9, 27, 81, 243, 729, 2187, 6561, 19683,
                 59049, 177147, 531441, 1594323, 4782969, 14348907,
                 43046721, 129140163, 387420489, 1162261467 >>

pow3(x) == IF x \in 0..19 THEN POW3_TABLE[x + 1] ELSE 0

\* TRITn_MAX of the source, and the words of n trits.
MaxWord(n) == (pow3(n) - 1) \div 2
Word(n)    == -MaxWord(n) .. MaxWord(n)

\* Keep the n least significant trits.
mod_3_n(v, n) == ((v + MaxWord(n)) % pow3(n)) - MaxWord(n)

sgn_trs(v) == IF v > 0 THEN 1 ELSE IF v < 0 THEN -1 ELSE 0

(***************************************************************************)
(* Shifts.  A trs_t plane has TRS_WIDTH bits; a count of TRS_WIDTH or more *)
(* is undefined in C, and the shift instruction the build uses takes the   *)
(* count modulo TRS_WIDTH.  shift_trs is the shift of a word of n trits    *)
(* followed by the mask to n trits that every caller applies.              *)
(***************************************************************************)
TRS_WIDTH == 32

ShiftLeft(v, n, d)  == IF d < n THEN mod_3_n(v, n - d) * pow3(d) ELSE 0
ShiftRight(v, n, d) == IF d < n THEN (v - mod_3_n(v, d)) \div pow3(d) ELSE 0

shift_trs(v, n, d) == IF d >= 0 THEN ShiftLeft(v, n, d % TRS_WIDTH)
                                ELSE ShiftRight(v, n, (-d) % TRS_WIDTH)

\* Trits p1..p2 of a word of l trits; a bad range returns the word itself.
slice_trs_setun(v, l, p1, p2) ==
    IF p1 > p2 \/ p1 < 1 \/ p2 > l
    THEN v
    ELSE mod_3_n(ShiftRight(v, l, l - p2), p2 - p1 + 1)

get_trit_setun(v, l, pos) ==
    IF pos \in 1..l THEN slice_trs_setun(v, l, pos, pos) ELSE 0

(***************************************************************************)
(* Sum and difference of words of n trits.  The carry out of the last trit *)
(* is dropped: the code hands it to set_trit_setun(ph1, ...), which works  *)
(* on a copy, so the overflow registers ph1 and ph2 keep the value 0.      *)
(***************************************************************************)
add_trs(x, y, n) == mod_3_n(x + y, n)
sub_trs(x, y, n) == mod_3_n(x - y, n)

inc_trs(v, n) == add_trs(v, 1, n)
dec_trs(v, n) == add_trs(v, -1, n)

\* Copy a word of ls trits to a register of ld trits, aligned on the
\* most significant trit.
copy_trs_setun(v, ls, ld) ==
    IF ls >= ld THEN ShiftRight(v, ls, ls - ld)
                ELSE ShiftLeft(v, ld, ld - ls)

(***************************************************************************)
(* f[0] + ... + f[n-1], for the n <= 18 trits of a word.                   *)
(***************************************************************************)
SumTo(f, n) ==
    LET t(i) == IF i < n THEN f[i] ELSE 0
    IN  t(0) + t(1) + t(2) + t(3) + t(4) + t(5) + t(6) + t(7) + t(8)
        + t(9) + t(10) + t(11) + t(12) + t(13) + t(14) + t(15) + t(16) + t(17)

\* Trit i of a word, counted as the bits are, from the least significant one.
Bit(v, i) == mod_3_n((v - mod_3_n(v, i)) \div pow3(i), 1)

\* Trit by trit product.
and_trs(x, y, n) ==
    SumTo([i \in 0..n-1 |-> Bit(x, i) * Bit(y, i) * pow3(i)], n)

(***************************************************************************)
(* Product of words of n trits as mul_trs computes it: for the trit i of b *)
(* the multiplicand is shifted RIGHT by i, and the n least significant     *)
(* trits of the sum are dropped at the end.                                *)
(***************************************************************************)
mul_trs(a, b, n) ==
    LET sum == SumTo([i \in 0..n-1 |-> Bit(b, i) * ShiftRight(a, n, i)], n)
    IN  (sum - mod_3_n(sum, n)) \div pow3(n)

(***************************************************************************)
(* cmp_trs takes the sign of the wrapped difference.                       *)
(***************************************************************************)
cmp_trs(a, b, n) == sgn_trs(sub_trs(a, b, n))
=============================================================================
