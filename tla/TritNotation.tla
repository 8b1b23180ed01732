---------------------------- MODULE TritNotation ----------------------------
(***************************************************************************)
(* Words of trits as people see them: the signs of the trits, the nonary   *)
(* digits, the decimal number; the functions that print a register and     *)
(* those that read one; and the functions of logic that no instruction     *)
(* uses.  They do not change a state of their own: the invariants apply    *)
(* them to all pairs of words of TritPlanes.                               *)
(***************************************************************************)
EXTENDS TritPlanes, Sequences

numb2symtrs(v) == IF v < 0 THEN "-" ELSE IF v > 0 THEN "+" ELSE "0"
symtrs2numb(c) == IF c = "-" THEN -1 ELSE IF c = "+" THEN 1 ELSE 0

\* The trits of a register as view_short_reg prints them.
Signs(t) == [i \in 1 .. t.l |-> numb2symtrs(get_trit(t, t.l - i))]

smtr(s) == FromTrits(Len(s), [i \in 0 .. Len(s) - 1 |-> symtrs2numb(s[Len(s) - i])])

valid_smtr(s) == \A i \in 1 .. Len(s) : s[i] \in {"-", "0", "+"}

NonaryDigits == << "W", "X", "Y", "Z", "0", "1", "2", "3", "4" >>

trit2lt(v) == IF v \in -4 .. 4 THEN NonaryDigits[v + 5] ELSE "0"

Code == INSTANCE TapeCode

\* The two trits of a nonary digit.
Upper(c) == ((Code!lt2symtrs(c) + 4) \div 3) - 1
Lower(c) == ((Code!lt2symtrs(c) + 4) % 3) - 1

\* Pairs of trits from the right; the first digit of an odd number of trits
\* stands for one.
trs2str_FromTheLeft(t) ==                       \* faulty
    [k \in 1 .. (t.l + 1) \div 2 |->
        trit2lt(3 * get_trit(t, t.l - 2 * k + 1)
                + IF 2 * k > t.l THEN 0 ELSE get_trit(t, t.l - 2 * k))]

trs2str(t) ==
    LET digits == (t.l + 1) \div 2
        trit(i) == IF i < t.l THEN get_trit(t, i) ELSE 0
    IN  [k \in 1 .. digits |->
            trit2lt(3 * trit(2 * (digits - k) + 1) + trit(2 * (digits - k)))]

\* A word of a source file: the first trit of the digits is lost.
cmd_str_2_trs(s) ==
    LET last == 2 * Len(s) - 1
        digit(i) == s[Len(s) - (i \div 2)]
    IN  FromTrits(last, [i \in 0 .. last - 1 |->
                            IF i % 2 = 0 THEN Lower(digit(i)) ELSE Upper(digit(i))])

\* An address in the script: three digits in six trits, the first of which
\* stays 0; anything else gives the address 0.
regC_str_2_trs(s) ==
    IF Len(s) # 3 THEN [l |-> 6, t1 |-> {}, t0 |-> {}]
    ELSE [cmd_str_2_trs(s) EXCEPT !.l = 6]

-----------------------------------------------------------------------------
(***************************************************************************)
(* Fixed point: the point is behind the second trit.  A real number f is   *)
(* represented here by 2f, t3_to_d10 gives 3^(N-2) times its number.       *)
(***************************************************************************)
t3_to_d10(t) ==
    T!SumTo([i \in 0 .. N - 1 |-> get_trit_setun(t, i + 1) * T!pow3(N - 1 - i)], N)

\* What is printed of a register: signs, nonary digits, number, fraction.
view_short_reg_fixpoint(t) ==
    [signs |-> Signs(t), digits |-> trs2str(t), number |-> Value(t),
     fraction |-> t3_to_d10(t)]

\* Rounded away from zero at one half, and clamped.
Round_Down(twice) == twice \div 2               \* faulty
Round(twice) == IF twice >= 0 THEN (twice + 1) \div 2 ELSE - ((1 - twice) \div 2)

Clamp(n) ==
    LET highest == T!MaxWord(N) - 1
        lowest  == - T!MaxWord(N)
    IN  IF n > highest THEN highest ELSE IF n < lowest THEN lowest ELSE n

d10_to_t3(twice) ==
    LET rest[i \in 0 .. N] ==
            IF i = 0 THEN Clamp(Round(twice))
            ELSE LET rem == rest[i - 1] % 3
                 IN  (rest[i - 1] - (IF rem = 2 THEN -1 ELSE rem)) \div 3
        len == CHOOSE l \in 1 .. N : /\ \A i \in l .. N : rest[i] = 0
                                     /\ l = 1 \/ rest[l - 1] # 0
    IN  FromTrits(len, [i \in 0 .. len - 1 |-> LET rem == rest[i] % 3
                                              IN  IF rem = 2 THEN -1 ELSE rem])

\* A typed word in a register of l trits: only its plane t0 is masked.
copy_trs_Whole(src, l) == [l |-> l, t1 |-> src.t1, t0 |-> src.t0]   \* faulty
copy_trs(src, l) ==
    [l |-> l, t1 |-> src.t1,
     t0 |-> IF src.l = l THEN src.t0 ELSE src.t0 \cap 0 .. Min2(src.l, l) - 1]

-----------------------------------------------------------------------------
(***************************************************************************)
(* Logic, trit by trit.                                                    *)
(***************************************************************************)
XOR_TABLE == << << -1, 0, 1 >>, << 0, 0, 0 >>, << 1, 0, -1 >> >>
OR_TABLE  == << << -1, 0, 1 >>, << -1, 0, 1 >>, << 1, 1, 1 >> >>

ByTable(table, x, y, n) ==
    FromTrits(Max2(x.l, y.l),
              [i \in 0 .. n - 1 |-> table[get_trit(x, i) + 2][get_trit(y, i) + 2]])

xor_trs(x, y) == ByTable(XOR_TABLE, x, y, Min2(x.l, y.l))
or_trs(x, y)  == ByTable(OR_TABLE, x, y, Max2(x.l, y.l))

xor_setun_trs_Positive(x, y) ==                 \* faulty: like signs give +
    LET both == x.t0 \cap y.t0
    IN  [l |-> Max2(x.l, y.l), t0 |-> both,
         t1 |-> {i \in both : i \in x.t1 <=> i \in y.t1}]

xor_setun_trs(x, y) ==
    LET both == {i \in x.t0 \cap y.t0 : i < Min2(x.l, y.l)}
    IN  [l |-> Max2(x.l, y.l), t0 |-> both,
         t1 |-> {i \in both : ~ (i \in x.t1 <=> i \in y.t1)}]

\* Every bit of both planes is inverted.
not_trs(x) == [x EXCEPT !.t1 = (0 .. x.l - 1) \ @, !.t0 = (0 .. x.l - 1) \ @]
neg_trs(t) == not_trs(t)

-----------------------------------------------------------------------------
ShortTo(t, l) == [Masked(t, l) EXCEPT !.l = l]

\* A word of five trits, the length of an address.
AddressOf(t, top) ==
    FromTrits(5, [i \in 0 .. 4 |-> IF i < 4 THEN get_trit(t, i) ELSE get_trit(top, 0)])

(* What the program prints of a register can be typed back: the signs are   *)
(* read by smtr (command reg), the nonary digits by cmd_str_2_trs (source   *)
(* files) and, of an address, by regC_str_2_trs (script.sst), for words of  *)
(* every length; and the number and the fraction printed after them are     *)
(* those they stand for (view_short_reg_fixpoint, trs2str).                 *)
WhatIsPrintedReadsBack ==
    /\ \A l \in 1 .. N :
        LET t       == ShortTo(ta, l)
            printed == view_short_reg_fixpoint(t)
        IN  /\ valid_smtr(printed.signs) /\ smtr(printed.signs) = t
            /\ l % 2 = 1 => cmd_str_2_trs(printed.digits) = t
            /\ printed.number * T!pow3(N - l) = printed.fraction
            /\ printed.number = Value(smtr(printed.signs))
    /\ LET address == AddressOf(ta, tb)
       IN  regC_str_2_trs(trs2str(address)) = [address EXCEPT !.l = 6]

(* Conversion to trits and back gives the number itself, a half rounded     *)
(* away from zero; numbers that do not fit give the word at the end of the  *)
(* range, which is one below the largest word (d10_to_t3).                  *)
ConversionIsRounding ==
    \A half \in -1 .. 1 :
        LET twice   == 2 * Value(ta) + half
            rounded == IF half = 0 THEN twice ELSE twice + T!sgn_trs(twice)
        IN  2 * Value(d10_to_t3(twice)) =
                IF rounded >= 2 * T!MaxWord(N) THEN 2 * T!MaxWord(N) - 2
                ELSE IF rounded < -2 * T!MaxWord(N) THEN -2 * T!MaxWord(N)
                ELSE rounded

(* A register takes the last trits of what is typed for it, however long,   *)
(* and every later use sees only those (copy_trs masks one plane only).     *)
RegisterTakesLowTrits ==
    \A l, m \in 1 .. N :
        LET r == copy_trs(ShortTo(ta, m), l)
        IN  /\ Value(r) = T!mod_3_n(Value(ShortTo(ta, m)), l)
            /\ add_trs(r, Zero(l)) = smtr(Signs(r))
            /\ sgn_trs(r) = T!sgn_trs(Value(r))

(* Both functions called xor are the same one, and it is the inverse of and *)
(* (xor_trs by its table, xor_setun_trs by comparing planes).               *)
XorsAgree ==
    /\ xor_setun_trs(ta, tb) = xor_trs(ta, tb)
    /\ Value(xor_trs(ta, tb)) = - Value(and_trs(ta, tb))
=============================================================================
