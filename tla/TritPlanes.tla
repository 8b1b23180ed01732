----------------------------- MODULE TritPlanes -----------------------------
(***************************************************************************)
(* The words of the emulator as the program keeps them: a length and two   *)
(* bit planes, here sets of bit numbers; t0 are the trits that are not     *)
(* zero, t1 those that are positive.  The functions of the source on such  *)
(* words, trit by trit with a carry, and the actions that apply them to    *)
(* two registers.  ImplementsNumbers justifies the numbers the other       *)
(* modules use in place of planes.                                         *)
(***************************************************************************)
EXTENDS Integers

CONSTANTS N, Counts      \* SIZE_WORD_LONG, 18 in the program; shift counts

ASSUME TritPlanesAssumption == N \in 1 .. 18 /\ Counts \subseteq -127 .. 127

VARIABLES ta, tb
vars == << ta, tb >>

SIZE_TRITS_MAX      == 32
SIZE_LONG_TRITS_MAX == 64

Min2(m, n) == IF m < n THEN m ELSE n
Max2(m, n) == IF m < n THEN n ELSE m

\* Bits of a plane moved up (d > 0) or down, in a variable of w bits.
Moved(plane, d, w) == {i \in 0 .. w - 1 : i - d \in plane}
Masked(t, n) == [t EXCEPT !.t1 = @ \cap 0 .. n - 1, !.t0 = @ \cap 0 .. n - 1]

Zero(l) == [l |-> l, t1 |-> {}, t0 |-> {}]

get_trit(t, pos) == IF pos \notin t.t0 THEN 0 ELSE IF pos \in t.t1 THEN 1 ELSE -1

FromTrits(l, trits) ==
    [l |-> l, t1 |-> {i \in DOMAIN trits : trits[i] > 0},
              t0 |-> {i \in DOMAIN trits : trits[i] # 0}]

mod_3_n_Loose(t, n) == Masked(t, n + 1)         \* faulty
mod_3_n(t, n) == Masked(t, n % SIZE_TRITS_MAX)

sgn_trs(t) ==
    IF t.t0 \cap 0 .. t.l - 1 = {} THEN 0
    ELSE LET top == CHOOSE i \in t.t0 : i < t.l /\ \A k \in t.t0 : k < t.l => k <= i
         IN  get_trit(t, top)

-----------------------------------------------------------------------------
(***************************************************************************)
(* Sums.  SUM_T_S and SUM_T_P1 are indexed by the two trits and the carry. *)
(***************************************************************************)
SUM_T_S == << << <<0, 1, -1>>, <<1, -1, 0>>, <<-1, 0, 1>> >>,
              << <<1, -1, 0>>, <<-1, 0, 1>>, <<0, 1, -1>> >>,
              << <<-1, 0, 1>>, <<0, 1, -1>>, <<1, -1, 0>> >> >>

SUM_T_P1 == << << <<-1, -1, 0>>, <<-1, 0, 0>>, <<0, 0, 0>> >>,
               << <<-1, 0, 0>>,  <<0, 0, 0>>,  <<0, 0, 1>> >>,
               << <<0, 0, 0>>,   <<0, 0, 1>>,  <<0, 1, 1>> >> >>

sum_t(a, b, p0) == [s  |-> SUM_T_S[a + 2][b + 2][p0 + 2],
                    p1 |-> SUM_T_P1[a + 2][b + 2][p0 + 2]]

\* The loop over j trits, y multiplied by sign; the last carry is dropped.
SumLoop_NoCarry(x, y, sign, j) ==               \* faulty
    FromTrits(j, [i \in 0 .. j - 1 |->
                     sum_t(get_trit(x, i), sign * get_trit(y, i), 0).s])

SumLoop(x, y, sign, j) ==
    LET carry[i \in 0 .. j] ==
            IF i = 0 THEN 0
            ELSE sum_t(get_trit(x, i - 1), sign * get_trit(y, i - 1), carry[i - 1]).p1
    IN  FromTrits(j, [i \in 0 .. j - 1 |->
                         sum_t(get_trit(x, i), sign * get_trit(y, i), carry[i]).s])

add_trs(x, y) == SumLoop(Masked(x, x.l), Masked(y, y.l), 1, Max2(x.l, y.l))
sub_trs(x, y) == Masked(SumLoop(x, y, -1, Max2(x.l, y.l)), N)

\* Long words get a trit longer with every operation.
LongLength(x, y) == Max2(Min2(x.l, SIZE_LONG_TRITS_MAX), Min2(y.l, SIZE_LONG_TRITS_MAX))

add_long_trs(x, y) ==
    [SumLoop(x, y, 1, LongLength(x, y)) EXCEPT !.l = LongLength(x, y) + 1]

sub_long_trs(x, y) ==
    [SumLoop(x, y, -1, LongLength(x, y)) EXCEPT !.l = LongLength(x, y) + 1]

inc_trs(t) == add_trs(t, [l |-> 1, t1 |-> {0}, t0 |-> {0}])
dec_trs(t) == add_trs(t, [l |-> 1, t1 |-> {}, t0 |-> {0}])

and_trs(x, y) ==
    FromTrits(Max2(x.l, y.l),
              [i \in 0 .. Min2(x.l, y.l) - 1 |-> get_trit(x, i) * get_trit(y, i)])

shift_trs(t, d) ==
    LET places == IF d >= 0 THEN d % SIZE_TRITS_MAX ELSE - ((-d) % SIZE_TRITS_MAX)
    IN  [t EXCEPT !.t1 = Moved(@, places, SIZE_TRITS_MAX),
                  !.t0 = Moved(@, places, SIZE_TRITS_MAX)]

(***************************************************************************)
(* The product: in round i the multiplicand, shifted down by i places, is  *)
(* added or subtracted; the result are the trits N .. 2N-1 of the sum.     *)
(***************************************************************************)
mul_trs(x, y) ==
    LET shifted(i) == [l |-> x.l, t1 |-> Moved(x.t1, -i, SIZE_LONG_TRITS_MAX),
                                  t0 |-> Moved(x.t0, -i, SIZE_LONG_TRITS_MAX)]
        rr[i \in 0 .. Min2(y.l, 2 * N)] ==
            IF i = 0 THEN Zero(2 * N)
            ELSE CASE get_trit(y, i - 1) > 0 -> add_long_trs(rr[i - 1], shifted(i - 1))
                   [] get_trit(y, i - 1) < 0 -> sub_long_trs(rr[i - 1], shifted(i - 1))
                   [] OTHER                  -> rr[i - 1]
        sum == rr[Min2(y.l, 2 * N)]
    IN  Masked([l |-> N, t1 |-> Moved(sum.t1, -N, SIZE_LONG_TRITS_MAX),
                         t0 |-> Moved(sum.t0, -N, SIZE_LONG_TRITS_MAX)], N)

-----------------------------------------------------------------------------
(* Positions counted from the most significant trit.                       *)

get_trit_setun(t, pos) ==
    IF pos = 0 \/ pos > t.l \/ t.l > N THEN 0 ELSE get_trit(t, t.l - pos)

set_trit_setun(t, pos, trit) ==
    IF pos = 0 \/ pos > t.l \/ t.l > N THEN t
    ELSE LET bit == {t.l - pos}
         IN  [t EXCEPT !.t1 = IF trit > 0 THEN @ \cup bit ELSE @ \ bit,
                       !.t0 = IF trit # 0 THEN @ \cup bit ELSE @ \ bit]

slice_trs_setun(t, p1, p2) ==
    IF t.l = 0 \/ p1 > p2 \/ p1 < 1 \/ p2 > t.l THEN t
    ELSE LET down == [t EXCEPT !.t1 = Moved(@, p2 - t.l, SIZE_TRITS_MAX),
                               !.t0 = Moved(@, p2 - t.l, SIZE_TRITS_MAX)]
         IN  [Masked(down, p2 - p1 + 1) EXCEPT !.l = p2 - p1 + 1]

\* The word in a register of l trits; only its plane t0 is masked.
copy_trs_setun(t, l) ==
    LET t1 == Moved(t.t1, l - t.l, SIZE_TRITS_MAX)
        t0 == Moved(t.t0, l - t.l, SIZE_TRITS_MAX)
    IN  [l |-> l, t1 |-> t1, t0 |-> IF l = t.l THEN t0 ELSE t0 \cap 0 .. l - 1]

\* The first trit, from the left, of the difference that is not zero.
cmp_trs(x, y) ==
    LET r == sub_trs(x, y)
        nonzero == {i \in 1 .. r.l : get_trit_setun(r, i) # 0}
    IN  IF nonzero = {} THEN 0
        ELSE get_trit_setun(r, CHOOSE i \in nonzero : \A k \in nonzero : i <= k)

-----------------------------------------------------------------------------
(***************************************************************************)
(* Two registers.                                                          *)
(***************************************************************************)
PlaneWord == UNION {[l : {N}, t1 : SUBSET t0, t0 : {t0}] : t0 \in SUBSET (0 .. N - 1)}

(* No function leaves a bit outside the word, or a positive trit that is     *)
(* zero: the planes are those of a number (add_trs .. copy_trs_setun).       *)
TypeOK == ta \in PlaneWord /\ tb \in PlaneWord

Init == ta \in PlaneWord /\ tb \in PlaneWord

Becomes(t) == ta' = t /\ UNCHANGED tb
IsTrit(v)  == Becomes(set_trit_setun(Zero(N), N, v))

Arithmetic ==
    \/ Becomes(add_trs(ta, tb))
    \/ Becomes(sub_trs(ta, tb))
    \/ Becomes(mul_trs(ta, tb))
    \/ Becomes(and_trs(ta, tb))
    \/ Becomes(inc_trs(ta))
    \/ Becomes(dec_trs(ta))

Tests ==
    \/ IsTrit(sgn_trs(ta))
    \/ IsTrit(cmp_trs(ta, tb))
    \/ \E p \in 0 .. N + 1 : IsTrit(get_trit_setun(ta, p))

Shift == \E d \in Counts : Becomes(mod_3_n(shift_trs(ta, d), N))

Slice == \E p1, p2 \in 0 .. N + 1 :
            Becomes([slice_trs_setun(ta, p1, p2) EXCEPT !.l = N])

Copy == \E n \in 1 .. N : Becomes(copy_trs_setun(copy_trs_setun(ta, n), N))

Exchange == ta' = tb /\ tb' = ta

Next == Arithmetic \/ Tests \/ Shift \/ Slice \/ Copy \/ Exchange

Spec == Init /\ [][Next]_vars

(***************************************************************************)
(* The number a word denotes.                                              *)
(***************************************************************************)
T == INSTANCE Ternary

Value(t) == T!SumTo([i \in 0 .. N - 1 |-> get_trit(t, i) * T!pow3(i)], N)

SameArithmetic(x, y) ==
    LET v == Value(x)
        w == Value(y)
    IN  /\ Value(add_trs(x, y)) = T!add_trs(v, w, N)
        /\ Value(sub_trs(x, y)) = T!sub_trs(v, w, N)
        /\ Value(mul_trs(x, y)) = T!mul_trs(v, w, N)
        /\ Value(and_trs(x, y)) = T!and_trs(v, w, N)
        /\ Value(inc_trs(x)) = T!inc_trs(v, N)
        /\ Value(dec_trs(x)) = T!dec_trs(v, N)
        /\ sgn_trs(x) = T!sgn_trs(v)
        /\ cmp_trs(x, y) = T!cmp_trs(v, w, N)

SamePlaces(x) ==
    LET v == Value(x)
    IN  /\ \A d \in Counts : Value(mod_3_n(shift_trs(x, d), N)) = T!shift_trs(v, N, d)
        /\ \A p \in 0 .. N + 1 : get_trit_setun(x, p) = T!get_trit_setun(v, N, p)
        /\ \A p1, p2 \in 0 .. N + 1 :
              Value(slice_trs_setun(x, p1, p2)) = T!slice_trs_setun(v, N, p1, p2)
        /\ \A n \in 1 .. N :
              Value(copy_trs_setun(copy_trs_setun(x, n), N))
                  = T!copy_trs_setun(T!copy_trs_setun(v, N, n), n, N)

(* Every function on planes computes on the numbers they denote what module  *)
(* Ternary says of it: sums and differences modulo 3^N, the product as       *)
(* mul_trs makes it, shifts with the count modulo 32, slices and copies.     *)
ImplementsNumbers == SameArithmetic(ta, tb) /\ SamePlaces(ta)
=============================================================================
