------------------------------ MODULE Induction ------------------------------
(***************************************************************************)
(* Induction over the numbers of an interval, stated with sets and         *)
(* functions, so that a proof cites it like any other fact: a set takes    *)
(* the place of the formula that is proved, and a function that of the     *)
(* step of a recursive definition.                                         *)
(***************************************************************************)
EXTENDS Integers, WellFoundedInduction, TLAPS

LEMMA LeastElement ==
    ASSUME NEW T \in SUBSET Nat, T # {}
    PROVE  \E x \in T : \A y \in T : x <= y
<1>1. PICK x \in T : \A y \in T : ~ (<< y, x >> \in OpToRel(<, Nat))
  BY NatLessThanWellFounded, WFMin
<1>2. \A y, z \in Nat : y < z => << y, z >> \in OpToRel(<, Nat)
  BY DEF OpToRel
<1>3. \A y \in T : ~ (y < x)
  BY <1>1, <1>2, Zenon
<1> QED
  BY <1>3

(* The induction itself: T holds m and, with every number below n, the     *)
(* next one.                                                               *)
LEMMA Induction ==
    ASSUME NEW m \in Nat, NEW n \in Nat, NEW T, m \in T,
           \A k \in m .. n - 1 : k \in T => k + 1 \in T
    PROVE  m .. n \subseteq T
<1> DEFINE out == {k \in m .. n : k \notin T}
<1>1. CASE out = {}
  BY <1>1
<1>2. CASE out # {}
  <2>1. out \in SUBSET Nat
    OBVIOUS
  <2>2. PICK x \in out : \A y \in out : x <= y
    BY <1>2, <2>1, LeastElement
  <2>3. x # m /\ x - 1 \in m .. n - 1
    BY <2>2
  <2>4. x - 1 \in T
    BY <2>2, <2>3
  <2>5. (x - 1) + 1 = x
    BY <2>2
  <2> QED
    BY <2>2, <2>3, <2>4, <2>5
<1> QED
  BY <1>1, <1>2

(* A recursive definition on m .. n with values in V: what step[k] makes of *)
(* the value before k is the value at k.                                   *)
Steps(m, n, V, step) == \A k \in m + 1 .. n, v \in V : step[k][v] \in V

Solvable(m, n, V, first, step) ==
    \E g \in [m .. n -> V] :
       g[m] = first /\ \A k \in m + 1 .. n : g[k] = step[k][g[k - 1]]

(* Such a definition has a solution.                                       *)
LEMMA RecursionHasSolution ==
    ASSUME NEW m \in Nat, NEW n \in Nat, m <= n, NEW V, NEW first \in V,
           NEW step, Steps(m, n, V, step)
    PROVE  Solvable(m, n, V, first, step)
<1> USE DEF Steps
<1> DEFINE Solves(g, last) == \A k \in m + 1 .. last : g[k] = step[k][g[k - 1]]
           T == {last \in m .. n : \E g \in [m .. last -> V] : g[m] = first /\ Solves(g, last)}
<1>1. m \in T
  <2> DEFINE g == [k \in m .. m |-> first]
  <2>1. g \in [m .. m -> V] /\ g[m] = first
    OBVIOUS
  <2> HIDE DEF g
  <2>2. m + 1 .. m = {} /\ m \in m .. n
    OBVIOUS
  <2>3. Solves(g, m)
    BY <2>2
  <2> QED
    BY <2>1, <2>2, <2>3
<1>2. ASSUME NEW last \in m .. n - 1, last \in T PROVE last + 1 \in T
  <2>1. PICK g \in [m .. last -> V] : g[m] = first /\ Solves(g, last)
    BY <1>2
  <2> DEFINE h == [k \in m .. last + 1 |-> IF k = last + 1 THEN step[k][g[last]] ELSE g[k]]
  <2>2. last + 1 \in m + 1 .. n /\ last \in m .. last /\ m # last + 1 /\ m \in m .. last
    OBVIOUS
  <2>3. h \in [m .. last + 1 -> V] /\ h[m] = first
    BY <2>1, <2>2
  <2>4. ASSUME NEW k \in m + 1 .. last + 1 PROVE h[k] = step[k][h[k - 1]]
    <3>1. CASE k = last + 1
      <4>1. k - 1 = last /\ h[last] = g[last] /\ h[k] = step[k][g[last]]
        BY <2>2, <3>1
      <4> QED
        BY <4>1
    <3>2. CASE k # last + 1
      <4>1. k \in m + 1 .. last /\ k - 1 \in m .. last /\ k - 1 # last + 1
        BY <3>2
      <4>2. h[k] = g[k] /\ h[k - 1] = g[k - 1]
        BY <4>1, <3>2
      <4> QED
        BY <2>1, <4>1, <4>2
    <3> QED
      BY <3>1, <3>2
  <2> HIDE DEF h
  <2>5. Solves(h, last + 1)
    BY <2>4
  <2> QED
    BY <2>2, <2>3, <2>5
<1>3. n \in T
  <2> HIDE DEF T
  <2>1. m .. n \subseteq T
    BY <1>1, <1>2, Induction
  <2> QED
    BY <2>1
<1>4. PICK g \in [m .. n -> V] : g[m] = first /\ Solves(g, n)
  BY <1>3
<1> QED
  BY <1>4 DEF Solvable
==============================================================================
