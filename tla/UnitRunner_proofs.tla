-------------------------- MODULE UnitRunner_proofs --------------------------
(***************************************************************************)
(* The runner's invariants for every set of tests and signals and for      *)
(* every size of the table.  The argument: while tests run every signal    *)
(* has its handler and a signal is blocked only if a test has raised it    *)
(* (SignalInv); the status is the number of failed and skipped tests, and  *)
(* no test fails without being counted (CountInv).                         *)
(***************************************************************************)
EXTENDS UnitRunner, FiniteSetTheorems, TLAPS

SignalInv ==
    /\ phase \in {"run", "test"} => handled = Signals
    /\ \A s \in blocked : \E i \in DOMAIN outcomes : outcomes[i] = s
    /\ FirstFaultIsContained

Fresh ==
    /\ selected = << >> /\ position = 0 /\ outcomes = << >>
    /\ ut_passed = 0 /\ ut_failed = 0 /\ ut_skipped = 0 /\ rc = 0

CountInv ==
    /\ phase = "register" => Fresh
    /\ phase \in {"summary", "exited"} => position = Len(selected)
    /\ phase # "killed" =>
          /\ rc = ut_failed + ut_skipped
          /\ ut_failed = 0 => \A i \in DOMAIN outcomes : outcomes[i] = "returns"
    /\ phase = "exited" => (exit = 0 <=> rc = 0)
    /\ EveryTestIsCounted

-----------------------------------------------------------------------------
(* Where an outcome occurs in a history to which one more is appended.     *)
Occ(s, x) == {i \in DOMAIN s : s[i] = x}

LEMMA OccurrencesAppend ==
    ASSUME NEW s \in Seq(Outcomes), NEW o \in Outcomes, NEW x
    PROVE  /\ IsFiniteSet(Occ(s, x))
           /\ Cardinality(Occ(s, x)) \in Nat
           /\ Cardinality(Occ(Append(s, o), x)) =
                 Cardinality(Occ(s, x)) + (IF o = x THEN 1 ELSE 0)
<1>1. IsFiniteSet(1 .. Len(s)) /\ Occ(s, x) \subseteq 1 .. Len(s)
  BY FS_Interval DEF Occ
<1>2. IsFiniteSet(Occ(s, x)) /\ Cardinality(Occ(s, x)) \in Nat
  BY <1>1, FS_Subset, FS_CardinalityType
<1>3. CASE o = x
  <2>1. Occ(Append(s, o), x) = Occ(s, x) \cup {Len(s) + 1}
    BY <1>3 DEF Occ
  <2>2. Len(s) + 1 \notin Occ(s, x)
    BY <1>1
  <2> QED
    BY <1>2, <1>3, <2>1, <2>2, FS_AddElement
<1>4. CASE o # x
  <2>1. Occ(Append(s, o), x) = Occ(s, x)
    BY <1>4 DEF Occ
  <2> QED
    BY <1>2, <1>4, <2>1
<1> QED
  BY <1>3, <1>4

-----------------------------------------------------------------------------
LEMMA InitInv == Init => TypeOK /\ SignalInv /\ CountInv
<1> SUFFICES ASSUME Init PROVE TypeOK /\ SignalInv /\ CountInv
  OBVIOUS
<1>1. TypeOK
  <2>1. /\ << >> \in Seq(Names) /\ << >> \in Seq(Outcomes)
        /\ Len(<< >>) = 0 /\ 0 <= UT_MAX_TESTS
    BY UnitRunnerAssumption
  <2>2. Init => /\ ut_tests \in Seq(Names) /\ Len(ut_tests) <= UT_MAX_TESTS
                /\ selected \in Seq(Names) /\ position \in 0 .. Len(selected)
                /\ outcomes \in Seq(Outcomes)
    BY <2>1 DEF Init
  <2>3. Init => handled \in SUBSET Signals /\ blocked \in SUBSET Signals
    BY DEF Init
  <2> QED
    BY <2>2, <2>3 DEF Init, TypeOK
<1>2. SignalInv
  BY DEF Init, SignalInv, FirstFaultIsContained
<1>3. Occurrences("returns") = {}
  BY DEF Init, Occurrences
<1>4. Cardinality(Occurrences("returns")) = 0
  BY <1>3, FS_EmptySet
<1>5. CountInv
  BY <1>4 DEF Init, CountInv, Fresh, EveryTestIsCounted
<1> QED
  BY <1>1, <1>2, <1>5

(* Every step keeps the types: the table has room for what is registered,  *)
(* and the position never passes the tests that were selected.             *)
LEMMA TypeStep ==
    ASSUME TypeOK, CountInv, [Next]_vars
    PROVE  TypeOK'
<1> USE UnitRunnerAssumption DEF TypeOK
<1>0. phase = "register" => position = 0
  BY DEF CountInv, Fresh
<1>1. ASSUME NEW name \in Names \cup {NULL}, ut_register_test(name) PROVE TypeOK'
  BY <1>1 DEF ut_register_test, counters, jump, signals
<1>2. ASSUME NEW name \in Names, ut_run_test(name) PROVE TypeOK'
  <2>1. << name >> \in Seq(Names) /\ 0 \in 0 .. Len(<< name >>)
    BY <1>2
  <2>2. CASE Start(<< name >>)
    <3>1. selected' \in Seq(Names) /\ position' \in 0 .. Len(selected')
      BY <1>0, <1>2, <2>1, <2>2 DEF ut_run_test, Start
    <3> QED
      BY <2>2, <3>1 DEF Start, counters, jump
  <2>3. CASE Summary /\ ut_skipped' = ut_skipped + 1 /\ rc' = 1
    BY <2>3 DEF Summary, jump, signals
  <2> QED
    BY <1>2, <2>2, <2>3 DEF ut_run_test
<1>3. CASE ut_reset
  BY <1>3 DEF ut_reset, jump, signals
<1>4. CASE ut_run_all_tests
  BY <1>0, <1>4 DEF ut_run_all_tests, Start, Summary, counters, jump, signals
<1>5. CASE ut_execute_single
  <2>1. position' \in 0 .. Len(selected') /\ phase' = "test"
    BY <1>5 DEF ut_execute_single
  <2> QED
    BY <1>5, <2>1 DEF ut_execute_single, counters, signals
<1>6. ASSUME NEW o \in Outcomes, TestEnds(o) PROVE TypeOK'
  <2> USE <1>6 DEF TestEnds, Outcomes, counters, jump, signals
  <2>1. CASE TestReturns
    BY <2>1 DEF TestReturns
  <2>2. CASE UT_FAIL
    BY <2>2 DEF UT_FAIL, LongJump
  <2>3. CASE o \in Signals /\ SignalCaught(o)
    BY <2>3 DEF SignalCaught, LongJump
  <2>4. CASE SignalKills
    BY <2>4 DEF SignalKills
  <2> QED
    BY <2>1, <2>2, <2>3, <2>4 DEF Raises
<1>7. CASE RunEnds
  BY <1>7 DEF RunEnds, counters
<1>8. CASE main_exit
  BY <1>8 DEF main_exit, counters, jump, signals
<1>9. CASE UNCHANGED vars
  BY <1>9 DEF vars, counters, jump, signals
<1> QED
  BY <1>1, <1>2, <1>3, <1>4, <1>5, <1>6, <1>7, <1>8, <1>9 DEF Next, Runner, Ended

-----------------------------------------------------------------------------
LEMMA SignalStep ==
    ASSUME TypeOK, SignalInv, [Next]_vars
    PROVE  SignalInv'
<1> USE UnitRunnerAssumption DEF TypeOK, SignalInv, FirstFaultIsContained
<1>1. ASSUME NEW name \in Names \cup {NULL}, ut_register_test(name) PROVE SignalInv'
  BY <1>1 DEF ut_register_test, signals
<1>2. ASSUME NEW name \in Names, ut_run_test(name) PROVE SignalInv'
  BY <1>2 DEF ut_run_test, Start, Summary, signals
<1>3. CASE ut_reset
  BY <1>3 DEF ut_reset, signals
<1>4. CASE ut_run_all_tests
  BY <1>4 DEF ut_run_all_tests, Start, Summary, signals
<1>5. CASE ut_execute_single
  BY <1>5 DEF ut_execute_single, signals
<1>6. ASSUME NEW o \in Outcomes, TestEnds(o) PROVE SignalInv'
  <2>1. /\ outcomes \in Seq(Outcomes) /\ DOMAIN outcomes = 1 .. Len(outcomes)
        /\ outcomes' = Append(outcomes, o)
        /\ DOMAIN outcomes' = 1 .. Len(outcomes) + 1
        /\ outcomes'[Len(outcomes) + 1] = o
        /\ \A i \in 1 .. Len(outcomes) : outcomes'[i] = outcomes[i]
    BY <1>6 DEF TestEnds, Outcomes
  <2>2. \A s \in blocked : \E i \in DOMAIN outcomes' : outcomes'[i] = s
    <3> SUFFICES ASSUME NEW s \in blocked PROVE \E i \in DOMAIN outcomes' : outcomes'[i] = s
      OBVIOUS
    <3>1. PICK i \in 1 .. Len(outcomes) : outcomes[i] = s
      BY <2>1
    <3>2. i \in DOMAIN outcomes' /\ outcomes'[i] = s
      BY <2>1, <3>1
    <3> QED
      BY <3>2
  <2>3. CASE TestReturns
    BY <1>6, <2>2, <2>3 DEF TestEnds, TestReturns, signals
  <2>4. CASE UT_FAIL
    BY <1>6, <2>2, <2>4 DEF TestEnds, UT_FAIL, LongJump
  <2>5. CASE o \in Signals /\ SignalCaught(o)
    <3>1. Len(outcomes) + 1 \in DOMAIN outcomes'
      BY <2>1
    <3>2. \A s \in blocked' : \E i \in DOMAIN outcomes' : outcomes'[i] = s
      BY <2>1, <2>2, <2>5, <3>1 DEF SignalCaught
    <3> QED
      BY <1>6, <2>5, <3>2 DEF TestEnds, SignalCaught, LongJump
  <2>6. CASE o \in Signals /\ o \notin handled \ blocked /\ SignalKills
    <3>1. o \in blocked
      BY <1>6, <2>6 DEF TestEnds
    <3>2. PICK i \in 1 .. Len(outcomes) : outcomes[i] = o
      BY <3>1
    <3>3. /\ i < Len(outcomes) + 1 /\ outcomes'[i] = outcomes'[Len(outcomes) + 1]
          /\ i \in DOMAIN outcomes' /\ Len(outcomes) + 1 \in DOMAIN outcomes'
          /\ outcomes'[Len(outcomes) + 1] \in Signals
      BY <2>1, <2>6, <3>2
    <3>4. FirstFaultIsContained'
      BY <3>3
    <3>5. phase' = "killed" /\ UNCHANGED << handled, blocked >>
      BY <2>6 DEF SignalKills, signals
    <3> QED
      BY <2>2, <3>4, <3>5
  <2> QED
    BY <1>6, <2>3, <2>4, <2>5, <2>6 DEF TestEnds, Raises, Outcomes
<1>7. CASE RunEnds
  BY <1>7 DEF RunEnds
<1>8. CASE main_exit
  BY <1>8 DEF main_exit, signals
<1>9. CASE UNCHANGED vars
  BY <1>9 DEF vars, signals
<1> QED
  BY <1>1, <1>2, <1>3, <1>4, <1>5, <1>6, <1>7, <1>8, <1>9 DEF Next, Runner, Ended

-----------------------------------------------------------------------------
LEMMA CountStep ==
    ASSUME TypeOK, SignalInv, CountInv, [Next]_vars
    PROVE  CountInv'
<1> USE UnitRunnerAssumption DEF TypeOK, CountInv, EveryTestIsCounted
<1>0. outcomes' = outcomes =>
         Cardinality(Occurrences("returns"))' = Cardinality(Occurrences("returns"))
  BY DEF Occurrences
<1>1. ASSUME NEW name \in Names \cup {NULL}, ut_register_test(name) PROVE CountInv'
  BY <1>0, <1>1 DEF ut_register_test, counters, Fresh
<1>2. ASSUME NEW name \in Names, ut_run_test(name) PROVE CountInv'
  BY <1>0, <1>2 DEF ut_run_test, Start, Summary, counters, Fresh
<1>3. CASE ut_reset
  BY <1>0, <1>3 DEF ut_reset, Fresh
<1>4. CASE ut_run_all_tests
  BY <1>0, <1>4 DEF ut_run_all_tests, Start, Summary, counters, Fresh
<1>5. CASE ut_execute_single
  BY <1>0, <1>5 DEF ut_execute_single, counters
<1>6. ASSUME NEW o \in Outcomes, TestEnds(o) PROVE CountInv'
  <2>1. /\ phase = "test" /\ outcomes \in Seq(Outcomes)
        /\ outcomes' = Append(outcomes, o) /\ position' = position
        /\ Len(outcomes') = Len(outcomes) + 1
        /\ DOMAIN outcomes' = 1 .. Len(outcomes) + 1
        /\ outcomes'[Len(outcomes) + 1] = o
        /\ \A i \in 1 .. Len(outcomes) : outcomes'[i] = outcomes[i]
    BY <1>6 DEF TestEnds
  <2>2. /\ Cardinality(Occurrences("returns")) \in Nat
        /\ Cardinality(Occurrences("returns"))' =
              Cardinality(Occurrences("returns")) + (IF o = "returns" THEN 1 ELSE 0)
    <3>1. Occurrences("returns") = Occ(outcomes, "returns")
      BY DEF Occurrences, Occ
    <3>2. Occurrences("returns")' = Occ(Append(outcomes, o), "returns")
      BY <2>1 DEF Occurrences, Occ
    <3> QED
      BY <2>1, <3>1, <3>2, OccurrencesAppend
  <2>3. CASE o = "returns" /\ TestReturns
    <3>1. /\ phase' = "run" /\ ut_passed' = ut_passed + 1
          /\ UNCHANGED << ut_failed, ut_skipped, rc, selected >>
      BY <1>6, <2>3 DEF TestReturns, TestEnds
    <3>2. EveryTestIsCounted'
      <4>1. /\ ut_passed = Cardinality(Occurrences("returns"))
            /\ ut_passed + ut_failed = Len(outcomes)
            /\ position = Len(outcomes) + 1
        BY <2>1
      <4>2. Cardinality(Occurrences("returns"))' = Cardinality(Occurrences("returns")) + 1
        BY <2>2, <2>3
      <4>3. ut_passed' = Cardinality(Occurrences("returns"))'
        BY <3>1, <4>1, <4>2
      <4>4. ut_passed' + ut_failed' = Len(outcomes')
        <5>1. ut_passed \in Nat /\ ut_failed \in Nat /\ Len(outcomes) \in Nat
          OBVIOUS
        <5> DEFINE n == Len(outcomes)
        <5> HIDE DEF n
        <5>2. ut_passed + ut_failed = n /\ ut_passed \in Nat /\ ut_failed \in Nat /\ n \in Nat
          BY <4>1, <5>1 DEF n
        <5>3. (ut_passed + 1) + ut_failed = n + 1
          BY <5>2
        <5>4. Len(outcomes') = n + 1
          BY <2>1 DEF n
        <5>5. ut_passed' = ut_passed + 1 /\ ut_failed' = ut_failed
          BY <3>1
        <5> QED
          BY <5>3, <5>4, <5>5
      <4>5. position' = Len(outcomes') /\ phase' = "run"
        BY <2>1, <3>1, <4>1
      <4> QED
        BY <4>3, <4>4, <4>5
    <3>3. ut_failed' = 0 => \A i \in DOMAIN outcomes' : outcomes'[i] = "returns"
      BY <2>1, <2>3, <3>1
    <3> QED
      BY <2>1, <3>1, <3>2, <3>3
  <2>4. CASE o # "returns" /\ LongJump
    <3>1. /\ phase' = "run" /\ ut_failed' = ut_failed + 1 /\ rc' = rc + 1
          /\ UNCHANGED << ut_passed, ut_skipped, selected >>
      BY <1>6, <2>4 DEF LongJump, TestEnds
    <3>2. EveryTestIsCounted'
      BY <2>1, <2>2, <2>4, <3>1
    <3> QED
      BY <2>1, <3>1, <3>2
  <2>5. CASE SignalKills
    BY <2>5 DEF SignalKills
  <2> QED
    BY <1>6, <2>3, <2>4, <2>5 DEF TestEnds, Raises, Outcomes, UT_FAIL, SignalCaught
<1>7. CASE RunEnds
  BY <1>0, <1>7 DEF RunEnds, counters
<1>8. CASE main_exit
  BY <1>0, <1>8 DEF main_exit, counters
<1>9. CASE UNCHANGED vars
  BY <1>0, <1>9 DEF vars, counters, Fresh
<1> QED
  BY <1>1, <1>2, <1>3, <1>4, <1>5, <1>6, <1>7, <1>8, <1>9 DEF Next, Runner, Ended

-----------------------------------------------------------------------------
(* The runner keeps its types, whatever the tests do: the table never      *)
(* overflows and no counter leaves the naturals.                           *)
THEOREM TypeCorrect == Spec => []TypeOK
<1>1. Init => TypeOK /\ SignalInv /\ CountInv
  BY InitInv
<1>2. TypeOK /\ SignalInv /\ CountInv /\ [Next]_vars => (TypeOK /\ SignalInv /\ CountInv)'
  BY TypeStep, SignalStep, CountStep
<1> QED
  BY <1>1, <1>2, PTL DEF Spec

(* Only a signal that an earlier test has raised ends the process.         *)
THEOREM FaultsAreContained == Spec => []FirstFaultIsContained
<1>1. Init => SignalInv
  BY InitInv
<1>2. TypeOK /\ SignalInv /\ [Next]_vars => SignalInv'
  BY SignalStep
<1>3. SignalInv => FirstFaultIsContained
  BY DEF SignalInv
<1> QED
  BY <1>1, <1>2, <1>3, TypeCorrect, PTL DEF Spec

LEMMA Counted == Spec => [](TypeOK /\ CountInv)
<1>1. Init => TypeOK /\ SignalInv /\ CountInv
  BY InitInv
<1>2. TypeOK /\ SignalInv /\ CountInv /\ [Next]_vars => (TypeOK /\ SignalInv /\ CountInv)'
  BY TypeStep, SignalStep, CountStep
<1> QED
  BY <1>1, <1>2, PTL DEF Spec

(* Every started test is counted once, and as passed only if it returned.  *)
THEOREM TestsAreCounted == Spec => []EveryTestIsCounted
<1>1. TypeOK /\ CountInv => EveryTestIsCounted
  BY DEF CountInv
<1> QED
  BY <1>1, Counted, PTL

(* The status of the process, the last line of the summary and the tests   *)
(* agree.                                                                  *)
THEOREM StatusIsTrue == Spec => []StatusTellsTheTruth
<1>1. TypeOK /\ CountInv => StatusTellsTheTruth
  <2> SUFFICES ASSUME TypeOK, CountInv, phase = "exited" PROVE
            /\ exit = 0 <=> Verdict = "ALL TESTS PASSED"
            /\ exit = 0 => /\ Len(outcomes) = Len(selected)
                           /\ \A i \in DOMAIN outcomes : outcomes[i] = "returns"
    BY DEF StatusTellsTheTruth
  <2> USE DEF TypeOK, CountInv
  <2>1. exit = 0 <=> ut_failed = 0 /\ ut_skipped = 0
    OBVIOUS
  <2>2. Verdict = "ALL TESTS PASSED" <=> ut_failed = 0 /\ ut_skipped = 0
    BY DEF Verdict
  <2>3. Len(outcomes) = Len(selected)
    BY DEF EveryTestIsCounted
  <2> QED
    BY <2>1, <2>2, <2>3
<1> QED
  BY <1>1, Counted, PTL
=============================================================================
