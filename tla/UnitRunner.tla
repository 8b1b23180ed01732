----------------------------- MODULE UnitRunner -----------------------------
(***************************************************************************)
(* The unit-test runner: the framework that registers and executes tests,  *)
(* its signal handlers, and the main function that drives it.              *)
(*                                                                         *)
(* A test is whatever its function does: return, fail an assertion, or     *)
(* raise one of the signals the framework catches.  Both ways of failing   *)
(* leave the test by longjmp; the second one leaves a signal handler, and  *)
(* longjmp does not restore the signal mask, so the signal stays blocked   *)
(* for the rest of the process.                                            *)
(***************************************************************************)
EXTENDS Naturals, Sequences, FiniteSets

CONSTANTS
    Names,          \* names of tests
    NULL,           \* a null pointer in place of a name or of a function
    Signals,        \* the signals ut_setup_signal_handlers names
    SIGABRT,        \* the one of them that abort() raises
    UT_MAX_TESTS    \* 256 in the program

ASSUME UnitRunnerAssumption ==
    /\ NULL \notin Names
    /\ UT_MAX_TESTS \in Nat
    /\ SIGABRT \in Signals
    /\ "returns" \notin Signals /\ "asserts" \notin Signals

VARIABLES
    phase,          \* "register", "run", "test", "summary", "exited", "killed"
    ut_tests,       \* the registered tests, by name
    selected,       \* the tests this process is asked to run
    position,       \* how many of them have been started
    ut_passed, ut_failed, ut_skipped,
    rc,             \* failed_count of ut_run_all_tests, rc of ut_run_test
    ut_jmp_ready, ut_assert_failed,
    handled,        \* signals whose handler is ut_signal_handler
    blocked,        \* the signal mask of the process
    exit,           \* status of the process, once it has ended
    outcomes        \* history: what each started test did

counters == << ut_passed, ut_failed, ut_skipped, rc >>
jump     == << ut_jmp_ready, ut_assert_failed >>
signals  == << handled, blocked >>
vars     == << phase, ut_tests, selected, position, counters, jump, signals,
               exit, outcomes >>

Outcomes == {"returns", "asserts"} \cup Signals
Killed   == 128     \* what a shell reports of a process a signal has ended

TypeOK ==
    /\ phase \in {"register", "run", "test", "summary", "exited", "killed"}
    /\ ut_tests \in Seq(Names) /\ Len(ut_tests) <= UT_MAX_TESTS
    /\ selected \in Seq(Names)
    /\ position \in 0 .. Len(selected)
    /\ ut_passed \in Nat /\ ut_failed \in Nat /\ ut_skipped \in Nat /\ rc \in Nat
    /\ ut_jmp_ready \in BOOLEAN /\ ut_assert_failed \in BOOLEAN
    /\ handled \in SUBSET Signals /\ blocked \in SUBSET Signals
    /\ exit \in {0, 1, Killed}
    /\ outcomes \in Seq(Outcomes)

Init ==
    /\ phase = "register"
    /\ ut_tests = << >> /\ selected = << >> /\ position = 0
    /\ ut_passed = 0 /\ ut_failed = 0 /\ ut_skipped = 0 /\ rc = 0
    /\ ut_jmp_ready = FALSE /\ ut_assert_failed = FALSE
    /\ handled = {} /\ blocked = {}
    /\ exit = 0
    /\ outcomes = << >>

-----------------------------------------------------------------------------
(***************************************************************************)
(* Registration.  A test too many or a null pointer only gives a warning.  *)
(***************************************************************************)
ut_register_test_NoLimit(name) ==      \* Faulty: the table has no end.
    /\ phase = "register"
    /\ name # NULL
    /\ ut_tests' = Append(ut_tests, name)
    /\ UNCHANGED << phase, selected, position, counters, jump, signals, exit, outcomes >>

ut_register_test(name) ==
    /\ phase = "register"
    /\ Len(ut_tests) < UT_MAX_TESTS
    /\ name # NULL
    /\ ut_tests' = Append(ut_tests, name)
    /\ UNCHANGED << phase, selected, position, counters, jump, signals, exit, outcomes >>

ut_reset ==
    /\ phase = "register"
    /\ ut_tests' = << >>
    /\ ut_passed' = 0 /\ ut_failed' = 0 /\ ut_skipped' = 0
    /\ UNCHANGED << phase, selected, position, rc, jump, signals, exit, outcomes >>

-----------------------------------------------------------------------------
(***************************************************************************)
(* Starting the runner: all tests, or the first one of a given name.       *)
(***************************************************************************)
Start_NoHandlers(tests) ==      \* Faulty: the handlers are not installed.
    /\ selected' = tests
    /\ phase' = "run"
    /\ handled' = {}
    /\ UNCHANGED << ut_tests, position, counters, jump, blocked, exit, outcomes >>

Start(tests) ==
    /\ selected' = tests
    /\ phase' = "run"
    /\ handled' = Signals
    /\ UNCHANGED << ut_tests, position, counters, jump, blocked, exit, outcomes >>

Summary == 
    /\ phase' = "summary"
    /\ UNCHANGED << ut_tests, selected, position, ut_passed, ut_failed, jump, signals,
                    exit, outcomes >>

ut_run_all_tests ==
    /\ phase = "register"
    /\ IF ut_tests = << >>
       THEN Summary /\ UNCHANGED << ut_skipped, rc >>
       ELSE Start(ut_tests)

Registered(name) == \E i \in 1 .. Len(ut_tests) : ut_tests[i] = name

ut_run_test(name) ==
    /\ phase = "register"
    /\ IF Registered(name)
       THEN Start(<< name >>)
       ELSE Summary /\ ut_skipped' = ut_skipped + 1 /\ rc' = 1

-----------------------------------------------------------------------------
(***************************************************************************)
(* ut_execute_single, up to the call of the test, and its two ends.        *)
(***************************************************************************)
ut_execute_single ==
    /\ phase = "run" /\ position < Len(selected)
    /\ phase' = "test"
    /\ position' = position + 1
    /\ ut_assert_failed' = FALSE
    /\ ut_jmp_ready' = TRUE
    /\ UNCHANGED << ut_tests, selected, counters, signals, exit, outcomes >>

\* The jump back to setjmp, from UT_FAIL or from the handler.
LongJump ==
    /\ phase' = "run"
    /\ ut_failed' = ut_failed + 1
    /\ rc' = rc + 1
    /\ UNCHANGED << ut_passed, ut_skipped, ut_jmp_ready, handled, exit >>

TestReturns ==
    /\ phase' = "run"
    /\ ut_passed' = ut_passed + 1
    /\ UNCHANGED << ut_failed, ut_skipped, rc, jump, signals, exit >>

\* UT_FAIL and the assertions made of it.
UT_FAIL ==
    /\ ut_assert_failed' = TRUE
    /\ UNCHANGED blocked
    /\ LongJump

\* Faulty: the handler does not jump out of the test.
SignalCaught_Returns(sig) ==
    /\ blocked' = blocked
    /\ UNCHANGED ut_assert_failed
    /\ TestReturns

\* ut_signal_handler runs with its signal blocked and jumps out of the test.
SignalCaught(sig) ==
    /\ blocked' = blocked \cup {sig}
    /\ UNCHANGED ut_assert_failed
    /\ LongJump

\* A fault whose signal is blocked ends the process whatever the handler.
SignalKills ==
    /\ phase' = "killed"
    /\ exit' = Killed
    /\ UNCHANGED << counters, jump, signals >>

\* abort() first unblocks SIGABRT in the C libraries up to glibc 2.41; the
\* others raise it as it is.
Raises(sig) ==
    IF sig \in handled \ blocked
    THEN SignalCaught(sig)
    ELSE \/ SignalKills
         \/ sig = SIGABRT /\ SignalCaught(sig)

TestEnds(o) ==
    /\ phase = "test"
    /\ outcomes' = Append(outcomes, o)
    /\ CASE o = "returns" -> TestReturns
         [] o = "asserts" -> UT_FAIL
         [] OTHER         -> Raises(o)
    /\ UNCHANGED << ut_tests, selected, position >>

-----------------------------------------------------------------------------
(***************************************************************************)
(* The end of the loop, the summary and the status of the process.         *)
(***************************************************************************)
RunEnds ==
    /\ phase = "run" /\ position = Len(selected)
    /\ phase' = "summary"
    /\ handled' = {}
    /\ ut_jmp_ready' = FALSE
    /\ UNCHANGED << ut_tests, selected, position, counters, ut_assert_failed, blocked,
                    exit, outcomes >>

\* The last line of ut_print_summary.
Verdict ==
    CASE ut_failed = 0 /\ ut_skipped = 0 -> "ALL TESTS PASSED"
      [] ut_failed > 0                   -> "SOME TESTS FAILED"
      [] OTHER                           -> "none"

\* Faulty: the status of main is that of the last test only.
main_exit_LastTest ==
    /\ phase = "summary"
    /\ phase' = "exited"
    /\ exit' = IF ut_assert_failed THEN 1 ELSE 0
    /\ UNCHANGED << ut_tests, selected, position, counters, jump, signals, outcomes >>

\* Faulty: the runner starts over.
main_exit_Again ==
    /\ phase = "summary"
    /\ phase' = "run"
    /\ UNCHANGED << ut_tests, selected, position, counters, jump, signals, exit, outcomes >>

main_exit ==
    /\ phase = "summary"
    /\ phase' = "exited"
    /\ exit' = IF rc > 0 THEN 1 ELSE 0
    /\ UNCHANGED << ut_tests, selected, position, counters, jump, signals, outcomes >>

Ended == phase \in {"exited", "killed"} /\ UNCHANGED vars

Runner == ut_execute_single \/ (\E o \in Outcomes : TestEnds(o)) \/ RunEnds \/ main_exit

Next ==
    \/ \E name \in Names \cup {NULL} : ut_register_test(name)
    \/ \E name \in Names : ut_run_test(name)
    \/ ut_reset \/ ut_run_all_tests
    \/ Runner
    \/ Ended

(* Every test ends (a test that loops stops the runner for good: there is  *)
(* no time limit), and the runner is a plain sequence of calls.            *)
Spec == Init /\ [][Next]_vars /\ WF_vars(Runner)

-----------------------------------------------------------------------------
Occurrences(o) == {i \in DOMAIN outcomes : outcomes[i] = o}

(* A test that was started is counted once, whichever way it left its      *)
(* function, and only one that returned is counted as passed: the jump out *)
(* of a test skips no counter and counts none twice.                       *)
EveryTestIsCounted ==
    phase # "killed" =>
        /\ ut_passed = Cardinality(Occurrences("returns"))
        /\ ut_passed + ut_failed = Len(outcomes)
        /\ position = Len(outcomes) + (IF phase = "test" THEN 1 ELSE 0)

(* The status 0 of the process, the green line of the summary and the      *)
(* counters tell the same story: every test that was asked for was there,  *)
(* was started and returned.                                               *)
StatusTellsTheTruth ==
    phase = "exited" =>
        /\ exit = 0 <=> Verdict = "ALL TESTS PASSED"
        /\ exit = 0 => /\ Len(outcomes) = Len(selected)
                       /\ \A i \in DOMAIN outcomes : outcomes[i] = "returns"

(* What the framework does contain: the first fault of each kind.  Only a  *)
(* signal that an earlier test raised as well ends the process, because it *)
(* is still blocked.                                                       *)
FirstFaultIsContained ==
    phase = "killed" =>
        \E i, j \in DOMAIN outcomes :
            i < j /\ outcomes[i] = outcomes[j] /\ outcomes[j] \in Signals

(* UNITTEST_HELP.md: a test that raises any of the signals is marked as    *)
(* failed and the runner goes on with the remaining ones.                  *)
EveryFaultIsContained == phase # "killed"

(* Once asked to run tests the runner ends, with or without a summary.     *)
RunnerEnds == phase # "register" ~> phase \in {"exited", "killed"}
=============================================================================
