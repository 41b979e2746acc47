------------------------------- MODULE Grading -------------------------------
(***************************************************************************)
(* Autograding of one submission: submit_and_grade_problem stores a row,   *)
(* runs GradingHarness.evaluate_submission over the problem's tests in a   *)
(* ProcessSandbox, stores the summary and answers it; get_grading_scorecard*)
(* reads it back at any time.                                              *)
(*                                                                         *)
(* What the submitted program does on a test is arbitrary.  Texts are the  *)
(* classes of outputs that OutputVerifier's Verify tells apart: the        *)
(* expected one, another one and the blank one.                            *)
(***************************************************************************)
EXTENDS Integers, Sequences, FiniteSets, Sums

CONSTANT Suites   \* the test suites: sequences of tests, in their order

\* A weight is any integer: the schema puts no bound on it.
Tests == [weight : Int, expected : {"text", "blank"}]

ASSUME GradingAssumption == Suites \subseteq Seq(Tests) \ {<< >>}

VARIABLES
    pc,       \* submitted, grading, store, answer, done, failed
    suite,    \* the problem's tests
    results,  \* test_case_results: [status, points] of each test
    score,    \* total_score
    passed,   \* passed_count
    compile,  \* compile_error_output: none, empty or text
    row,      \* the stored submission: [status, grade, score, card]
    answers,  \* history: the scorecards handed out
    truth     \* history: what the program did on each test: how it ended, what
              \* it printed, and what StreamConsumer kept of that

vars == <<pc, suite, results, score, passed, compile, row, answers, truth>>

\* How a run ends: exit code 0 or not, no end in time, output past the cap
\* (with either exit code), an interpreter that cannot be started.
Ends == {"exit0", "exit1", "hang", "flood0", "flood1", "nostart"}
Outs == {"text", "other", "blank"}

NoCard == << >>
Weights(tests) == SumTo([i \in DOMAIN tests |-> tests[i].weight], Len(tests))
Points(card)   == SumTo([i \in DOMAIN card |-> card[i].points], Len(card))

Init ==
    /\ pc = "submitted"
    /\ suite \in Suites
    /\ results = << >> /\ score = 0 /\ passed = 0 /\ compile = "none"
    /\ row = [status |-> "none", grade |-> "none", score |-> 0, card |-> NoCard]
    /\ answers = {}
    /\ truth = << >>

\* The row is committed before anything runs.
Accept ==
    /\ pc = "submitted"
    /\ pc' = "grading"
    /\ row' = [row EXCEPT !.status = "GRADING"]
    /\ UNCHANGED <<suite, results, score, passed, compile, answers, truth>>

-----------------------------------------------------------------------------
(* ProcessSandbox.execute, and the harness's judgement of one test *)

\* The status of an ExecutionResult.
Status(end) ==
    CASE end = "exit0"                -> "COMPLETED"
      [] end = "exit1"                -> "RUNTIME_ERROR"
      [] end = "hang"                 -> "TIME_LIMIT_EXCEEDED"
      [] end \in {"flood0", "flood1"} -> "OUTPUT_LIMIT_EXCEEDED"
      [] end = "nostart"              -> "SYSTEM_ERROR"

\* The texts StreamConsumer can hold of an output.  Past the cap it keeps the
\* beginning, which can read as anything, but only blanks begin a blank output.
\* (A cap spent by stderr can leave stdout whole.)
Kept(end, out) == IF end \in {"flood0", "flood1"} /\ out # "blank" THEN Outs ELSE {out}

\* Its stdout: nothing of a run that was killed or never started.
Stdout(end, kept) == IF end \in {"hang", "nostart"} THEN "blank" ELSE kept

\* exit_code is not None and not 0.
BadExit(end) == end \in {"exit1", "hang", "flood1"}

\* A bug: what did not crash by its status is compared.
VerdictByStatus(test, end, kept, slow) ==
    IF Status(end) = "TIME_LIMIT_EXCEEDED" \/ slow THEN "TIME_LIMIT_EXCEEDED"
    ELSE IF Status(end) = "RUNTIME_ERROR" THEN "RUNTIME_ERROR"
    ELSE IF Stdout(end, kept) = test.expected THEN "ACCEPTED" ELSE "WRONG_ANSWER"

\* The first rule that applies.  slow: execution_time_ms, which includes the
\* compiler's time, is over time_limit_ms.  (ProcessSandbox reports no memory,
\* so the rule on memory never applies.)  An output past the cap and a sandbox
\* that reports SYSTEM_ERROR have no rule: their output is compared.
Verdict(test, end, kept, slow) ==
    IF Status(end) = "TIME_LIMIT_EXCEEDED" \/ slow THEN "TIME_LIMIT_EXCEEDED"
    ELSE IF Status(end) = "RUNTIME_ERROR" \/ BadExit(end) THEN "RUNTIME_ERROR"
    ELSE IF Stdout(end, kept) = test.expected THEN "ACCEPTED" ELSE "WRONG_ANSWER"

Next1 == Len(results) + 1   \* the test to run
ToRun == pc = "grading" /\ Len(results) < Len(suite)

\* One turn of the loop: run a test, judge it, count it.
RunTest ==
    /\ ToRun
    /\ \E end \in Ends, out \in Outs, slow \in BOOLEAN : \E kept \in Kept(end, out) :
        LET test == suite[Next1]
            v    == Verdict(test, end, kept, slow /\ end # "nostart")
            gain == IF v = "ACCEPTED" THEN test.weight ELSE 0
        IN  /\ results' = Append(results, [status |-> v, points |-> gain])
            /\ score' = score + gain
            /\ passed' = passed + (IF v = "ACCEPTED" THEN 1 ELSE 0)
            /\ truth' = Append(truth, [end |-> end, out |-> out, kept |-> kept])
    /\ UNCHANGED <<pc, suite, compile, row, answers>>

\* execute raises (an unknown language, no space for its directory): the test
\* is a SYSTEM_ERROR and the loop goes on.
SandboxRaises ==
    /\ ToRun
    /\ results' = Append(results, [status |-> "SYSTEM_ERROR", points |-> 0])
    /\ truth' = Append(truth, [end |-> "nostart", out |-> "blank", kept |-> "blank"])
    /\ UNCHANGED <<pc, suite, score, passed, compile, row, answers>>

Refused(n) == [i \in 1..n |-> [status |-> "COMPILE_ERROR", points |-> 0]]

\* A bug: the loop is left without a result for the tests not run.
CompileFailsShort ==
    /\ ToRun
    /\ \E text \in {"empty", "text"} : compile' = text
    /\ results' = results \o Refused(1)
    /\ pc' = "store"
    /\ UNCHANGED <<suite, score, passed, row, answers, truth>>

\* Every test compiles anew, so the compiler can refuse, or miss its 10 s, on
\* any of them; that ends the loop and all tests left are COMPILE_ERRORs.  A
\* compiler that fails in silence leaves an empty text.
CompileFails ==
    /\ ToRun
    /\ \E text \in {"empty", "text"} : compile' = text
    /\ results' = results \o Refused(Len(suite) - Len(results))
    /\ pc' = "store"
    /\ UNCHANGED <<suite, score, passed, row, answers, truth>>

LoopEnds ==
    /\ pc = "grading" /\ Len(results) = Len(suite)
    /\ pc' = "store"
    /\ UNCHANGED <<suite, results, score, passed, compile, row, answers, truth>>

-----------------------------------------------------------------------------
(* The overall verdict, its storing and its readers *)

PassedAny == \E i \in DOMAIN results : results[i].status = "ACCEPTED"
PassedAll == \A i \in DOMAIN results : results[i].status = "ACCEPTED"

\* A bug: the order of the questions swapped.
OverallAnyFirst ==
    IF compile = "text" THEN "COMPILE_ERROR"
    ELSE IF PassedAny THEN "PARTIAL"
    ELSE IF PassedAll THEN "ACCEPTED" ELSE results[1].status

\* _determine_overall_status: an empty compile error counts as none.
Overall ==
    IF compile = "text" THEN "COMPILE_ERROR"
    ELSE IF PassedAll THEN "ACCEPTED"
    ELSE IF PassedAny THEN "PARTIAL" ELSE results[1].status

Summary == [status |-> "COMPLETED", grade |-> Overall, score |-> score, card |-> results]

\* A bug: the summary is answered and never committed.
StoreNothing ==
    /\ pc = "store"
    /\ pc' = "answer"
    /\ UNCHANGED <<suite, results, score, passed, compile, row, answers, truth>>

Store ==
    /\ pc = "store"
    /\ pc' = "answer"
    /\ row' = Summary
    /\ UNCHANGED <<suite, results, score, passed, compile, answers, truth>>

\* A commit raises: the request fails.  The database may have done it.
CommitFails ==
    /\ pc \in {"submitted", "store"}
    /\ pc' = "failed"
    /\ \/ UNCHANGED row
       \/ row' = IF pc = "store" THEN Summary ELSE [row EXCEPT !.status = "GRADING"]
    /\ UNCHANGED <<suite, results, score, passed, compile, answers, truth>>

\* The API's process ends: nothing takes the row up again.
ApiDies ==
    /\ pc \notin {"done", "failed"}
    /\ pc' = "failed"
    /\ UNCHANGED <<suite, results, score, passed, compile, row, answers, truth>>

Answer ==
    /\ pc = "answer"
    /\ pc' = "done"
    /\ answers' = answers \cup {[grade |-> Overall, score |-> score, card |-> results]}
    /\ UNCHANGED <<suite, results, score, passed, compile, row, truth>>

\* get_grading_scorecard: a row without a summary answers 404.
ReadScorecard ==
    /\ row.card # NoCard
    /\ answers' = answers \cup {[grade |-> row.grade, score |-> row.score, card |-> row.card]}
    /\ UNCHANGED <<pc, suite, results, score, passed, compile, row, truth>>

Next ==
    \/ Accept \/ RunTest \/ SandboxRaises \/ CompileFails \/ LoopEnds
    \/ Store \/ CommitFails \/ ApiDies \/ Answer \/ ReadScorecard

Spec == Init /\ [][Next]_vars

-----------------------------------------------------------------------------
(* Properties *)

\* A stored score is the sum of the weights of exactly the tests its card calls
\* accepted, and the card has one entry for every test of the problem, however
\* the loop over the tests was left (evaluate_submission's counters, its fill of
\* the tests a compile error leaves and its early break).
ScoreIsEarned ==
    /\ passed = Cardinality({i \in DOMAIN results : results[i].status = "ACCEPTED"})
    /\ score = Points(results)
    /\ row.status = "COMPLETED" =>
        /\ Len(row.card) = Len(suite)
        /\ row.score = Points(row.card)
        /\ \A i \in DOMAIN suite :
            row.card[i].points = IF row.card[i].status = "ACCEPTED" THEN suite[i].weight ELSE 0

\* A test is accepted only if the program ended by itself, with exit code 0, and
\* printed the expected output.  Two exceptions are what the code allows: of a
\* program that prints past the cap only the kept beginning is compared, and a
\* program that never started is accepted when the expected output is blank.
PassIsEarned ==
    \A i \in DOMAIN truth :
        results[i].status = "ACCEPTED" =>
            \/ truth[i].end = "exit0"   /\ truth[i].out  = suite[i].expected
            \/ truth[i].end = "flood0"  /\ truth[i].kept = suite[i].expected
            \/ truth[i].end = "nostart" /\ suite[i].expected = "blank"

AcceptedIn(card) == {i \in DOMAIN card : card[i].status = "ACCEPTED"}

\* The overall verdict tells how many tests of the card are accepted: all of
\* them, some of them, or none, except COMPILE_ERROR: a compiler that fails on a
\* later test leaves the points of the earlier ones.  Full marks come with all
\* and no mark with none.  Where every weight is positive the score tells the
\* same; it does not in general: a test of weight zero leaves ACCEPTED and
\* PARTIAL with equal scores (_determine_overall_status against the counters of
\* evaluate_submission).
GradeMatchesScore ==
    row.status = "COMPLETED" =>
        /\ row.grade = "ACCEPTED" <=> AcceptedIn(row.card) = DOMAIN suite
        /\ row.grade = "PARTIAL" => AcceptedIn(row.card) \notin {{}, DOMAIN suite}
        /\ AcceptedIn(row.card) # {} => row.grade \in {"ACCEPTED", "PARTIAL", "COMPILE_ERROR"}
        /\ row.grade = "COMPILE_ERROR" => row.card[Len(suite)].status = "COMPILE_ERROR"
        /\ row.grade = "ACCEPTED" => row.score = Weights(suite)
        /\ AcceptedIn(row.card) = {} => row.score = 0
        /\ (\A i \in DOMAIN suite : suite[i].weight > 0) =>
            /\ row.grade = "ACCEPTED" <=> row.score = Weights(suite)
            /\ row.grade = "PARTIAL" => row.score \in 1..(Weights(suite) - 1)
            /\ row.score > 0 => row.grade \in {"ACCEPTED", "PARTIAL", "COMPILE_ERROR"}

\* Every scorecard handed out, by the submission's answer or by a later reading,
\* is the stored one: nobody is told a grade that the database does not hold
\* (submit_and_grade_problem commits before it answers).
AnswersAreStored ==
    \A a \in answers :
        row.status = "COMPLETED" /\ a = [grade |-> row.grade, score |-> row.score, card |-> row.card]

=============================================================================
