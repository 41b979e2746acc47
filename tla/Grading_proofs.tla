---------------------------- MODULE Grading_proofs ----------------------------
(***************************************************************************)
(* A grade is what the program earned, and no scorecard is handed out that *)
(* the database does not hold, whatever the suite, the program, the        *)
(* compiler and the failures.  And, from OutputVerifier on, when an output *)
(* counts as the expected one, for all texts and all readings of a token.  *)
(***************************************************************************)
EXTENDS Grading, OutputVerifier, FiniteSetTheorems, SequenceTheorems, WellFoundedInduction,
        NaturalsInduction, TLAPS

-----------------------------------------------------------------------------
(* Sums, by induction on the number of terms *)

\* A set of numbers that is not empty has a least one.
LEMMA LeastNumber ==
    ASSUME NEW T \in SUBSET Nat, T # {}
    PROVE  \E m \in T : \A k \in T : m <= k
  <1> DEFINE R == OpToRel(<, Nat)
  <1>1. IsWellFoundedOn(R, Nat)
    BY NatLessThanWellFounded
  <1>2. \A a, b \in Nat : a < b => <<a, b>> \in R
    BY DEF OpToRel
  <1> HIDE DEF R
  <1>3. PICK m \in T : \A k \in T : ~(<<k, m>> \in R)
    BY <1>1, WFMin
  <1>4. \A k \in T : k \in Nat /\ ~(k < m)
    BY <1>2, <1>3
  <1> QED BY <1>4

\* A set with zero and every successor of its members holds every number: the
\* form in which induction is used below.
LEMMA SetInduction ==
    ASSUME NEW T, 0 \in T, \A n \in Nat : n \in T => n + 1 \in T
    PROVE  Nat \subseteq T
  <1> DEFINE U == Nat \ T
  <1>1. SUFFICES ASSUME U # {} PROVE FALSE
    OBVIOUS
  <1>2. PICK m \in U : \A k \in U : m <= k
    BY <1>1, LeastNumber
  <1>3. m # 0 /\ m \in Nat /\ m - 1 \in Nat /\ m - 1 \notin U
    BY <1>2
  <1>4. m - 1 \in T
    BY <1>3
  <1> QED BY <1>2, <1>3, <1>4

\* The equation that SumTo's recursion has to meet.
Sums(g, f, n) == g = [i \in 0..n |-> IF i = 0 THEN 0 ELSE g[i - 1] + f[i]]

\* A function meets it, for every number of terms.
LEMMA SumsExist == ASSUME NEW f, NEW n \in Nat PROVE \E g : Sums(g, f, n)
  <1> DEFINE T == {k \in Nat : \E g : Sums(g, f, k)}
  <1>1. 0 \in T
    <2>1. Sums([i \in 0..0 |-> 0], f, 0)
      BY DEF Sums
    <2> QED BY <2>1
  <1>2. ASSUME NEW k \in Nat, k \in T PROVE k + 1 \in T
    <2>1. PICK g : Sums(g, f, k)
      BY <1>2
    <2> DEFINE h == [i \in 0..(k + 1) |-> IF i = k + 1 THEN g[k] + f[k + 1] ELSE g[i]]
    <2>2. \A i \in 0..k : g[i] = IF i = 0 THEN 0 ELSE g[i - 1] + f[i]
      BY <2>1 DEF Sums
    <2>3. ASSUME NEW i \in 0..(k + 1) PROVE h[i] = IF i = 0 THEN 0 ELSE h[i - 1] + f[i]
      <3>1. CASE i = k + 1
        BY <3>1
      <3>2. CASE i # k + 1
        <4>1. i \in 0..k /\ (i # 0 => i - 1 \in 0..k)
          BY <3>2
        <4>2. h[i] = g[i] /\ (i # 0 => h[i - 1] = g[i - 1])
          BY <4>1
        <4> HIDE DEF h
        <4> QED BY <2>2, <4>1, <4>2
      <3> QED BY <3>1, <3>2
    <2>4. Sums(h, f, k + 1)
      BY <2>3 DEF Sums
    <2> QED BY <2>4
  <1> HIDE DEF T
  <1>3. Nat \subseteq T
    BY <1>1, <1>2, SetInduction
  <1> QED BY <1>3 DEF T

\* Two functions that meet it agree where both are defined.
LEMMA SumsAgree ==
    ASSUME NEW f, NEW m \in Nat, NEW n \in Nat, m <= n, NEW g, NEW h, Sums(g, f, m), Sums(h, f, n)
    PROVE  \A i \in 0..m : g[i] = h[i]
  <1> DEFINE T == {i \in Nat : i <= m => g[i] = h[i]}
  <1>0. /\ \A i \in 0..m : g[i] = IF i = 0 THEN 0 ELSE g[i - 1] + f[i]
        /\ \A i \in 0..n : h[i] = IF i = 0 THEN 0 ELSE h[i - 1] + f[i]
    BY DEF Sums
  <1>1. 0 \in T
    BY <1>0
  <1>2. ASSUME NEW k \in Nat, k \in T PROVE k + 1 \in T
    BY <1>0, <1>2
  <1> HIDE DEF T
  <1>3. Nat \subseteq T
    BY <1>1, <1>2, SetInduction
  <1> QED BY <1>3 DEF T

\* No term, and one term more.
LEMMA SumSteps ==
    ASSUME NEW f
    PROVE  /\ SumTo(f, 0) = 0
           /\ \A n \in Nat : SumTo(f, n + 1) = SumTo(f, n) + f[n + 1]
  <1>1. ASSUME NEW n \in Nat PROVE \E g : Sums(g, f, n) /\ SumTo(f, n) = g[n]
    <2> DEFINE sum == CHOOSE g : g = [i \in 0..n |-> IF i = 0 THEN 0 ELSE g[i - 1] + f[i]]
    <2>1. Sums(sum, f, n)
      BY SumsExist DEF Sums
    <2>2. SumTo(f, n) = sum[n]
      BY DEF SumTo
    <2> HIDE DEF sum
    <2> QED BY <2>1, <2>2
  <1>2. SumTo(f, 0) = 0
    <2>1. PICK g : Sums(g, f, 0) /\ SumTo(f, 0) = g[0]
      BY <1>1
    <2> QED BY <2>1 DEF Sums
  <1>3. ASSUME NEW n \in Nat PROVE SumTo(f, n + 1) = SumTo(f, n) + f[n + 1]
    <2>1. PICK g : Sums(g, f, n) /\ SumTo(f, n) = g[n]
      BY <1>1
    <2>2. PICK h : Sums(h, f, n + 1) /\ SumTo(f, n + 1) = h[n + 1]
      BY <1>1
    <2>3. g[n] = h[n]
      BY <2>1, <2>2, SumsAgree
    <2>4. h[n + 1] = h[n] + f[n + 1]
      BY <2>2 DEF Sums
    <2> QED BY <2>1, <2>2, <2>3, <2>4
  <1> QED BY <1>2, <1>3

\* A sum depends on its terms only.
LEMMA SumSame ==
    ASSUME NEW f, NEW g, NEW n \in Nat, \A i \in 1..n : f[i] = g[i]
    PROVE  SumTo(f, n) = SumTo(g, n)
  <1> DEFINE T == {k \in Nat : k <= n => SumTo(f, k) = SumTo(g, k)}
  <1>1. 0 \in T
    BY SumSteps
  <1>2. ASSUME NEW k \in Nat, k \in T PROVE k + 1 \in T
    BY <1>2, SumSteps
  <1> HIDE DEF T
  <1>3. Nat \subseteq T
    BY <1>1, <1>2, SetInduction
  <1> QED BY <1>3 DEF T

\* A sum of integers is one.
LEMMA SumInt ==
    ASSUME NEW f, NEW n \in Nat, \A i \in 1..n : f[i] \in Int
    PROVE  SumTo(f, n) \in Int
  <1> DEFINE T == {k \in Nat : k <= n => SumTo(f, k) \in Int}
  <1>1. 0 \in T
    BY SumSteps
  <1>2. ASSUME NEW k \in Nat, k \in T PROVE k + 1 \in T
    BY <1>2, SumSteps
  <1> HIDE DEF T
  <1>3. Nat \subseteq T
    BY <1>1, <1>2, SetInduction
  <1> QED BY <1>3 DEF T

\* Terms that are not greater have a sum that is not greater, and a smaller one
\* if some term is smaller.
LEMMA SumCompare ==
    ASSUME NEW f, NEW g, NEW n \in Nat,
           \A i \in 1..n : f[i] \in Nat /\ g[i] \in Nat /\ f[i] <= g[i]
    PROVE  /\ SumTo(f, n) <= SumTo(g, n)
           /\ \A j \in 1..n : f[j] < g[j] => SumTo(f, n) < SumTo(g, n)
  <1> DEFINE F(k) == SumTo(f, k)
             G(k) == SumTo(g, k)
             C(k) == /\ F(k) \in Nat /\ G(k) \in Nat
                     /\ F(k) <= G(k)
                     /\ \A j \in 1..k : f[j] < g[j] => F(k) < G(k)
             T == {k \in Nat : k <= n => C(k)}
  <1>0. /\ F(0) = 0 /\ G(0) = 0
        /\ \A k \in Nat : F(k + 1) = F(k) + f[k + 1] /\ G(k + 1) = G(k) + g[k + 1]
    BY SumSteps
  <1> HIDE DEF F, G
  <1>1. 0 \in T
    BY <1>0
  <1>2. ASSUME NEW k \in Nat, k \in T PROVE k + 1 \in T
    <2>1. SUFFICES ASSUME k + 1 <= n PROVE C(k + 1)
      OBVIOUS
    <2>2. C(k) /\ f[k + 1] \in Nat /\ g[k + 1] \in Nat /\ f[k + 1] <= g[k + 1]
      BY <1>2, <2>1
    <2>3. F(k + 1) \in Nat /\ G(k + 1) \in Nat /\ F(k + 1) <= G(k + 1)
      BY <1>0, <2>2
    <2>4. ASSUME NEW j \in 1..(k + 1), f[j] < g[j] PROVE F(k + 1) < G(k + 1)
      <3>1. CASE j = k + 1
        BY <1>0, <2>2, <2>4, <3>1
      <3>2. CASE j \in 1..k
        BY <1>0, <2>2, <2>4, <3>2
      <3> QED BY <3>1, <3>2
    <2> QED BY <2>3, <2>4
  <1> HIDE DEF T
  <1>3. Nat \subseteq T
    BY <1>1, <1>2, SetInduction
  <1>4. C(n)
    BY <1>3 DEF T
  <1> QED BY <1>4 DEF F, G
\* Terms that are zero add nothing.
LEMMA SumZeros ==
    ASSUME NEW f, NEW m \in Nat, NEW n \in Nat, m <= n, SumTo(f, m) \in Int,
           \A i \in (m + 1)..n : f[i] = 0
    PROVE  SumTo(f, n) = SumTo(f, m)
  <1> DEFINE T == {k \in Nat : m <= k /\ k <= n => SumTo(f, k) = SumTo(f, m)}
  <1>1. 0 \in T
    OBVIOUS
  <1>2. ASSUME NEW k \in Nat, k \in T PROVE k + 1 \in T
    BY <1>2, SumSteps
  <1> HIDE DEF T
  <1>3. Nat \subseteq T
    BY <1>1, <1>2, SetInduction
  <1> QED BY <1>3 DEF T

-----------------------------------------------------------------------------
(* Score, verdicts and grade *)

Statuses == {"ACCEPTED", "WRONG_ANSWER", "TIME_LIMIT_EXCEEDED", "RUNTIME_ERROR",
             "SYSTEM_ERROR", "COMPILE_ERROR"}
Results  == [status : Statuses, points : Int]
Runs     == [end : Ends, out : Outs, kept : Outs]
Accepted == {i \in DOMAIN results : results[i].status = "ACCEPTED"}
Gain(r, t) == IF r.status = "ACCEPTED" THEN t.weight ELSE 0

\* The counters of evaluate_submission are those of the results so far.
CountInv ==
    /\ suite \in Seq(Tests) \ {<< >>}
    /\ results \in Seq(Results)
    /\ Len(results) <= Len(suite)
    /\ \A i \in 1..Len(results) : results[i].points = Gain(results[i], suite[i])
    /\ score = Points(results)
    /\ passed = Cardinality(Accepted)

\* A compile error ends the loop and marks the last test; the loop is left with
\* a result for every test.
LoopInv ==
    /\ pc \in {"submitted", "grading", "store", "answer", "done", "failed"}
    /\ compile \in {"none", "empty", "text"}
    /\ pc \in {"store", "answer", "done"} => Len(results) = Len(suite)
    /\ compile = "none" => \A i \in 1..Len(results) : results[i].status # "COMPILE_ERROR"
    /\ compile # "none" => /\ pc \notin {"submitted", "grading"}
                           /\ Len(results) = Len(suite)
                           /\ results[Len(suite)].status = "COMPILE_ERROR"

\* What is known of the program is of the tests that were run, from the first.
TruthInv ==
    /\ truth \in Seq(Runs)
    /\ Len(truth) <= Len(results)
    /\ compile = "none" => Len(truth) = Len(results)
    /\ PassIsEarned

\* A row in COMPLETED is the summary of all results, and none is added to them.
RowInv ==
    /\ pc = "submitted" => row = [status |-> "none", grade |-> "none", score |-> 0, card |-> NoCard]
    /\ row.status = "COMPLETED" => /\ pc \notin {"submitted", "grading", "store"}
                                   /\ Len(results) = Len(suite)
                                   /\ row = Summary

GradeInv == CountInv /\ LoopInv /\ TruthInv /\ RowInv

USE GradingAssumption

\* What every element of a sequence over S is.
LEMMA SeqElements ==
    ASSUME NEW S, NEW s \in Seq(S)
    PROVE  \A i \in 1..Len(s) : s[i] \in S
  OBVIOUS

\* The weight of every test is an integer.
LEMMA WeightsWhole ==
    ASSUME NEW tests \in Seq(Tests)
    PROVE  \A i \in 1..Len(tests) : tests[i].weight \in Int
  <1>1. \A i \in 1..Len(tests) : tests[i] \in Tests
    BY SeqElements
  <1> QED BY <1>1 DEF Tests

\* The points of one result more.
LEMMA PointsOfOneMore ==
    ASSUME NEW card \in Seq(Results), NEW r \in Results
    PROVE  Points(Append(card, r)) = Points(card) + r.points
  <1> DEFINE more == Append(card, r)
             n == Len(card)
             f == [i \in DOMAIN card |-> card[i].points]
             g == [i \in DOMAIN more |-> more[i].points]
  <1>1. n \in Nat /\ Len(more) = n + 1 /\ more \in Seq(Results)
    OBVIOUS
  <1>2. g[n + 1] = r.points /\ \A i \in 1..n : g[i] = f[i]
    OBVIOUS
  <1>3. Points(card) = SumTo(f, n) /\ Points(more) = SumTo(g, n + 1)
    BY <1>1 DEF Points
  <1> HIDE DEF f, g, more, n
  <1>4. SumTo(g, n + 1) = SumTo(g, n) + g[n + 1]
    BY <1>1, SumSteps
  <1>5. SumTo(g, n) = SumTo(f, n)
    BY <1>1, <1>2, SumSame
  <1> QED BY <1>2, <1>3, <1>4, <1>5 DEF more

\* What the counters gain by one result.
LEMMA CountOneMore ==
    ASSUME CountInv, Len(results) < Len(suite), UNCHANGED suite,
           NEW r \in Results, results' = Append(results, r),
           r.points = Gain(r, suite[Len(results) + 1]),
           score' = score + r.points,
           passed' = passed + (IF r.status = "ACCEPTED" THEN 1 ELSE 0)
    PROVE  CountInv'
  <1> DEFINE n == Len(results)
  <1>0. results \in Seq(Results) /\ suite' = suite /\ suite \in Seq(Tests) \ {<< >>}
    BY DEF CountInv
  <1>1. /\ n \in Nat /\ Len(results') = n + 1 /\ results' \in Seq(Results)
        /\ \A i \in 1..n : results'[i] = results[i]
        /\ results'[n + 1] = r
        /\ DOMAIN results = 1..n /\ DOMAIN results' = 1..(n + 1)
    BY <1>0
  <1>2. \A i \in 1..Len(results') : results'[i].points = Gain(results'[i], suite'[i])
    <2> SUFFICES ASSUME NEW i \in 1..(n + 1) PROVE results'[i].points = Gain(results'[i], suite[i])
      BY <1>0, <1>1
    <2>1. CASE i = n + 1
      BY <1>1, <2>1
    <2>2. CASE i \in 1..n
      BY <1>1, <2>2 DEF CountInv
    <2> QED BY <2>1, <2>2
  <1>3. score' = Points(results')
    BY <1>0, PointsOfOneMore DEF CountInv
  <1>4. passed' = Cardinality(Accepted')
    <2>1. IsFiniteSet(Accepted) /\ n + 1 \notin Accepted
      <3>1. n \in Nat /\ Accepted \subseteq 1..n
        BY <1>1 DEF Accepted
      <3>2. IsFiniteSet(1..n)
        BY <3>1, FS_Interval
      <3>3. IsFiniteSet(Accepted)
        BY <3>1, <3>2, FS_Subset
      <3> QED BY <3>1, <3>3
    <2>2. CASE r.status = "ACCEPTED"
      <3>1. Accepted' = Accepted \cup {n + 1}
        BY <1>1, <2>2 DEF Accepted
      <3>2. Cardinality(Accepted') = Cardinality(Accepted) + 1
        BY <2>1, <3>1, FS_AddElement
      <3> QED BY <2>2, <3>2 DEF CountInv
    <2>3. CASE r.status # "ACCEPTED"
      <3>1. Accepted' = Accepted
        BY <1>1, <2>3 DEF Accepted
      <3>2. Cardinality(Accepted) \in Nat
        BY <2>1, FS_CardinalityType
      <3> QED BY <2>3, <3>1, <3>2 DEF CountInv
    <2> QED BY <2>2, <2>3
  <1>5. Len(results') <= Len(suite')
    BY <1>0, <1>1
  <1> QED BY <1>0, <1>1, <1>2, <1>3, <1>4, <1>5 DEF CountInv

\* What Store writes, field by field.
LEMMA SummaryFields ==
    /\ Summary.status = "COMPLETED" /\ Summary.grade = Overall
    /\ Summary.score = score /\ Summary.card = results
  BY DEF Summary

\* A submission begins with no result, no point and nothing known.
LEMMA InitGrade == Init => GradeInv
  <1> SUFFICES ASSUME Init PROVE GradeInv
    OBVIOUS
  <1>1. suite \in Seq(Tests) \ {<< >>} /\ results = << >> /\ truth = << >>
    BY DEF Init
  <1>2. Points(<< >>) = 0
    BY SumSteps DEF Points
  <1>3. Accepted = {} /\ Cardinality({}) = 0
    BY <1>1, FS_EmptySet DEF Accepted
  <1>4. CountInv
    BY <1>1, <1>2, <1>3 DEF Init, CountInv
  <1>5. LoopInv /\ RowInv
    BY <1>1 DEF Init, LoopInv, RowInv
  <1>6. TruthInv
    BY <1>1 DEF TruthInv, PassIsEarned
  <1> QED BY <1>4, <1>5, <1>6 DEF GradeInv

\* What PassIsEarned asks of one accepted test.
Earned(t, test) ==
    \/ t.end = "exit0"   /\ t.out  = test.expected
    \/ t.end = "flood0"  /\ t.kept = test.expected
    \/ t.end = "nostart" /\ test.expected = "blank"

\* A test that was run: what its verdict asks of the program.
LEMMA VerdictIsEarned ==
    ASSUME NEW test \in Tests, NEW end \in Ends, NEW out \in Outs, NEW slow \in BOOLEAN,
           NEW kept \in Kept(end, out)
    PROVE  /\ kept \in Outs
           /\ Verdict(test, end, kept, slow) \in Statuses \ {"COMPILE_ERROR"}
           /\ Verdict(test, end, kept, slow) = "ACCEPTED" =>
                Earned([end |-> end, out |-> out, kept |-> kept], test)
  <1>1. kept \in Outs /\ (end = "exit0" => kept = out)
    BY DEF Kept, Ends
  <1>2. Verdict(test, end, kept, slow) \in Statuses \ {"COMPILE_ERROR"}
    BY <1>1 DEF Ends, Verdict, Status, Stdout, BadExit, Statuses
  <1>3. Verdict(test, end, kept, slow) = "ACCEPTED" =>
            /\ end \in {"exit0", "flood0", "nostart"}
            /\ Stdout(end, kept) = test.expected
    BY DEF Ends, Verdict, Status, BadExit
  <1> QED BY <1>1, <1>2, <1>3 DEF Stdout, Earned

\* One more test judged.
LEMMA JudgeOne ==
    ASSUME GradeInv, ToRun, NEW r \in Results, r.status # "COMPILE_ERROR",
           NEW t \in Runs,
           results' = Append(results, r), truth' = Append(truth, t),
           r.points = Gain(r, suite[Len(results) + 1]),
           score' = score + r.points,
           passed' = passed + (IF r.status = "ACCEPTED" THEN 1 ELSE 0),
           r.status = "ACCEPTED" => Earned(t, suite[Len(results) + 1]),
           UNCHANGED <<pc, suite, compile, row>>
    PROVE  GradeInv'
  <1> DEFINE n == Len(results)
  <1>0. /\ results \in Seq(Results) /\ truth \in Seq(Runs)
        /\ n < Len(suite) /\ pc = "grading" /\ compile = "none"
        /\ n \in Nat /\ Len(truth) = n /\ suite \in Seq(Tests)
        /\ UNCHANGED <<pc, suite, compile, row>>
    BY DEF GradeInv, CountInv, TruthInv, LoopInv, ToRun
  <1>1. /\ Len(results') = n + 1 /\ results'[n + 1] = r
        /\ \A i \in 1..n : results'[i] = results[i]
        /\ truth' \in Seq(Runs) /\ Len(truth') = n + 1 /\ truth'[n + 1] = t
        /\ \A i \in 1..n : truth'[i] = truth[i]
        /\ DOMAIN truth = 1..n /\ DOMAIN truth' = 1..(n + 1)
    BY <1>0
  <1>2. CountInv'
    BY <1>0, CountOneMore DEF GradeInv
  <1>3. LoopInv'
    <2>1. \A i \in 1..(n + 1) : results'[i].status # "COMPILE_ERROR"
      BY <1>0, <1>1 DEF GradeInv, LoopInv
    <2> QED BY <1>0, <1>1, <2>1 DEF LoopInv
  <1>4. PassIsEarned'
    <2> SUFFICES ASSUME NEW i \in 1..(n + 1), results'[i].status = "ACCEPTED"
                 PROVE  Earned(truth'[i], suite[i])
      BY <1>0, <1>1 DEF PassIsEarned, Earned
    <2>1. CASE i = n + 1
      BY <1>1, <2>1
    <2>2. CASE i \in 1..n
      BY <1>1, <2>2 DEF GradeInv, TruthInv, PassIsEarned, Earned
    <2>3. i = n + 1 \/ i \in 1..n
      <3>1. n \in Nat
        BY <1>0
      <3> QED BY <3>1
    <2> QED BY <2>1, <2>2, <2>3
  <1>5. TruthInv'
    BY <1>1, <1>4 DEF TruthInv
  <1>6. RowInv'
    BY <1>0 DEF GradeInv, RowInv
  <1> QED BY <1>2, <1>3, <1>5, <1>6 DEF GradeInv

\* The compiler refuses: every test left is marked, and gains nothing.
LEMMA RefuseRest == ASSUME GradeInv, CompileFails PROVE GradeInv'
  <1> DEFINE m == Len(results)
             n == Len(suite)
             rest == Refused(n - m)
             f == [i \in DOMAIN results |-> results[i].points]
             g == [i \in DOMAIN results' |-> results'[i].points]
  <1>0. /\ results \in Seq(Results) /\ suite \in Seq(Tests) \ {<< >>}
        /\ m < n /\ m \in Nat /\ n \in Nat /\ pc = "grading" /\ pc' = "store"
        /\ compile' \in {"empty", "text"}
        /\ UNCHANGED <<suite, score, passed, row, truth>>
        /\ results' = results \o rest
    BY DEF GradeInv, CountInv, CompileFails, ToRun
  <1>1. /\ rest \in Seq(Results) /\ Len(rest) = n - m
        /\ \A i \in 1..(n - m) : rest[i] = [status |-> "COMPILE_ERROR", points |-> 0]
    <2>1. [status |-> "COMPILE_ERROR", points |-> 0] \in Results
      BY DEF Results, Statuses
    <2> QED BY <1>0, <2>1 DEF Refused
  <1> HIDE DEF rest
  <1>2. /\ results' \in Seq(Results) /\ Len(results') = n
        /\ \A i \in 1..m : results'[i] = results[i]
        /\ \A i \in (m + 1)..n : results'[i] = [status |-> "COMPILE_ERROR", points |-> 0]
        /\ DOMAIN results = 1..m /\ DOMAIN results' = 1..n
    BY <1>0, <1>1
  <1>3. Points(results') = Points(results)
    <2>1. Points(results) = SumTo(f, m) /\ Points(results') = SumTo(g, n)
      BY <1>2 DEF Points
    <2>2. /\ \A i \in 1..m : f[i] = g[i] /\ f[i] \in Int
          /\ \A i \in (m + 1)..n : g[i] = 0
      <3>1. \A i \in 1..m : results[i].points \in Int
        <4>1. \A i \in 1..m : results[i] \in Results
          BY <1>0, SeqElements
        <4> QED BY <4>1 DEF Results
      <3>2. \A i \in 1..m : i \in 1..n
        BY <1>0
      <3>3. \A i \in 1..m : f[i] = results[i].points /\ g[i] = results'[i].points
        BY <1>2, <3>2
      <3>4. \A i \in (m + 1)..n : i \in 1..n
        BY <1>0
      <3>5. \A i \in (m + 1)..n : g[i] = results'[i].points
        BY <1>2, <3>4
      <3> HIDE DEF f, g
      <3> QED BY <1>2, <3>1, <3>3, <3>5
    <2> HIDE DEF f, g
    <2>3. SumTo(f, m) = SumTo(g, m) /\ SumTo(f, m) \in Int
      BY <1>0, <2>2, SumSame, SumInt
    <2>4. SumTo(g, n) = SumTo(g, m)
      BY <1>0, <2>2, <2>3, SumZeros
    <2> QED BY <2>1, <2>3, <2>4
  <1>4. CountInv'
    <2>1. \A i \in 1..n : results'[i].points = Gain(results'[i], suite[i])
      <3> SUFFICES ASSUME NEW i \in 1..n PROVE results'[i].points = Gain(results'[i], suite[i])
        OBVIOUS
      <3>1. CASE i \in 1..m
        BY <1>2, <3>1 DEF GradeInv, CountInv
      <3>2. CASE i \in (m + 1)..n
        BY <1>2, <3>2 DEF Gain
      <3>3. i \in 1..m \/ i \in (m + 1)..n
        <4>1. m \in Nat /\ n \in Nat
          BY <1>0
        <4> QED BY <4>1
      <3> QED BY <3>1, <3>2, <3>3
    <2>2. Accepted' = Accepted
      BY <1>0, <1>2 DEF Accepted
    <2> QED BY <1>0, <1>2, <1>3, <2>1, <2>2 DEF GradeInv, CountInv
  <1>5. LoopInv'
    <2>1. results'[n].status = "COMPILE_ERROR"
      BY <1>0, <1>2
    <2> QED BY <1>0, <1>2, <2>1 DEF LoopInv
  <1>6. TruthInv'
    <2>1. DOMAIN truth = 1..m
      BY <1>0 DEF GradeInv, TruthInv, LoopInv
    <2>2. PassIsEarned'
      BY <1>0, <1>2, <2>1 DEF GradeInv, TruthInv, PassIsEarned
    <2> QED BY <1>0, <1>2, <2>2 DEF GradeInv, TruthInv
  <1>7. RowInv'
    BY <1>0 DEF GradeInv, RowInv
  <1> QED BY <1>4, <1>5, <1>6, <1>7 DEF GradeInv

\* The steps that judge nothing.
LEMMA GradeQuiet ==
    ASSUME GradeInv, UNCHANGED <<suite, results, score, passed, compile, truth>>,
           pc' \in {"submitted", "grading", "store", "answer", "done", "failed"},
           pc' \in {"submitted", "grading"} => pc \in {"submitted", "grading"},
           pc' \in {"store", "answer", "done"} => Len(results) = Len(suite),
           RowInv'
    PROVE  GradeInv'
  <1>1. CountInv'
    BY DEF GradeInv, CountInv, Accepted
  <1>2. LoopInv'
    BY DEF GradeInv, LoopInv
  <1>3. TruthInv'
    BY DEF GradeInv, TruthInv, PassIsEarned
  <1> QED BY <1>1, <1>2, <1>3 DEF GradeInv

\* Every step of the request, its failures and its readers keeps GradeInv.
LEMMA NextGrade == ASSUME GradeInv, [Next]_vars PROVE GradeInv'
  <1>0. LoopInv /\ RowInv /\ CountInv
    BY DEF GradeInv
  <1>s. UNCHANGED <<suite, results, score, compile>> => Summary' = Summary
    BY DEF Summary, Overall, PassedAll, PassedAny
  <1>1. CASE Accept
    <2>1. RowInv'
      BY <1>0, <1>1 DEF Accept, RowInv
    <2> QED BY <1>1, <2>1, GradeQuiet DEF Accept
  <1>2. CASE RunTest
    <2>0. PICK end \in Ends, out \in Outs, slow \in BOOLEAN : \E kept \in Kept(end, out) :
              LET test == suite[Next1]
                  v    == Verdict(test, end, kept, slow /\ end # "nostart")
                  gain == IF v = "ACCEPTED" THEN test.weight ELSE 0
              IN  /\ results' = Append(results, [status |-> v, points |-> gain])
                  /\ score' = score + gain
                  /\ passed' = passed + (IF v = "ACCEPTED" THEN 1 ELSE 0)
                  /\ truth' = Append(truth, [end |-> end, out |-> out, kept |-> kept])
      BY <1>2 DEF RunTest
    <2>1. PICK kept \in Kept(end, out) :
              LET test == suite[Next1]
                  v    == Verdict(test, end, kept, slow /\ end # "nostart")
                  gain == IF v = "ACCEPTED" THEN test.weight ELSE 0
              IN  /\ results' = Append(results, [status |-> v, points |-> gain])
                  /\ score' = score + gain
                  /\ passed' = passed + (IF v = "ACCEPTED" THEN 1 ELSE 0)
                  /\ truth' = Append(truth, [end |-> end, out |-> out, kept |-> kept])
      BY <2>0
    <2> DEFINE test == suite[Len(results) + 1]
               v    == Verdict(test, end, kept, slow /\ end # "nostart")
               gain == IF v = "ACCEPTED" THEN test.weight ELSE 0
               r    == [status |-> v, points |-> gain]
               t    == [end |-> end, out |-> out, kept |-> kept]
    <2>2. /\ results' = Append(results, r) /\ truth' = Append(truth, t)
          /\ score' = score + gain
          /\ passed' = passed + (IF v = "ACCEPTED" THEN 1 ELSE 0)
      BY <2>1 DEF Next1
    <2>3. test \in Tests /\ test.weight \in Int
      <3>1. Len(results) + 1 \in 1..Len(suite) /\ suite \in Seq(Tests)
        BY <1>0, <1>2 DEF CountInv, RunTest, ToRun
      <3> QED BY <3>1, SeqElements, WeightsWhole
    <2>4. kept \in Outs /\ v \in Statuses \ {"COMPILE_ERROR"} /\ (v = "ACCEPTED" => Earned(t, test))
      BY <2>3, VerdictIsEarned
    <2>5. UNCHANGED <<pc, suite, compile, row>> /\ ToRun
      BY <1>2 DEF RunTest
    <2> HIDE DEF v
    <2>6. r \in Results /\ r.status # "COMPILE_ERROR" /\ t \in Runs
      BY <2>3, <2>4 DEF Results, Runs
    <2>7. r.points = Gain(r, suite[Len(results) + 1])
      BY DEF Gain
    <2> QED BY <2>2, <2>4, <2>5, <2>6, <2>7, JudgeOne
  <1>3. CASE SandboxRaises
    <2> DEFINE r == [status |-> "SYSTEM_ERROR", points |-> 0]
               t == [end |-> "nostart", out |-> "blank", kept |-> "blank"]
    <2>1. r \in Results /\ t \in Runs
      BY DEF Results, Statuses, Runs, Ends, Outs
    <2>2. r.points = Gain(r, suite[Len(results) + 1])
      BY DEF Gain
    <2>3. score \in Int /\ passed \in Nat
      <3>1. results \in Seq(Results) /\ \A i \in 1..Len(results) : results[i].points \in Int
        <4>1. results \in Seq(Results)
          BY <1>0 DEF CountInv
        <4>2. \A i \in 1..Len(results) : results[i] \in Results
          BY <4>1, SeqElements
        <4> QED BY <4>1, <4>2 DEF Results
      <3>2. Points(results) \in Int
        BY <3>1, SumInt DEF Points
      <3>3. Cardinality(Accepted) \in Nat
        <4>1. IsFiniteSet(1..Len(results)) /\ Accepted \subseteq 1..Len(results)
          BY <3>1, FS_Interval DEF Accepted
        <4> QED BY <4>1, FS_Subset, FS_CardinalityType
      <3> QED BY <1>0, <3>2, <3>3 DEF CountInv
    <2>4. score' = score + r.points /\ passed' = passed + 0
      BY <1>3, <2>3 DEF SandboxRaises
    <2>5. UNCHANGED <<pc, suite, compile, row>> /\ ToRun
      BY <1>3 DEF SandboxRaises
    <2> QED BY <1>3, <2>1, <2>2, <2>4, <2>5, JudgeOne DEF SandboxRaises
  <1>4. CASE CompileFails
    BY <1>4, RefuseRest
  <1>5. CASE LoopEnds
    BY <1>0, <1>5, GradeQuiet DEF LoopEnds, RowInv
  <1>6. CASE Store
    <2>1. RowInv'
      BY <1>0, <1>6, <1>s DEF Store, RowInv, LoopInv
    <2> QED BY <1>0, <1>6, <2>1, GradeQuiet DEF Store, LoopInv
  <1>7. CASE CommitFails
    <2>1. RowInv'
      <3>1. CASE UNCHANGED row
        BY <1>0, <1>7, <1>s, <3>1 DEF CommitFails, RowInv
      <3>2. CASE pc = "store" /\ row' = Summary
        BY <1>0, <1>7, <1>s, <3>2 DEF CommitFails, RowInv, LoopInv
      <3>3. CASE pc = "submitted" /\ row' = [row EXCEPT !.status = "GRADING"]
        BY <1>0, <1>7, <3>3 DEF CommitFails, RowInv
      <3> QED BY <1>7, <3>1, <3>2, <3>3 DEF CommitFails
    <2> QED BY <1>7, <2>1, GradeQuiet DEF CommitFails
  <1>8. CASE ApiDies
    <2>1. RowInv'
      BY <1>0, <1>8, <1>s DEF ApiDies, RowInv
    <2> QED BY <1>8, <2>1, GradeQuiet DEF ApiDies
  <1>9. CASE Answer
    <2>1. RowInv'
      BY <1>0, <1>9, <1>s DEF Answer, RowInv
    <2> QED BY <1>0, <1>9, <2>1, GradeQuiet DEF Answer, LoopInv
  <1>10. CASE ReadScorecard
    <2>1. RowInv'
      BY <1>0, <1>10, <1>s DEF ReadScorecard, RowInv
    <2> QED BY <1>0, <1>10, <2>1, GradeQuiet DEF ReadScorecard, LoopInv
  <1>11. CASE UNCHANGED vars
    <2>1. RowInv'
      BY <1>0, <1>11, <1>s DEF vars, RowInv
    <2> QED BY <1>0, <1>11, <2>1, GradeQuiet DEF vars, LoopInv
  <1> QED BY <1>1, <1>2, <1>3, <1>4, <1>5, <1>6, <1>7, <1>8, <1>9, <1>10, <1>11 DEF Next

\* The marks of a finished run, by how many of its results are ACCEPTED: full
\* marks with all, none with none, and less than all and more than none in
\* between when every weight is positive.
LEMMA MarksAreFair ==
    ASSUME CountInv, Len(results) = Len(suite)
    PROVE  /\ score \in Int /\ Weights(suite) \in Int
           /\ PassedAll => score = Weights(suite)
           /\ ~PassedAny => score = 0
           /\ (\A i \in DOMAIN suite : suite[i].weight > 0) =>
               /\ ~PassedAll => score < Weights(suite)
               /\ PassedAny => score > 0
  <1> DEFINE n == Len(suite)
             f == [i \in DOMAIN results |-> results[i].points]
             g == [i \in DOMAIN suite |-> suite[i].weight]
             z == [i \in 1..n |-> 0]
  <1>1. /\ n \in Nat /\ n # 0 /\ DOMAIN suite = 1..n /\ DOMAIN results = 1..n
        /\ suite \in Seq(Tests) /\ score = Points(results)
    BY DEF CountInv
  <1>2. score = SumTo(f, n) /\ Weights(suite) = SumTo(g, n)
    BY <1>1 DEF Points, Weights
  <1>3. \A i \in 1..n : g[i] = suite[i].weight /\ g[i] \in Int
    BY <1>1, WeightsWhole
  <1>4. \A i \in 1..n : f[i] = IF results[i].status = "ACCEPTED" THEN g[i] ELSE 0
    BY <1>1 DEF CountInv, Gain
  <1>5. \A i \in 1..n : z[i] = 0
    OBVIOUS
  <1> HIDE DEF f, g, z, n
  <1>6. \A i \in 1..n : f[i] \in Int
    BY <1>3, <1>4
  <1>7. SumTo(f, n) \in Int /\ SumTo(g, n) \in Int
    BY <1>1, <1>3, <1>6, SumInt
  <1>8. SumTo(z, n) = 0
    <2>1. SumTo(z, 0) = 0
      BY SumSteps
    <2> QED BY <1>1, <1>5, <2>1, SumZeros
  <1>9. ASSUME PassedAll PROVE SumTo(f, n) = SumTo(g, n)
    <2>1. \A i \in 1..n : f[i] = g[i]
      BY <1>1, <1>4, <1>9 DEF PassedAll
    <2> QED BY <1>1, <2>1, SumSame
  <1>10. ASSUME ~PassedAny PROVE SumTo(f, n) = 0
    <2>1. \A i \in 1..n : f[i] = z[i]
      BY <1>1, <1>4, <1>5, <1>10 DEF PassedAny
    <2> QED BY <1>1, <1>8, <2>1, SumSame
  <1>11. ASSUME \A i \in DOMAIN suite : suite[i].weight > 0
         PROVE  /\ ~PassedAll => SumTo(f, n) < SumTo(g, n)
                /\ PassedAny => SumTo(f, n) > 0
    <2>1. \A i \in 1..n : g[i] \in Nat \ {0}
      BY <1>1, <1>3, <1>11
    <2>2. \A i \in 1..n : f[i] \in Nat /\ g[i] \in Nat /\ z[i] \in Nat /\ z[i] <= f[i] /\ f[i] <= g[i]
      BY <1>4, <1>5, <2>1
    <2>3. ASSUME ~PassedAll PROVE SumTo(f, n) < SumTo(g, n)
      <3>1. PICK j \in 1..n : results[j].status # "ACCEPTED"
        BY <1>1, <2>3 DEF PassedAll
      <3>2. f[j] < g[j]
        BY <1>4, <2>1, <3>1
      <3> QED BY <1>1, <2>2, <3>2, SumCompare
    <2>4. ASSUME PassedAny PROVE SumTo(f, n) > 0
      <3>1. PICK j \in 1..n : results[j].status = "ACCEPTED"
        BY <1>1, <2>4 DEF PassedAny
      <3>2. z[j] < f[j]
        BY <1>4, <1>5, <2>1, <3>1
      <3>3. SumTo(z, n) < SumTo(f, n)
        BY <1>1, <2>2, <3>2, SumCompare
      <3> QED BY <1>7, <1>8, <3>3
    <2> QED BY <2>3, <2>4
  <1> QED BY <1>2, <1>7, <1>9, <1>10, <1>11

\* The invariant gives the three properties.
LEMMA GradeInvGives == GradeInv => ScoreIsEarned /\ PassIsEarned /\ GradeMatchesScore
  <1> SUFFICES ASSUME GradeInv PROVE ScoreIsEarned /\ PassIsEarned /\ GradeMatchesScore
    OBVIOUS
  <1>1. CountInv /\ LoopInv /\ RowInv
    BY DEF GradeInv
  <1>2. row.status = "COMPLETED" =>
            /\ Len(results) = Len(suite)
            /\ row.grade = Overall /\ row.score = score /\ row.card = results
    BY <1>1, SummaryFields DEF RowInv
  <1>3. ScoreIsEarned
    <2>1. Len(suite) = Len(results) => DOMAIN suite = 1..Len(results)
      BY <1>1 DEF CountInv
    <2> QED BY <1>1, <1>2, <2>1 DEF ScoreIsEarned, CountInv, Accepted, Gain
  <1>4. PassIsEarned
    BY DEF GradeInv, TruthInv
  <1>5. GradeMatchesScore
    <2> DEFINE Positive == \A i \in DOMAIN suite : suite[i].weight > 0
    <2> SUFFICES ASSUME row.status = "COMPLETED"
                 PROVE  /\ Overall = "ACCEPTED" <=> AcceptedIn(results) = DOMAIN suite
                        /\ Overall = "PARTIAL" => AcceptedIn(results) \notin {{}, DOMAIN suite}
                        /\ AcceptedIn(results) # {} => Overall \in {"ACCEPTED", "PARTIAL", "COMPILE_ERROR"}
                        /\ Overall = "COMPILE_ERROR" => results[Len(suite)].status = "COMPILE_ERROR"
                        /\ Overall = "ACCEPTED" => score = Weights(suite)
                        /\ AcceptedIn(results) = {} => score = 0
                        /\ Positive =>
                            /\ Overall = "ACCEPTED" <=> score = Weights(suite)
                            /\ Overall = "PARTIAL" => score \in 1..(Weights(suite) - 1)
                            /\ score > 0 => Overall \in {"ACCEPTED", "PARTIAL", "COMPILE_ERROR"}
      BY <1>2 DEF GradeMatchesScore
    <2>1. /\ score \in Int /\ Weights(suite) \in Int
          /\ PassedAll => score = Weights(suite)
          /\ ~PassedAny => score = 0
          /\ Positive => /\ ~PassedAll => score < Weights(suite)
                         /\ PassedAny => score > 0
      BY <1>1, <1>2, MarksAreFair
    <2>2. Len(suite) \in 1..Len(results) /\ DOMAIN results = 1..Len(results) /\ DOMAIN suite = DOMAIN results
      BY <1>1, <1>2 DEF CountInv
    <2>3. /\ PassedAll <=> AcceptedIn(results) = DOMAIN suite
          /\ PassedAny <=> AcceptedIn(results) # {}
          /\ PassedAll => PassedAny
      BY <2>2 DEF PassedAll, PassedAny, AcceptedIn
    <2>4. compile = "text" => ~PassedAll
      BY <1>1, <2>2 DEF LoopInv, PassedAll
    <2>5. /\ results[1].status = "ACCEPTED" => PassedAny
          /\ results[1].status = "COMPILE_ERROR" => results[Len(suite)].status = "COMPILE_ERROR"
      BY <1>1, <2>2 DEF LoopInv, PassedAny
    <2>6. results[1].status # "PARTIAL"
      <3>1. results[1] \in Results
        BY <1>1, <2>2, SeqElements DEF CountInv
      <3> QED BY <3>1 DEF Results, Statuses
    <2>7. /\ compile = "text" => Overall = "COMPILE_ERROR" /\ results[Len(suite)].status = "COMPILE_ERROR"
          /\ compile # "text" /\ PassedAll => Overall = "ACCEPTED"
          /\ compile # "text" /\ ~PassedAll /\ PassedAny => Overall = "PARTIAL"
          /\ compile # "text" /\ ~PassedAll /\ ~PassedAny => Overall = results[1].status
      BY <1>1 DEF Overall, LoopInv
    <2> HIDE DEF Overall, PassedAll, PassedAny, AcceptedIn, Positive
    <2>8. CASE compile = "text"
      BY <2>1, <2>3, <2>4, <2>7, <2>8
    <2>9. CASE compile # "text" /\ PassedAll
      BY <2>1, <2>3, <2>7, <2>9
    <2>10. CASE compile # "text" /\ ~PassedAll /\ PassedAny
      BY <2>1, <2>3, <2>7, <2>10
    <2>11. CASE compile # "text" /\ ~PassedAll /\ ~PassedAny
      BY <2>1, <2>3, <2>5, <2>6, <2>7, <2>11
    <2> QED BY <2>8, <2>9, <2>10, <2>11
  <1> QED BY <1>3, <1>4, <1>5

\* The inductive invariant holds in every state of an execution.
LEMMA GradeInvHolds == Spec => []GradeInv
  <1>1. Init => GradeInv
    BY InitGrade
  <1>2. GradeInv /\ [Next]_vars => GradeInv'
    BY NextGrade
  <1> QED BY <1>1, <1>2, PTL DEF Spec

\* Counters, results, stored score and stored card stay in step through the loop
\* over the tests, its early end at a compile error and every failure, for every
\* suite of tests and every weight.
THEOREM EarnedScores == Spec => []ScoreIsEarned
  BY GradeInvHolds, GradeInvGives, PTL

\* No test is passed by a program that did not print what was expected of it, but
\* for what the cap cut away and for a program that never started.
THEOREM EarnedPasses == Spec => []PassIsEarned
  BY GradeInvHolds, GradeInvGives, PTL

\* The verdict of a stored summary tells how many tests its card accepts, for
\* every suite and all weights; full marks come with all and none with none.
\* Where weights are positive the score tells the same, because one test not
\* passed makes a sum less than the full one, one passed makes it more than
\* nothing.
THEOREM MatchingGrades == Spec => []GradeMatchesScore
  BY GradeInvHolds, GradeInvGives, PTL

-----------------------------------------------------------------------------
(* Answers *)

\* The inductive invariant.  AnswersAreStored alone is not: an answer must be
\* the row (until the request ends the row is the summary it was given), and no
\* step may write the row once somebody was answered (only a request that is
\* over, or has only its answer left, has a row in COMPLETED).
AnswerInv ==
    /\ pc = "submitted" => row = [status |-> "none", grade |-> "none", score |-> 0, card |-> NoCard]
    /\ pc \in {"answer", "done"} => row = Summary
    /\ row.card # NoCard => row.status = "COMPLETED"
    /\ row.status = "COMPLETED" => pc \in {"answer", "done", "failed"}
    /\ answers # {} => row.status = "COMPLETED"
    /\ AnswersAreStored

\* A submission begins without a stored row or an answer.
LEMMA InitAnswers == Init => AnswerInv
  BY DEF Init, AnswerInv, AnswersAreStored, NoCard

\* The steps that leave the row and the answers alone.
LEMMA QuietStep ==
    ASSUME AnswerInv, UNCHANGED <<row, answers>>,
           pc' = "submitted" => pc = "submitted",
           pc' \in {"answer", "done"} => pc \in {"answer", "done"} /\ UNCHANGED <<results, score, compile>>,
           pc' \in {"answer", "done", "failed"} \/ pc \notin {"answer", "done", "failed"}
    PROVE  AnswerInv'
  <1>1. pc' \in {"answer", "done"} => row' = Summary'
    BY DEF AnswerInv, Summary, Overall, PassedAll, PassedAny
  <1>2. AnswersAreStored'
    BY DEF AnswerInv, AnswersAreStored
  <1> QED BY <1>1, <1>2 DEF AnswerInv, NoCard

\* Every step of the request, its failures and its readers keeps AnswerInv.
LEMMA NextAnswers == ASSUME AnswerInv, [Next]_vars PROVE AnswerInv'
  <1>1. CASE Accept
    <2>1. row'.card = NoCard /\ row'.status = "GRADING" /\ answers' = {} /\ pc' = "grading"
      BY <1>1 DEF Accept, AnswerInv
    <2> QED BY <2>1 DEF AnswerInv, AnswersAreStored, NoCard
  <1>2. CASE RunTest
    BY <1>2, QuietStep DEF RunTest, ToRun
  <1>3. CASE SandboxRaises
    BY <1>3, QuietStep DEF SandboxRaises, ToRun
  <1>4. CASE CompileFails
    BY <1>4, QuietStep DEF CompileFails, ToRun
  <1>5. CASE LoopEnds
    BY <1>5, QuietStep DEF LoopEnds
  <1>6. CASE Store
    <2>1. row' = Summary' /\ pc' = "answer" /\ answers' = {}
      BY <1>6 DEF Store, AnswerInv, Summary, Overall, PassedAll, PassedAny
    <2>2. row'.status = "COMPLETED"
      BY <1>6, SummaryFields DEF Store
    <2> QED BY <2>1, <2>2 DEF AnswerInv, AnswersAreStored
  <1>7. CASE CommitFails
    <2>1. pc' = "failed" /\ answers' = {}
      BY <1>7 DEF CommitFails, AnswerInv
    <2>2. row'.card # NoCard => row'.status = "COMPLETED"
      <3>1. CASE UNCHANGED row
        BY <3>1 DEF AnswerInv, NoCard
      <3>2. CASE pc = "store" /\ row' = Summary
        BY <3>2, SummaryFields
      <3>3. CASE pc = "submitted" /\ row' = [row EXCEPT !.status = "GRADING"]
        BY <3>3 DEF AnswerInv, NoCard
      <3> QED BY <1>7, <3>1, <3>2, <3>3 DEF CommitFails
    <2> QED BY <2>1, <2>2 DEF AnswerInv, AnswersAreStored
  <1>8. CASE ApiDies
    BY <1>8, QuietStep DEF ApiDies
  <1>9. CASE Answer
    <2>1. row = Summary /\ row' = Summary' /\ pc' = "done" /\ row' = row
      BY <1>9 DEF Answer, AnswerInv, Summary, Overall, PassedAll, PassedAny
    <2>2. row.status = "COMPLETED" /\ row.grade = Overall /\ row.score = score /\ row.card = results
      BY <2>1, SummaryFields
    <2>3. AnswersAreStored'
      BY <1>9, <2>1, <2>2 DEF Answer, AnswerInv, AnswersAreStored
    <2> QED BY <2>1, <2>2, <2>3 DEF AnswerInv, NoCard
  <1>10. CASE ReadScorecard
    <2>1. row.status = "COMPLETED" /\ pc \in {"answer", "done", "failed"}
      BY <1>10 DEF ReadScorecard, AnswerInv
    <2>2. UNCHANGED <<pc, row>>
      BY <1>10 DEF ReadScorecard
    <2>3. AnswersAreStored'
      BY <1>10, <2>1, <2>2 DEF ReadScorecard, AnswerInv, AnswersAreStored
    <2>4. pc' \in {"answer", "done"} => row' = Summary'
      BY <1>10, <2>2 DEF ReadScorecard, AnswerInv, Summary, Overall, PassedAll, PassedAny
    <2> QED BY <2>1, <2>2, <2>3, <2>4 DEF AnswerInv, NoCard
  <1>11. CASE UNCHANGED vars
    BY <1>11, QuietStep DEF vars
  <1> QED BY <1>1, <1>2, <1>3, <1>4, <1>5, <1>6, <1>7, <1>8, <1>9, <1>10, <1>11 DEF Next

\* Every scorecard handed out, at any time and to anybody, is the stored one
\* (submit_and_grade_problem commits before it answers, and nothing writes the
\* row again).
THEOREM StoredAnswers == Spec => []AnswersAreStored
  <1>1. Init => AnswerInv
    BY InitAnswers
  <1>2. AnswerInv /\ [Next]_vars => AnswerInv'
    BY NextAnswers
  <1>3. AnswerInv => AnswersAreStored
    BY DEF AnswerInv
  <1> QED BY <1>1, <1>2, <1>3, PTL DEF Spec

-----------------------------------------------------------------------------
(* OutputVerifier: texts, by induction on their length *)

\* A set with the empty sequence and, with each sequence, every longer one
\* holds them all.
LEMMA SeqInduction ==
    ASSUME NEW S, NEW T, << >> \in T, \A s \in Seq(S), c \in S : s \in T => Append(s, c) \in T
    PROVE  Seq(S) \subseteq T
  <1> DEFINE U == {n \in Nat : \A s \in Seq(S) : Len(s) = n => s \in T}
  <1>1. 0 \in U
    <2>1. \A s \in Seq(S) : Len(s) = 0 => s = << >>
      BY EmptySeq
    <2> QED BY <2>1
  <1>2. ASSUME NEW n \in Nat, n \in U PROVE n + 1 \in U
    <2>1. SUFFICES ASSUME NEW s \in Seq(S), Len(s) = n + 1 PROVE s \in T
      OBVIOUS
    <2>2. s # << >>
      BY <2>1, EmptySeq
    <2>3. PICK r \in Seq(S), c \in S : s = Append(r, c)
      BY <2>2, SequenceEmptyOrAppend
    <2>4. Len(r) = n
      BY <2>1, <2>3, AppendProperties, LenProperties
    <2> QED BY <1>2, <2>3, <2>4
  <1> HIDE DEF U
  <1>3. Nat \subseteq U
    BY <1>1, <1>2, SetInduction
  <1> QED BY <1>3, LenProperties DEF U

-----------------------------------------------------------------------------
(* Concat *)

\* The equation that Concat's recursion has to meet.
Concats(g, f, n) == g = [k \in 0..n |-> IF k = 0 THEN << >> ELSE g[k - 1] \o f[k]]

\* A function meets it, for any number of parts.
LEMMA ConcatsExist == ASSUME NEW f, NEW n \in Nat PROVE \E g : Concats(g, f, n)
  <1> DEFINE T == {k \in Nat : \E g : Concats(g, f, k)}
  <1>1. 0 \in T
    <2>1. Concats([i \in 0..0 |-> << >>], f, 0)
      BY DEF Concats
    <2> QED BY <2>1
  <1>2. ASSUME NEW k \in Nat, k \in T PROVE k + 1 \in T
    <2>1. PICK g : Concats(g, f, k)
      BY <1>2
    <2> DEFINE h == [i \in 0..(k + 1) |-> IF i = k + 1 THEN g[k] \o f[k + 1] ELSE g[i]]
    <2>2. \A i \in 0..k : g[i] = IF i = 0 THEN << >> ELSE g[i - 1] \o f[i]
      BY <2>1 DEF Concats
    <2>3. ASSUME NEW i \in 0..(k + 1) PROVE h[i] = IF i = 0 THEN << >> ELSE h[i - 1] \o f[i]
      <3>1. CASE i = k + 1
        <4>1. i # 0 /\ i - 1 = k /\ h[k] = g[k] /\ h[i] = g[k] \o f[i]
          BY <3>1
        <4> HIDE DEF h
        <4> QED BY <4>1
      <3>2. CASE i # k + 1
        <4>1. i \in 0..k /\ (i # 0 => i - 1 \in 0..k)
          BY <3>2
        <4>2. h[i] = g[i] /\ (i # 0 => h[i - 1] = g[i - 1])
          BY <4>1
        <4> HIDE DEF h
        <4> QED BY <2>2, <4>1, <4>2
      <3> QED BY <3>1, <3>2
    <2>4. Concats(h, f, k + 1)
      BY <2>3 DEF Concats
    <2> QED BY <2>4
  <1> HIDE DEF T
  <1>3. Nat \subseteq T
    BY <1>1, <1>2, SetInduction
  <1> QED BY <1>3 DEF T

\* Two functions agree on their common places.
Agree(D, g, h) == \A i \in D : g[i] = h[i]

\* Two functions that meet it agree as far as their parts do.
LEMMA ConcatsAgree ==
    ASSUME NEW f, NEW e, NEW m \in Nat, NEW n \in Nat, m <= n, NEW g, NEW h,
           Concats(g, f, m), Concats(h, e, n), Agree(1..m, f, e)
    PROVE  Agree(0..m, g, h)
  <1> DEFINE T == {i \in Nat : i <= m => g[i] = h[i]}
  <1>0. /\ \A i \in 0..m : g[i] = IF i = 0 THEN << >> ELSE g[i - 1] \o f[i]
        /\ \A i \in 0..n : h[i] = IF i = 0 THEN << >> ELSE h[i - 1] \o e[i]
    BY DEF Concats
  <1>1. 0 \in T
    BY <1>0
  <1>2. ASSUME NEW k \in Nat, k \in T PROVE k + 1 \in T
    BY <1>0, <1>2 DEF Agree
  <1> HIDE DEF T
  <1>3. Nat \subseteq T
    BY <1>1, <1>2, SetInduction
  <1> QED BY <1>3 DEF T, Agree

\* What Concat builds.
LEMMA ConcatBuilds ==
    ASSUME NEW parts, NEW n \in Nat, Len(parts) = n
    PROVE  \E g : Concats(g, parts, n) /\ Concat(parts) = g[n]
  <1> DEFINE all == CHOOSE g : g = [k \in 0..n |-> IF k = 0 THEN << >> ELSE g[k - 1] \o parts[k]]
  <1>1. Concats(all, parts, n)
    BY ConcatsExist DEF Concats
  <1>2. Concat(parts) = all[n]
    BY DEF Concat
  <1> HIDE DEF all
  <1> QED BY <1>1, <1>2

\* No parts make the empty sequence.
LEMMA ConcatNone == Concat(<< >>) = << >>
  <1>1. Len(<< >>) = 0
    BY EmptySeq
  <1>2. PICK g : Concats(g, << >>, 0) /\ Concat(<< >>) = g[0]
    BY <1>1, ConcatBuilds
  <1> QED BY <1>2 DEF Concats

\* One part more.
LEMMA ConcatAppend ==
    ASSUME NEW S, NEW parts \in Seq(S), NEW p \in S
    PROVE  Concat(Append(parts, p)) = Concat(parts) \o p
  <1> DEFINE n == Len(parts)
             t == Append(parts, p)
  <1>1. /\ n \in Nat /\ t \in Seq(S) /\ Len(t) = n + 1 /\ t[n + 1] = p
        /\ \A i \in 1..n : parts[i] = t[i]
    BY LenProperties, AppendProperties
  <1> HIDE DEF t
  <1>2. PICK g : Concats(g, parts, n) /\ Concat(parts) = g[n]
    BY <1>1, ConcatBuilds
  <1> HIDE DEF n
  <1>3. PICK h : Concats(h, t, n + 1) /\ Concat(t) = h[n + 1]
    BY <1>1, ConcatBuilds
  <1>4. g[n] = h[n]
    <2>1. n <= n + 1 /\ n + 1 \in Nat /\ n \in 0..n
      BY <1>1
    <2>2. n \in Nat /\ \A i \in 1..n : parts[i] = t[i]
      BY <1>1
    <2>3. Agree(0..n, g, h)
      <3> DEFINE m == n + 1
      <3>1. n \in Nat /\ m \in Nat /\ n <= m /\ Concats(g, parts, n) /\ Concats(h, t, m)
        BY <1>2, <1>3, <2>1
      <3> HIDE DEF m
      <3>2. Agree(1..n, parts, t)
        BY <2>2 DEF Agree
      <3> QED BY <3>1, <3>2, ConcatsAgree
    <2> QED BY <2>1, <2>3 DEF Agree
  <1>5. h[n + 1] = h[n] \o t[n + 1]
    <2>1. \A k \in 0..(n + 1) : h[k] = IF k = 0 THEN << >> ELSE h[k - 1] \o t[k]
      BY <1>1, <1>3 DEF Concats
    <2>2. PICK k \in 0..(n + 1) : k = n + 1 /\ k # 0 /\ k - 1 = n
      BY <1>1
    <2>3. h[k] = h[k - 1] \o t[k]
      BY <2>1, <2>2
    <2> QED BY <2>2, <2>3
  <1> QED BY <1>1, <1>2, <1>3, <1>4, <1>5 DEF t

\* Sequences over S, one after the other, are one over S.
LEMMA ConcatType == ASSUME NEW S, NEW parts \in Seq(Seq(S)) PROVE Concat(parts) \in Seq(S)
  <1> DEFINE T == {q \in Seq(Seq(S)) : Concat(q) \in Seq(S)}
  <1>1. << >> \in T
    BY ConcatNone, EmptySeq
  <1>2. ASSUME NEW q \in Seq(Seq(S)), NEW p \in Seq(S), q \in T PROVE Append(q, p) \in T
    <2>1. Concat(Append(q, p)) = Concat(q) \o p
      BY ConcatAppend
    <2> QED BY <1>2, <2>1, AppendProperties, ConcatProperties
  <1> HIDE DEF T
  <1>3. Seq(Seq(S)) \subseteq T
    BY <1>1, <1>2, SeqInduction
  <1> QED BY <1>3 DEF T

-----------------------------------------------------------------------------
(* At *)

\* It looks at the elements and at the places among their positions only.
LEMMA AtSame ==
    ASSUME NEW s, NEW t, NEW P, NEW Q, Len(s) = Len(t),
           \A i \in 1..Len(s) : s[i] = t[i] /\ (i \in P <=> i \in Q)
    PROVE  At(s, P) = At(t, Q)
  BY DEF At

\* Nothing is picked of the empty sequence.
LEMMA AtEmpty == ASSUME NEW P PROVE At(<< >>, P) = << >>
  <1>1. [i \in 1..0 |-> IF i \in P THEN <<(<< >>)[i]>> ELSE << >>] = << >>
    OBVIOUS
  <1>2. Len(<< >>) = 0
    BY EmptySeq
  <1> QED BY <1>1, <1>2, ConcatNone DEF At

\* One element more.
LEMMA AtAppend ==
    ASSUME NEW S, NEW s \in Seq(S), NEW c \in S, NEW P
    PROVE  At(Append(s, c), P) = IF Len(s) + 1 \in P THEN Append(At(s, P), c) ELSE At(s, P)
  <1> DEFINE n == Len(s)
             t == Append(s, c)
             part(q, i) == IF i \in P THEN <<q[i]>> ELSE << >>
             old == [i \in 1..n |-> part(s, i)]
             new == [i \in 1..(n + 1) |-> part(t, i)]
             p   == IF n + 1 \in P THEN <<c>> ELSE << >>
  <1>1. /\ n \in Nat /\ t \in Seq(S) /\ Len(t) = n + 1 /\ t[n + 1] = c
        /\ \A i \in 1..n : t[i] = s[i]
    BY LenProperties, AppendProperties
  <1>2. old \in Seq(Seq(S)) /\ Len(old) = n /\ p \in Seq(S)
    <2>1. \A i \in 1..n : part(s, i) \in Seq(S)
      <3>1. \A i \in 1..n : s[i] \in S
        BY ElementOfSeq
      <3> QED BY <3>1
    <2>2. p \in Seq(S)
      OBVIOUS
    <2> HIDE DEF part
    <2> QED BY <1>1, <2>1, <2>2
  <1>3. new = Append(old, p)
    <2>1. Append(old, p) = [i \in 1..(n + 1) |-> IF i = n + 1 THEN p ELSE old[i]]
      BY <1>1, <1>2
    <2>2. \A i \in 1..(n + 1) : new[i] = IF i = n + 1 THEN p ELSE old[i]
      BY <1>1
    <2> HIDE DEF old, p
    <2> QED BY <2>1, <2>2
  <1>4. At(t, P) = Concat(new) /\ At(s, P) = Concat(old)
    BY <1>1 DEF At
  <1>5. Concat(new) = Concat(old) \o p /\ Concat(old) \in Seq(S)
    BY <1>2, <1>3, ConcatAppend, ConcatType
  <1> HIDE DEF t, old, new
  <1>6. At(s, P) \in Seq(S) /\ At(t, P) = At(s, P) \o p
    BY <1>4, <1>5
  <1>7. At(s, P) \o << >> = At(s, P) /\ At(s, P) \o <<c>> = Append(At(s, P), c)
    BY <1>6, ConcatEmptySeq, AppendIsConcat
  <1> QED BY <1>6, <1>7 DEF t

\* What is picked of a sequence is one of the same elements, and not longer.
LEMMA AtType ==
    ASSUME NEW S, NEW s \in Seq(S), NEW P
    PROVE  At(s, P) \in Seq(S) /\ Len(At(s, P)) <= Len(s)
  <1> DEFINE Fits(t) == At(t, P) \in Seq(S) /\ Len(At(t, P)) <= Len(t)
             T == {t \in Seq(S) : Fits(t)}
  <1>1. << >> \in Seq(S) /\ Fits(<< >>)
    <2>1. << >> \in Seq(S) /\ Len(<< >>) = 0
      BY EmptySeq
    <2>2. At(<< >>, P) = << >>
      BY AtEmpty
    <2>3. Len(At(<< >>, P)) = 0 /\ Len(<< >>) = 0 /\ At(<< >>, P) \in Seq(S)
      BY <2>1, <2>2, Zenon
    <2> QED BY <2>1, <2>3
  <1>2. ASSUME NEW t \in Seq(S), NEW c \in S, Fits(t) PROVE Append(t, c) \in Seq(S) /\ Fits(Append(t, c))
    <2>1. At(Append(t, c), P) = IF Len(t) + 1 \in P THEN Append(At(t, P), c) ELSE At(t, P)
      BY AtAppend
    <2>2. At(t, P) \in Seq(S) /\ Len(At(t, P)) <= Len(t)
      BY <1>2
    <2>3. Append(t, c) \in Seq(S) /\ Len(Append(t, c)) = Len(t) + 1 /\ Len(t) \in Nat
      BY AppendProperties, LenProperties
    <2>4. /\ Append(At(t, P), c) \in Seq(S) /\ Len(At(t, P)) \in Nat
          /\ Len(Append(At(t, P), c)) = Len(At(t, P)) + 1
      BY <2>2, AppendProperties, LenProperties
    <2> QED BY <2>1, <2>2, <2>3, <2>4
  <1> HIDE DEF Fits
  <1>3. Seq(S) \subseteq T
    BY <1>1, <1>2, SeqInduction
  <1> QED BY <1>3 DEF Fits

-----------------------------------------------------------------------------
(* Split *)

\* A part of a text, and of the text with one more character.
PartGrows(S, t, c, a) ==
    /\ \A b \in 0..Len(t) : /\ SubSeq(t, a + 1, b) \in Seq(S)
                            /\ SubSeq(Append(t, c), a + 1, b) = SubSeq(t, a + 1, b)
    /\ SubSeq(Append(t, c), a + 1, Len(t) + 1) = Append(SubSeq(t, a + 1, Len(t)), c)

\* It is the same part, or has the new character at its end.
LEMMA PartAppend ==
    ASSUME NEW S, NEW t \in Seq(S), NEW c \in S, NEW a \in 0..Len(t)
    PROVE  PartGrows(S, t, c, a)
  <1> DEFINE n == Len(t)
             u == Append(t, c)
  <1>1. /\ n \in Nat /\ a \in Nat /\ a <= n /\ u \in Seq(S) /\ Len(u) = n + 1 /\ u[n + 1] = c
        /\ \A i \in 1..n : u[i] = t[i] /\ t[i] \in S
    BY LenProperties, AppendProperties, ElementOfSeq
  <1>2. ASSUME NEW b \in 0..n
        PROVE  /\ SubSeq(t, a + 1, b) \in Seq(S)
               /\ Len(SubSeq(t, a + 1, b)) = (IF a + 1 <= b THEN b - a ELSE 0)
               /\ \A i \in 1..(b - a) : SubSeq(t, a + 1, b)[i] = t[a + i]
    <2>1. a + 1 \in Int /\ b \in Int /\ \A i \in (a + 1)..b : t[i] \in S
      BY <1>1
    <2>2. /\ SubSeq(t, a + 1, b) \in Seq(S)
          /\ Len(SubSeq(t, a + 1, b)) = IF a + 1 <= b THEN b - (a + 1) + 1 ELSE 0
          /\ \A i \in 1..(b - (a + 1) + 1) : SubSeq(t, a + 1, b)[i] = t[a + 1 + i - 1]
      <3> DEFINE lo == a + 1
      <3>1. lo \in Int /\ b \in Int /\ \A i \in lo..b : t[i] \in S
        BY <2>1
      <3> HIDE DEF lo
      <3>2. /\ SubSeq(t, lo, b) \in Seq(S)
            /\ Len(SubSeq(t, lo, b)) = IF lo <= b THEN b - lo + 1 ELSE 0
            /\ \A i \in 1..(b - lo + 1) : SubSeq(t, lo, b)[i] = t[lo + i - 1]
        BY <3>1, SubSeqProperties
      <3> QED BY <3>2 DEF lo
    <2>3. \A i \in 1..(b - a) : i \in 1..(b - (a + 1) + 1) /\ a + 1 + i - 1 = a + i
      BY <1>1
    <2>4. b - (a + 1) + 1 = b - a
      BY <1>1
    <2> QED BY <2>2, <2>3, <2>4
  <1>3. ASSUME NEW b \in 0..(n + 1)
        PROVE  /\ SubSeq(u, a + 1, b) \in Seq(S)
               /\ Len(SubSeq(u, a + 1, b)) = (IF a + 1 <= b THEN b - a ELSE 0)
               /\ \A i \in 1..(b - a) : SubSeq(u, a + 1, b)[i] = u[a + i]
    <2>1. a + 1 \in Int /\ b \in Int /\ \A i \in (a + 1)..b : u[i] \in S
      BY <1>1
    <2>2. /\ SubSeq(u, a + 1, b) \in Seq(S)
          /\ Len(SubSeq(u, a + 1, b)) = IF a + 1 <= b THEN b - (a + 1) + 1 ELSE 0
          /\ \A i \in 1..(b - (a + 1) + 1) : SubSeq(u, a + 1, b)[i] = u[a + 1 + i - 1]
      <3> DEFINE lo == a + 1
      <3>1. lo \in Int /\ b \in Int /\ \A i \in lo..b : u[i] \in S
        BY <2>1
      <3> HIDE DEF lo, u
      <3>2. /\ SubSeq(u, lo, b) \in Seq(S)
            /\ Len(SubSeq(u, lo, b)) = IF lo <= b THEN b - lo + 1 ELSE 0
            /\ \A i \in 1..(b - lo + 1) : SubSeq(u, lo, b)[i] = u[lo + i - 1]
        BY <3>1, SubSeqProperties
      <3> QED BY <3>2 DEF lo
    <2>3. \A i \in 1..(b - a) : i \in 1..(b - (a + 1) + 1) /\ a + 1 + i - 1 = a + i
      BY <1>1
    <2>4. b - (a + 1) + 1 = b - a
      BY <1>1
    <2> QED BY <2>2, <2>3, <2>4
  <1> HIDE DEF u
  <1>4. ASSUME NEW b \in 0..n PROVE SubSeq(u, a + 1, b) = SubSeq(t, a + 1, b)
    <2>1. b \in 0..(n + 1)
      BY <1>1
    <2>2. \A i \in 1..Len(SubSeq(t, a + 1, b)) :
             i \in 1..(b - a) /\ u[a + i] = t[a + i]
      <3>1. Len(SubSeq(t, a + 1, b)) = IF a + 1 <= b THEN b - a ELSE 0
        BY <1>2
      <3>2. \A i \in 1..(b - a) : a + i \in 1..n
        BY <1>1
      <3>3. \A i \in 1..(IF a + 1 <= b THEN b - a ELSE 0) : i \in 1..(b - a)
        BY <1>1
      <3> QED BY <1>1, <3>1, <3>2, <3>3
    <2>3. \A i \in 1..Len(SubSeq(u, a + 1, b)) :
             i \in 1..(b - a) /\ SubSeq(u, a + 1, b)[i] = SubSeq(t, a + 1, b)[i]
      BY <1>2, <1>3, <2>1, <2>2
    <2>4. Len(SubSeq(u, a + 1, b)) = Len(SubSeq(t, a + 1, b)) /\ SubSeq(u, a + 1, b) \in Seq(S)
      BY <1>2, <1>3, <2>1
    <2> QED BY <1>2, <2>3, <2>4, SeqEqual
  <1>5. SubSeq(u, a + 1, n + 1) = Append(SubSeq(t, a + 1, n), c)
    <2> DEFINE v == SubSeq(t, a + 1, n)
               w == SubSeq(u, a + 1, n + 1)
    <2>1. v \in Seq(S) /\ Len(v) = n - a /\ \A i \in 1..(n - a) : v[i] = t[a + i]
      <3>1. n \in 0..n /\ (IF a + 1 <= n THEN n - a ELSE 0) = n - a
        BY <1>1
      <3> QED BY <1>2, <3>1
    <2>2. w \in Seq(S) /\ Len(w) = n + 1 - a /\ \A i \in 1..(n + 1 - a) : w[i] = u[a + i]
      <3>1. n + 1 \in 0..(n + 1) /\ (IF a + 1 <= n + 1 THEN n + 1 - a ELSE 0) = n + 1 - a
        BY <1>1
      <3> QED BY <1>3, <3>1
    <2> HIDE DEF v, w
    <2>3. /\ Append(v, c) \in Seq(S) /\ Len(Append(v, c)) = Len(v) + 1
          /\ Append(v, c)[Len(v) + 1] = c
          /\ \A i \in 1..Len(v) : Append(v, c)[i] = v[i]
      BY <2>1, AppendProperties
    <2>4. ASSUME NEW i \in 1..Len(w) PROVE w[i] = Append(v, c)[i]
      <3>1. w[i] = u[a + i]
        BY <2>2, <2>4
      <3>2. CASE i = n + 1 - a
        <4>1. a + i = n + 1 /\ i = Len(v) + 1
          BY <1>1, <2>1, <3>2
        <4> QED BY <1>1, <2>3, <3>1, <4>1
      <3>3. CASE i # n + 1 - a
        <4>1. i \in 1..(n - a) /\ a + i \in 1..n
          BY <1>1, <2>2, <3>3
        <4> QED BY <1>1, <2>1, <2>3, <3>1, <4>1
      <3> QED BY <3>2, <3>3
    <2>5. Len(w) = Len(Append(v, c))
      BY <1>1, <2>1, <2>2, <2>3
    <2>6. w = Append(v, c)
      BY <2>2, <2>3, <2>4, <2>5, SeqEqual
    <2> QED BY <2>6 DEF v, w
  <1> QED BY <1>2, <1>4, <1>5 DEF u, PartGrows

\* Where Split cuts a text: before it, at its separators, and behind it.
Found(t, Sep) == At([i \in 1..Len(t) |-> i], {i \in 1..Len(t) : t[i] \in Sep})
Cut(f, n, k)  == IF k = 1 THEN 0 ELSE IF k = Len(f) + 2 THEN n + 1 ELSE f[k - 1]

\* The pieces lie between neighbouring cuts.
LEMMA SplitCuts ==
    ASSUME NEW S, NEW t \in Seq(S), NEW Sep, NEW f \in Seq(Nat), f = Found(t, Sep)
    PROVE  Split(t, Sep) = [k \in 1..(Len(f) + 1) |->
                               SubSeq(t, Cut(f, Len(t), k) + 1, Cut(f, Len(t), k + 1) - 1)]
  <1> DEFINE cuts == <<0>> \o f \o <<Len(t) + 1>>
  <1>1. Len(t) \in Nat /\ Len(f) \in Nat
    BY LenProperties
  <1>2. ASSUME NEW k \in 1..(Len(f) + 2) PROVE cuts[k] = Cut(f, Len(t), k)
    <2>1. <<0>> \in Seq(Nat) /\ Len(<<0>>) = 1 /\ <<Len(t) + 1>> \in Seq(Nat)
          /\ Len(<<Len(t) + 1>>) = 1
      BY <1>1
    <2>2. /\ <<0>> \o f \in Seq(Nat) /\ Len(<<0>> \o f) = Len(f) + 1
          /\ \A i \in 1..(Len(f) + 1) : (<<0>> \o f)[i] = IF i <= 1 THEN <<0>>[i] ELSE f[i - 1]
      BY <1>1, <2>1, ConcatProperties
    <2>3. cuts[k] = IF k <= Len(f) + 1 THEN (<<0>> \o f)[k] ELSE <<Len(t) + 1>>[k - (Len(f) + 1)]
      BY <1>1, <2>1, <2>2, ConcatProperties
    <2>4. CASE k = 1
      <3>1. k <= Len(f) + 1 /\ k \in 1..(Len(f) + 1) /\ k <= 1
        BY <1>1, <2>4
      <3>2. <<0>>[k] = 0
        BY <2>4
      <3> QED BY <2>2, <2>3, <2>4, <3>1, <3>2 DEF Cut
    <2>5. CASE k = Len(f) + 2
      <3>1. ~(k <= Len(f) + 1) /\ k - (Len(f) + 1) = 1 /\ k # 1
        BY <1>1, <2>5
      <3> QED BY <2>3, <2>5, <3>1 DEF Cut
    <2>6. CASE k # 1 /\ k # Len(f) + 2
      <3>1. k <= Len(f) + 1 /\ k \in 1..(Len(f) + 1) /\ ~(k <= 1)
        BY <1>1, <2>6
      <3> QED BY <2>2, <2>3, <2>6, <3>1 DEF Cut
    <2> QED BY <2>4, <2>5, <2>6
  <1>3. Split(t, Sep) = [k \in 1..(Len(f) + 1) |-> SubSeq(t, cuts[k] + 1, cuts[k + 1] - 1)]
    BY DEF Split, Found
  <1> HIDE DEF cuts
  <1>4. \A k \in 1..(Len(f) + 1) : k \in 1..(Len(f) + 2) /\ k + 1 \in 1..(Len(f) + 2)
    BY <1>1
  <1>5. \A k \in 1..(Len(f) + 1) :
           cuts[k] = Cut(f, Len(t), k) /\ cuts[k + 1] = Cut(f, Len(t), k + 1)
    BY <1>2, <1>4
  <1> QED BY <1>3, <1>5

\* The separators found, of no text and of a text with one more character.
LEMMA FoundAppend ==
    ASSUME NEW S, NEW t \in Seq(S), NEW c \in S, NEW Sep
    PROVE  /\ Found(t, Sep) \in Seq(1..Len(t))
           /\ Found(Append(t, c), Sep) = IF c \in Sep THEN Append(Found(t, Sep), Len(t) + 1)
                                                      ELSE Found(t, Sep)
  <1> DEFINE n == Len(t)
             u == Append(t, c)
             old == [i \in 1..n |-> i]
             new == [i \in 1..(n + 1) |-> i]
             P == {i \in 1..n : t[i] \in Sep}
             Q == {i \in 1..(n + 1) : u[i] \in Sep}
  <1>1. /\ n \in Nat /\ Len(u) = n + 1 /\ u[n + 1] = c
        /\ \A i \in 1..n : u[i] = t[i]
    BY LenProperties, AppendProperties
  <1> HIDE DEF n, u
  <1>2. old \in Seq(1..n) /\ Len(old) = n /\ old \in Seq(Nat) /\ n + 1 \in Nat
    BY <1>1
  <1>3. new = Append(old, n + 1)
    BY <1>1
  <1>4. At(old, Q) = At(old, P)
    <2>1. \A i \in 1..Len(old) : i \in Q <=> i \in P
      BY <1>1, <1>2
    <2> HIDE DEF P, Q, old
    <2> QED BY <2>1, AtSame
  <1>5. n + 1 \in Q <=> c \in Sep
    BY <1>1
  <1>6. At(new, Q) = IF n + 1 \in Q THEN Append(At(old, Q), n + 1) ELSE At(old, Q)
    <2> HIDE DEF old, new, Q
    <2>1. At(Append(old, n + 1), Q) = IF Len(old) + 1 \in Q THEN Append(At(old, Q), n + 1) ELSE At(old, Q)
      <3> DEFINE m == n + 1
      <3>1. m \in Nat /\ old \in Seq(Nat)
        BY <1>2
      <3> HIDE DEF m
      <3>2. At(Append(old, m), Q) = IF Len(old) + 1 \in Q THEN Append(At(old, Q), m) ELSE At(old, Q)
        BY <3>1, AtAppend
      <3> QED BY <3>2 DEF m
    <2> QED BY <1>2, <1>3, <2>1
  <1>7. At(old, P) \in Seq(1..n)
    <2> HIDE DEF old, P
    <2> QED BY <1>2, AtType
  <1>8. Found(t, Sep) = At(old, P) /\ Found(u, Sep) = At(new, Q)
    BY <1>1 DEF Found, n
  <1> HIDE DEF old, new, P, Q
  <1> QED BY <1>4, <1>5, <1>6, <1>7, <1>8 DEF n, u

\* The pieces of the empty text.
LEMMA SplitEmpty == ASSUME NEW Sep PROVE Split(<< >>, Sep) = << << >> >>
  <1>1. << >> \in Seq({}) /\ Len(<< >>) = 0 /\ << >> \in Seq(Nat)
    BY EmptySeq
  <1>2. Found(<< >>, Sep) = << >>
    <2>1. [i \in 1..0 |-> i] = << >>
      OBVIOUS
    <2> QED BY <1>1, <2>1, AtEmpty DEF Found
  <1>3. Split(<< >>, Sep) = [k \in 1..1 |-> SubSeq(<< >>, Cut(<< >>, 0, k) + 1, Cut(<< >>, 0, k + 1) - 1)]
    <2> DEFINE none == << >>
    <2>1. Split(none, Sep) = [k \in 1..(Len(none) + 1) |->
                                SubSeq(none, Cut(none, Len(none), k) + 1, Cut(none, Len(none), k + 1) - 1)]
      <3> HIDE DEF none
      <3>1. none \in Seq({}) /\ none \in Seq(Nat) /\ none = Found(none, Sep)
        BY <1>1, <1>2 DEF none
      <3> QED BY <3>1, SplitCuts
    <2>2. Len(none) = 0 /\ 0 + 1 = 1
      BY <1>1
    <2> QED BY <2>1, <2>2
  <1>4. Cut(<< >>, 0, 1) + 1 = 1 /\ Cut(<< >>, 0, 2) - 1 = 0
    BY <1>1 DEF Cut
  <1>5. SubSeq(<< >>, 1, 0) = << >>
    BY SubSeqEmpty
  <1>6. \A k \in 1..1 : SubSeq(<< >>, Cut(<< >>, 0, k) + 1, Cut(<< >>, 0, k + 1) - 1) = << >>
    BY <1>4, <1>5
  <1>7. Split(<< >>, Sep) = [k \in 1..1 |-> << >>]
    BY <1>3, <1>6
  <1> QED BY <1>7

\* A function on 1..(m + 1) is its restriction with its last value appended.
LEMMA LastAppended ==
    ASSUME NEW S, NEW m \in Nat, NEW g, NEW h, NEW e,
           \A k \in 1..m : g[k] \in S /\ h[k] = g[k], e \in S, h[m + 1] = e
    PROVE  /\ [k \in 1..m |-> g[k]] \in Seq(S)
           /\ [k \in 1..(m + 1) |-> h[k]] = Append([k \in 1..m |-> g[k]], e)
  <1> DEFINE q == [k \in 1..m |-> g[k]]
             r == [k \in 1..(m + 1) |-> h[k]]
  <1>1. q \in Seq(S) /\ Len(q) = m /\ \A k \in 1..m : q[k] = g[k]
    OBVIOUS
  <1>2. r \in Seq(S) /\ Len(r) = m + 1 /\ \A k \in 1..(m + 1) : r[k] = h[k]
    <2>1. \A k \in 1..(m + 1) : k = m + 1 \/ k \in 1..m
      OBVIOUS
    <2>2. \A k \in 1..(m + 1) : h[k] \in S
      BY <2>1
    <2> QED BY <2>2
  <1> HIDE DEF q, r
  <1>3. /\ Append(q, e) \in Seq(S) /\ Len(Append(q, e)) = m + 1 /\ Append(q, e)[m + 1] = e
        /\ \A k \in 1..m : Append(q, e)[k] = q[k]
    BY <1>1, AppendProperties
  <1>4. \A k \in 1..Len(r) : k = m + 1 \/ k \in 1..m
    BY <1>2
  <1>5. \A k \in 1..Len(r) : r[k] = Append(q, e)[k]
    BY <1>1, <1>2, <1>3, <1>4
  <1>6. r = Append(q, e)
    BY <1>2, <1>3, <1>5, SeqEqual
  <1> QED BY <1>1, <1>6 DEF q, r

\* What one more character makes of the pieces: a separator opens a new one, and
\* any other character joins the last.
SplitGrows(S, t, c, Sep) ==
    \E Q \in Seq(Seq(S)), l \in Seq(S) :
        /\ Split(t, Sep) = Append(Q, l)
        /\ c \in Sep => Split(Append(t, c), Sep) = Append(Append(Q, l), << >>)
        /\ c \notin Sep => Split(Append(t, c), Sep) = Append(Q, Append(l, c))

\* It does, whatever the text and the separators.
LEMMA SplitAppend ==
    ASSUME NEW S, NEW t \in Seq(S), NEW c \in S, NEW Sep
    PROVE  SplitGrows(S, t, c, Sep)
  <1> DEFINE n == Len(t)
             u == Append(t, c)
             f == Found(t, Sep)
             e == Found(u, Sep)
             m == Len(f)
             old(k) == SubSeq(t, Cut(f, n, k) + 1, Cut(f, n, k + 1) - 1)
             new(k) == SubSeq(u, Cut(e, n + 1, k) + 1, Cut(e, n + 1, k + 1) - 1)
             Q == [k \in 1..m |-> old(k)]
             l == old(m + 1)
  <1>1. n \in Nat /\ u \in Seq(S) /\ Len(u) = n + 1
    BY LenProperties, AppendProperties
  <1>2. f \in Seq(1..n) /\ e = IF c \in Sep THEN Append(f, n + 1) ELSE f
    BY FoundAppend
  <1>3. m \in Nat /\ \A k \in 1..m : f[k] \in 1..n
    BY <1>2, LenProperties, ElementOfSeq
  <1>4. f \in Seq(Nat) /\ e \in Seq(Nat)
    <2>1. 1..n \subseteq Nat /\ n + 1 \in Nat
      BY <1>1
    <2>2. f \in Seq(Nat)
      BY <1>2, <2>1, SeqMonotonic
    <2>3. \A x \in Nat : Append(f, x) \in Seq(Nat)
      BY <2>2, AppendProperties
    <2> QED BY <1>2, <2>1, <2>2, <2>3
  <1>5. Split(t, Sep) = [k \in 1..(m + 1) |-> old(k)]
    BY <1>4, SplitCuts
  <1>6. Split(u, Sep) = [k \in 1..(Len(e) + 1) |-> new(k)]
    <2>1. Split(u, Sep) = [k \in 1..(Len(e) + 1) |->
                              SubSeq(u, Cut(e, Len(u), k) + 1, Cut(e, Len(u), k + 1) - 1)]
      <3> HIDE DEF u
      <3> QED BY <1>1, <1>4, SplitCuts
    <2> QED BY <1>1, <2>1
  <1> DEFINE cut(k) == Cut(f, n, k)
  <1>7. /\ \A k \in 1..(m + 1) : cut(k) \in 0..n
        /\ \A k \in 1..m : cut(k + 1) \in 1..n /\ cut(k + 1) = f[k]
        /\ cut(m + 2) = n + 1
    <2>1. \A k \in 1..m : k + 1 # 1 /\ k + 1 # m + 2 /\ k + 1 - 1 = k
      BY <1>3
    <2>2. \A k \in 1..m : cut(k + 1) \in 1..n /\ cut(k + 1) = f[k]
      BY <1>3, <2>1 DEF Cut
    <2>3. cut(1) = 0 /\ cut(m + 2) = n + 1
      BY <1>3 DEF Cut
    <2>4. \A k \in 1..(m + 1) : k = 1 \/ (k - 1 \in 1..m /\ k - 1 + 1 = k)
      BY <1>3
    <2> HIDE DEF cut
    <2>5. ASSUME NEW k \in 1..(m + 1) PROVE cut(k) \in 0..n
      <3>1. CASE k = 1
        BY <1>1, <2>3, <3>1
      <3>2. CASE k # 1
        <4>1. cut(k - 1 + 1) \in 1..n /\ k - 1 + 1 = k
          BY <2>2, <2>4, <3>2
        <4> QED BY <1>1, <4>1
      <3> QED BY <3>1, <3>2
    <2> QED BY <2>2, <2>3, <2>5
  \* Both texts are cut at the same places, up to the last piece of the shorter.
  <1>8. \A k \in 1..(m + 1) : Cut(e, n + 1, k) = cut(k)
    <2>1. CASE c \in Sep
      <3>1. e = Append(f, n + 1) /\ Len(e) = m + 1 /\ \A k \in 1..m : e[k] = f[k]
        <4>1. n + 1 \in Nat
          BY <1>1
        <4> QED BY <1>2, <1>4, <2>1, <4>1, AppendProperties
      <3>2. \A k \in 1..(m + 1) : k # Len(e) + 2 /\ k # m + 2 /\ (k # 1 => k - 1 \in 1..m)
        BY <1>3, <3>1
      <3> QED BY <3>1, <3>2 DEF Cut
    <2>2. CASE c \notin Sep
      <3>1. e = f
        BY <1>2, <2>2
      <3>2. \A k \in 1..(m + 1) : k # m + 2
        BY <1>3
      <3> QED BY <3>1, <3>2 DEF Cut
    <2> QED BY <2>1, <2>2
  <1>9. ASSUME NEW k \in 1..m PROVE old(k) \in Seq(S) /\ new(k) = old(k)
    <2>1. cut(k) \in 0..n /\ cut(k + 1) - 1 \in 0..n
      BY <1>1, <1>3, <1>7
    <2>2. Cut(e, n + 1, k) = cut(k) /\ Cut(e, n + 1, k + 1) = cut(k + 1)
      BY <1>3, <1>8
    <2>3. /\ SubSeq(t, cut(k) + 1, cut(k + 1) - 1) \in Seq(S)
          /\ SubSeq(u, cut(k) + 1, cut(k + 1) - 1) = SubSeq(t, cut(k) + 1, cut(k + 1) - 1)
      <3> DEFINE x == cut(k)
                 y == cut(k + 1) - 1
      <3>1. x \in 0..n /\ y \in 0..n
        BY <2>1
      <3> HIDE DEF x, y
      <3>2. PartGrows(S, t, c, x)
        BY <3>1, PartAppend
      <3>3. SubSeq(t, x + 1, y) \in Seq(S) /\ SubSeq(u, x + 1, y) = SubSeq(t, x + 1, y)
        BY <3>1, <3>2 DEF PartGrows
      <3> QED BY <3>3 DEF x, y
    <2> HIDE DEF cut
    <2>4. new(k) = SubSeq(u, cut(k) + 1, cut(k + 1) - 1)
      BY <2>2
    <2>5. old(k) = SubSeq(t, cut(k) + 1, cut(k + 1) - 1)
      BY DEF cut
    <2> QED BY <2>3, <2>4, <2>5
  <1> DEFINE a == cut(m + 1)
  <1>10. /\ a \in 0..n
         /\ l = SubSeq(t, a + 1, n) /\ l \in Seq(S)
         /\ SubSeq(u, a + 1, n) = l /\ SubSeq(u, a + 1, n + 1) = Append(l, c)
    <2>1. a \in 0..n /\ n \in 0..n /\ cut(m + 2) - 1 = n /\ m + 1 + 1 = m + 2
      BY <1>1, <1>3, <1>7
    <2>2. l = SubSeq(t, a + 1, n)
      BY <2>1
    <2> HIDE DEF a, l
    <2>3. PartGrows(S, t, c, a)
      BY <2>1, PartAppend
    <2>4. SubSeq(t, a + 1, n) \in Seq(S) /\ SubSeq(u, a + 1, n) = SubSeq(t, a + 1, n)
      BY <2>1, <2>3 DEF PartGrows
    <2>5. SubSeq(u, a + 1, n + 1) = Append(SubSeq(t, a + 1, n), c)
      BY <2>3 DEF PartGrows
    <2> HIDE DEF n, u
    <2> QED BY <2>1, <2>2, <2>4, <2>5
  <1>11. Q \in Seq(Seq(S)) /\ Split(t, Sep) = Append(Q, l)
    <2> DEFINE g == [k \in 1..(m + 1) |-> old(k)]
    <2>1. /\ \A k \in 1..m : g[k] \in Seq(S) /\ g[k] = old(k)
          /\ g[m + 1] = l
      <3>1. \A k \in 1..m : k \in 1..(m + 1)
        BY <1>3
      <3>2. m + 1 \in 1..(m + 1)
        BY <1>3
      <3> HIDE DEF l
      <3> QED BY <1>9, <3>1, <3>2 DEF l
    <2>2. [k \in 1..m |-> g[k]] = Q
      BY <2>1
    <2>3. [k \in 1..(m + 1) |-> g[k]] = g
      OBVIOUS
    <2> HIDE DEF g, l, Q, old
    <2>4. /\ [k \in 1..m |-> g[k]] \in Seq(Seq(S))
          /\ [k \in 1..(m + 1) |-> g[k]] = Append([k \in 1..m |-> g[k]], l)
      <3>1. \A k \in 1..m : g[k] \in Seq(S)
        BY <2>1
      <3> QED BY <1>3, <1>10, <2>1, <3>1, LastAppended
    <2>5. Split(t, Sep) = g
      BY <1>5 DEF g
    <2> QED BY <2>2, <2>3, <2>4, <2>5
  <1>12. CASE c \in Sep
    <2>1. Len(e) = m + 1 /\ e[m + 1] = n + 1
      <3>1. n + 1 \in Nat
        BY <1>1
      <3> QED BY <1>2, <1>4, <1>12, <3>1, AppendProperties
    <2>2. Cut(e, n + 1, m + 2) = n + 1 /\ Cut(e, n + 1, m + 3) = n + 2
      BY <1>1, <1>3, <2>1 DEF Cut
    <2>3. new(m + 1) = l
      <3>1. m + 1 \in 1..(m + 1) /\ m + 1 + 1 = m + 2 /\ n + 1 - 1 = n
        BY <1>1, <1>3
      <3>2. Cut(e, n + 1, m + 1) = a /\ Cut(e, n + 1, m + 1 + 1) - 1 = n
        BY <1>8, <2>2, <3>1
      <3> HIDE DEF a, l
      <3> QED BY <1>10, <3>2
    <2>4. new(m + 2) = << >>
      <3>1. /\ m + 2 + 1 = m + 3 /\ n + 2 - 1 = n + 1 /\ n + 1 + 1 = n + 2
            /\ n + 2 \in Int /\ n + 1 \in Int /\ n + 1 < n + 2
        BY <1>1, <1>3
      <3>2. SubSeq(u, n + 2, n + 1) = << >>
        <4> HIDE DEF u
        <4> QED BY <3>1, SubSeqEmpty
      <3>3. Cut(e, n + 1, m + 2) + 1 = n + 2 /\ Cut(e, n + 1, m + 2 + 1) - 1 = n + 1
        BY <2>2, <3>1
      <3> QED BY <3>2, <3>3
    <2> DEFINE h == [k \in 1..(m + 2) |-> new(k)]
    <2>5. /\ \A k \in 1..m : h[k] = old(k) /\ old(k) \in Seq(S)
          /\ h[m + 1] = l /\ h[m + 2] = << >>
      <3>1. \A k \in 1..m : k \in 1..(m + 2)
        BY <1>3
      <3>2. m + 1 \in 1..(m + 2) /\ m + 2 \in 1..(m + 2)
        BY <1>3
      <3> HIDE DEF l, old, new
      <3> QED BY <1>9, <2>3, <2>4, <3>1, <3>2
    <2>6. Split(u, Sep) = h
      BY <1>3, <1>6, <2>1
    <2>7. h = Append(Append(Q, l), << >>)
      <3> DEFINE g == [k \in 1..(m + 1) |-> h[k]]
                 r == [k \in 1..m |-> h[k]]
      <3>1. Q = r
        BY <2>5
      <3>2. h = [k \in 1..(m + 1 + 1) |-> h[k]]
        <4>1. m + 2 = m + 1 + 1
          BY <1>3
        <4>2. h = [k \in 1..(m + 2) |-> h[k]]
          OBVIOUS
        <4> HIDE DEF h
        <4> QED BY <4>1, <4>2
      <3> HIDE DEF h, l, Q, old, new
      <3>3. r \in Seq(Seq(S)) /\ g = Append(r, l)
        <4>1. \A k \in 1..m : h[k] \in Seq(S)
          BY <2>5
        <4> QED BY <1>3, <1>10, <2>5, <4>1, LastAppended
      <3>4. [k \in 1..(m + 1 + 1) |-> h[k]] = Append(g, << >>)
        <4>1. << >> \in Seq(S) /\ m + 1 \in Nat /\ m + 1 + 1 = m + 2
          BY <1>3, EmptySeq
        <4>2. \A k \in 1..(m + 1) : h[k] \in Seq(S)
          <5>1. \A k \in 1..(m + 1) : k = m + 1 \/ k \in 1..m
            BY <1>3
          <5> QED BY <1>10, <2>5, <5>1
        <4>3. h[m + 1 + 1] = << >>
          BY <2>5, <4>1
        <4> QED BY <4>1, <4>2, <4>3, LastAppended
      <3> HIDE DEF g, r
      <3> QED BY <3>1, <3>2, <3>3, <3>4
    <2> HIDE DEF Q, l, h
    <2>8. Split(u, Sep) = Append(Append(Q, l), << >>)
      BY <2>6, <2>7
    <2>9. l \in Seq(S)
      BY <1>10
    <2> QED BY <1>11, <1>12, <2>8, <2>9 DEF SplitGrows
  <1>13. CASE c \notin Sep
    <2>1. e = f
      BY <1>2, <1>13
    <2>2. new(m + 1) = Append(l, c)
      <3>1. m + 1 \in 1..(m + 1) /\ m + 1 + 1 = m + 2 /\ n + 1 + 1 - 1 = n + 1
        BY <1>1, <1>3
      <3>2. Cut(e, n + 1, m + 1) = a
        BY <1>8, <3>1
      <3>3. Cut(e, n + 1, m + 2) = n + 1 + 1
        BY <1>3, <2>1 DEF Cut
      <3>4. Cut(e, n + 1, m + 1 + 1) - 1 = n + 1
        BY <3>1, <3>3
      <3> HIDE DEF a, l
      <3> QED BY <1>10, <3>2, <3>4
    <2> DEFINE h == [k \in 1..(m + 1) |-> new(k)]
    <2>3. Split(u, Sep) = h
      BY <1>6, <2>1
    <2>4. /\ \A k \in 1..m : h[k] = old(k) /\ old(k) \in Seq(S)
          /\ h[m + 1] = Append(l, c)
      <3>1. \A k \in 1..m : k \in 1..(m + 1)
        BY <1>3
      <3>2. m + 1 \in 1..(m + 1)
        BY <1>3
      <3> HIDE DEF l, old, new
      <3> QED BY <1>9, <2>2, <3>1, <3>2
    <2>5. Append(l, c) \in Seq(S)
      <3> HIDE DEF l
      <3> QED BY <1>10, AppendProperties
    <2>6. h = Append(Q, Append(l, c))
      <3> DEFINE r == [k \in 1..m |-> h[k]]
      <3>1. Q = r
        BY <2>4
      <3>2. h = [k \in 1..(m + 1) |-> h[k]]
        OBVIOUS
      <3> HIDE DEF h, l, Q, old, new
      <3>3. \A k \in 1..m : h[k] \in Seq(S)
        BY <2>4
      <3>4. [k \in 1..(m + 1) |-> h[k]] = Append(r, Append(l, c))
        BY <1>3, <2>4, <2>5, <3>3, LastAppended
      <3> HIDE DEF r
      <3> QED BY <3>1, <3>2, <3>4
    <2> HIDE DEF Q, l, h
    <2>7. Split(u, Sep) = Append(Q, Append(l, c))
      BY <2>3, <2>6
    <2>8. l \in Seq(S)
      BY <1>10
    <2> QED BY <1>11, <1>13, <2>7, <2>8 DEF SplitGrows
  <1> QED BY <1>12, <1>13

-----------------------------------------------------------------------------
(* StripRight *)

\* The greatest of some numbers.
LEMMA MaxOf ==
    ASSUME NEW n \in Nat, NEW T \in SUBSET (0..n), T # {}
    PROVE  Max(T) \in T /\ \A i \in T : i <= Max(T)
  <1> DEFINE D == {n - i : i \in T}
  <1>1. D \in SUBSET Nat /\ D # {}
    <2>1. \A i \in T : i \in 0..n
      OBVIOUS
    <2>2. \A i \in T : n - i \in Nat
      BY <2>1
    <2>3. D \subseteq Nat
      BY <2>2
    <2>4. PICK i \in T : TRUE
      OBVIOUS
    <2>5. n - i \in D
      BY <2>4
    <2> QED BY <2>3, <2>5
  <1>2. PICK d \in D : \A e \in D : d <= e
    BY <1>1, LeastNumber
  <1>3. PICK m \in T : d = n - m
    BY <1>2
  <1>4. \A i \in T : i \in 0..n /\ n - i \in D
    OBVIOUS
  <1>5. ASSUME NEW i \in T PROVE m >= i
    <2>1. d <= n - i /\ i \in 0..n /\ m \in 0..n
      BY <1>2, <1>4
    <2> QED BY <1>3, <2>1
  <1>6. Max(T) \in T /\ \A i \in T : Max(T) >= i
    <2> DEFINE Great(x) == \A i \in T : x >= i
    <2>1. \E x \in T : Great(x)
      BY <1>5
    <2> HIDE DEF Great
    <2>2. (CHOOSE x \in T : Great(x)) \in T /\ Great(CHOOSE x \in T : Great(x))
      BY <2>1
    <2> QED BY <2>2 DEF Max, Great
  <1> QED BY <1>4, <1>6

\* The last element that is kept.
Unstripped(s, B) == {0} \cup {i \in 1..Len(s) : s[i] \notin B}

\* Nothing to strip.
LEMMA StripEmpty == ASSUME NEW B PROVE StripRight(<< >>, B) = << >>
  <1>1. Len(<< >>) = 0
    BY EmptySeq
  <1>2. Unstripped(<< >>, B) = {0}
    BY <1>1 DEF Unstripped
  <1>3. Max({0}) = 0
    BY DEF Max
  <1>4. SubSeq(<< >>, 1, 0) = << >>
    BY SubSeqEmpty
  <1> QED BY <1>2, <1>3, <1>4 DEF StripRight, Unstripped

\* An element more at the end: it goes with what is stripped, or keeps it all.
LEMMA StripAppend ==
    ASSUME NEW S, NEW s \in Seq(S), NEW c \in S, NEW B
    PROVE  StripRight(Append(s, c), B) = IF c \in B THEN StripRight(s, B) ELSE Append(s, c)
  <1> DEFINE n == Len(s)
             u == Append(s, c)
  <1>1. /\ n \in Nat /\ u \in Seq(S) /\ Len(u) = n + 1 /\ u[n + 1] = c
        /\ \A i \in 1..n : u[i] = s[i]
    BY LenProperties, AppendProperties
  <1>2. StripRight(u, B) = SubSeq(u, 1, Max(Unstripped(u, B))) /\ StripRight(s, B) = SubSeq(s, 1, Max(Unstripped(s, B)))
    BY DEF StripRight, Unstripped
  <1>3. \A i \in 1..(n + 1) : i = n + 1 \/ i \in 1..n
    BY <1>1
  <1> HIDE DEF u
  <1>4. CASE c \in B
    <2>1. Unstripped(u, B) = Unstripped(s, B)
      BY <1>1, <1>3, <1>4 DEF Unstripped
    <2>2. Unstripped(s, B) \subseteq 0..n /\ Unstripped(s, B) # {}
      BY <1>1 DEF Unstripped
    <2> DEFINE k == Max(Unstripped(s, B))
    <2>3. k \in 0..n
      BY <1>1, <2>2, MaxOf
    <2> HIDE DEF k
    <2>4. SubSeq(u, 0 + 1, k) = SubSeq(s, 0 + 1, k)
      <3>1. 0 \in 0..n
        BY <1>1
      <3>2. PartGrows(S, s, c, 0)
        BY <3>1, PartAppend
      <3> QED BY <2>3, <3>2 DEF PartGrows, u
    <2>5. SubSeq(u, 1, k) = SubSeq(s, 1, k)
      <3>1. 0 + 1 = 1
        OBVIOUS
      <3> QED BY <2>4, <3>1, Zenon
    <2> QED BY <1>2, <1>4, <2>1, <2>5 DEF k, u
  <1>5. CASE c \notin B
    <2> DEFINE K == Unstripped(u, B)
    <2>1. K \subseteq 0..(n + 1) /\ n + 1 \in K /\ n + 1 \in Nat
      BY <1>1, <1>5 DEF Unstripped
    <2> HIDE DEF K
    <2>2. Max(K) \in K /\ \A i \in K : i <= Max(K)
      <3> DEFINE m == n + 1
      <3>1. K \in SUBSET (0..m) /\ m \in Nat /\ K # {}
        BY <2>1
      <3> HIDE DEF m
      <3> QED BY <3>1, MaxOf
    <2>3. Max(K) = n + 1
      <3>1. n + 1 <= Max(K) /\ Max(K) \in 0..(n + 1)
        BY <2>1, <2>2
      <3> QED BY <1>1, <3>1
    <2>4. SubSeq(u, 1, Len(u)) = u
      BY <1>1, SubSeqFull
    <2> QED BY <1>1, <1>2, <1>5, <2>3, <2>4 DEF K, u
  <1> QED BY <1>4, <1>5 DEF u

\* What is left of a sequence.
LEMMA StripType ==
    ASSUME NEW S, NEW s \in Seq(S), NEW B
    PROVE  /\ StripRight(s, B) \in Seq(S)
           /\ Len(StripRight(s, B)) <= Len(s)
           /\ \A i \in 1..Len(StripRight(s, B)) : StripRight(s, B)[i] = s[i]
           /\ StripRight(s, B) # << >> => StripRight(s, B)[Len(StripRight(s, B))] \notin B
           /\ \A i \in 1..Len(s) : Len(StripRight(s, B)) < i => s[i] \in B
  <1> DEFINE k == Max(Unstripped(s, B))
             r == StripRight(s, B)
  <1>1. Len(s) \in Nat /\ \A i \in 1..Len(s) : s[i] \in S
    BY LenProperties, ElementOfSeq
  <1>2. k \in Unstripped(s, B) /\ k \in 0..Len(s) /\ \A i \in Unstripped(s, B) : i <= k
    <2>1. Unstripped(s, B) \in SUBSET (0..Len(s)) /\ Unstripped(s, B) # {}
      BY <1>1 DEF Unstripped
    <2> QED BY <1>1, <2>1, MaxOf
  <1>3. r = SubSeq(s, 1, k)
    BY DEF StripRight, Unstripped
  <1> HIDE DEF k, r
  <1>4. r \in Seq(S) /\ Len(r) = k /\ \A i \in 1..k : r[i] = s[i]
    <2>1. \A i \in 1..k : s[i] \in S
      BY <1>1, <1>2
    <2>2. 1 \in Int /\ k \in Int
      BY <1>2
    <2>3. /\ SubSeq(s, 1, k) \in Seq(S)
          /\ Len(SubSeq(s, 1, k)) = IF 1 <= k THEN k - 1 + 1 ELSE 0
          /\ \A i \in 1..(k - 1 + 1) : SubSeq(s, 1, k)[i] = s[1 + i - 1]
      BY <2>1, <2>2, SubSeqProperties
    <2>4. k - 1 + 1 = k /\ (IF 1 <= k THEN k - 1 + 1 ELSE 0) = k /\ \A i \in 1..k : 1 + i - 1 = i
      BY <1>2
    <2> QED BY <1>3, <2>3, <2>4
  <1>5. r # << >> => r[Len(r)] \notin B
    <2>1. SUFFICES ASSUME r # << >> PROVE r[Len(r)] \notin B
      OBVIOUS
    <2>2. k # 0 /\ k \in 1..k
      BY <1>4, <2>1, EmptySeq, <1>2
    <2> QED BY <1>2, <1>4, <2>2 DEF Unstripped
  <1>6. ASSUME NEW i \in 1..Len(s), Len(r) < i PROVE s[i] \in B
    BY <1>1, <1>2, <1>4, <1>6 DEF Unstripped
  <1>7. r \in Seq(S) /\ Len(r) <= Len(s) /\ \A i \in 1..Len(r) : r[i] = s[i]
    BY <1>1, <1>2, <1>4
  <1> QED BY <1>5, <1>6, <1>7 DEF r

-----------------------------------------------------------------------------
(* Join *)

\* No lines, no text.
LEMMA JoinNone == Join(<< >>) = << >>
  <1>1. [i \in 1..0 |-> IF i = 1 THEN (<< >>)[i] ELSE <<LF>> \o (<< >>)[i]] = << >>
    OBVIOUS
  <1>2. Len(<< >>) = 0
    BY EmptySeq
  <1> QED BY <1>1, <1>2, ConcatNone DEF Join

\* One line more, behind an LF unless it is the first.
LEMMA JoinAppend ==
    ASSUME NEW S, LF \in S, NEW ls \in Seq(Seq(S)), NEW l \in Seq(S)
    PROVE  /\ Join(ls) \in Seq(S)
           /\ Join(Append(ls, l)) = IF ls = << >> THEN l ELSE Join(ls) \o (<<LF>> \o l)
  <1> DEFINE n == Len(ls)
             us == Append(ls, l)
             part(q, i) == IF i = 1 THEN q[i] ELSE <<LF>> \o q[i]
             old == [i \in 1..n |-> part(ls, i)]
             new == [i \in 1..(n + 1) |-> part(us, i)]
             p   == part(us, n + 1)
  <1>1. /\ n \in Nat /\ us \in Seq(Seq(S)) /\ Len(us) = n + 1 /\ us[n + 1] = l
        /\ \A i \in 1..n : us[i] = ls[i] /\ ls[i] \in Seq(S)
    BY LenProperties, AppendProperties, ElementOfSeq
  <1>2. \A x \in Seq(S) : <<LF>> \o x \in Seq(S)
    <2>1. <<LF>> \in Seq(S)
      OBVIOUS
    <2> QED BY <2>1, ConcatProperties
  <1>3. /\ \A i \in 1..n : part(ls, i) \in Seq(S) /\ part(us, i) = part(ls, i)
        /\ p \in Seq(S)
        /\ p = IF n + 1 = 1 THEN l ELSE <<LF>> \o l
    BY <1>1, <1>2
  <1>4. Join(ls) = Concat(old) /\ Join(us) = Concat(new)
    BY <1>1 DEF Join
  <1>5. old \in Seq(Seq(S)) /\ new = Append(old, p)
    <2> DEFINE g == [i \in 1..n |-> part(ls, i)]
               h == [i \in 1..(n + 1) |-> part(us, i)]
    <2>1. /\ \A i \in 1..n : h[i] \in Seq(S) /\ h[i] = g[i] /\ g[i] \in Seq(S)
          /\ h[n + 1] = p
      <3>1. \A i \in 1..n : i \in 1..(n + 1)
        BY <1>1
      <3>2. n + 1 \in 1..(n + 1)
        BY <1>1
      <3> HIDE DEF part, p
      <3> QED BY <1>3, <3>1, <3>2 DEF p
    <2>2. old = [i \in 1..n |-> h[i]] /\ new = [i \in 1..(n + 1) |-> h[i]]
      BY <2>1
    <2> HIDE DEF g, h, p, part, old, new
    <2>3. \A i \in 1..n : h[i] \in Seq(S)
      BY <2>1
    <2>4. p \in Seq(S) /\ h[n + 1] = p
      BY <1>3, <2>1
    <2>5. /\ [i \in 1..n |-> h[i]] \in Seq(Seq(S))
          /\ [i \in 1..(n + 1) |-> h[i]] = Append([i \in 1..n |-> h[i]], p)
      BY <1>1, <2>3, <2>4, LastAppended
    <2> QED BY <2>2, <2>5
  <1>6. ls = << >> <=> n + 1 = 1
    BY <1>1, EmptySeq
  <1> HIDE DEF old, new, p, part
  <1>7. Concat(new) = Concat(old) \o p /\ Concat(old) \in Seq(S)
    BY <1>3, <1>5, ConcatAppend, ConcatType
  <1>8. ls = << >> => Concat(old) = << >>
    BY <1>4, JoinNone
  <1>9. << >> \o l = l
    BY ConcatEmptySeq
  <1> HIDE DEF us, n
  <1> QED BY <1>3, <1>4, <1>6, <1>7, <1>8, <1>9 DEF us

-----------------------------------------------------------------------------
(* Tokens *)

White    == {CR, LF, SP}
Full(ps) == At(ps, {i \in 1..Len(ps) : ps[i] # << >>})

\* A text whose last token may still grow.
Open(t) == t # << >> /\ t[Len(t)] \notin White

\* What Tokenize keeps of the pieces.
LEMMA FullAppend ==
    ASSUME NEW S, NEW ps \in Seq(Seq(S)), NEW p \in Seq(S)
    PROVE  /\ Full(ps) \in Seq(Seq(S))
           /\ Full(Append(ps, p)) = IF p # << >> THEN Append(Full(ps), p) ELSE Full(ps)
  <1> DEFINE n == Len(ps)
             us == Append(ps, p)
             P == {i \in 1..n : ps[i] # << >>}
             Q == {i \in 1..(n + 1) : us[i] # << >>}
  <1>1. /\ n \in Nat /\ Len(us) = n + 1 /\ us[n + 1] = p
        /\ \A i \in 1..n : us[i] = ps[i]
    BY LenProperties, AppendProperties
  <1>2. Full(ps) = At(ps, P) /\ Full(us) = At(us, Q)
    BY <1>1 DEF Full
  <1>3. n + 1 \in Q <=> p # << >>
    BY <1>1
  <1>4. \A i \in 1..n : i \in P <=> i \in Q
    BY <1>1
  <1> HIDE DEF P, Q
  <1>5. At(ps, P) = At(ps, Q) /\ At(ps, P) \in Seq(Seq(S))
    BY <1>4, AtSame, AtType
  <1>6. At(us, Q) = IF n + 1 \in Q THEN Append(At(ps, Q), p) ELSE At(ps, Q)
    BY AtAppend
  <1> QED BY <1>2, <1>3, <1>5, <1>6

\* Of the one empty piece of the empty text nothing is kept.
LEMMA FullNone == Full(<< << >> >>) = << >>
  <1>1. << >> \in Seq(Seq({})) /\ << >> \in Seq({})
    BY EmptySeq
  <1>2. Full(Append(<< >>, << >>)) = Full(<< >>)
    BY <1>1, FullAppend
  <1>3. Full(<< >>) = << >>
    BY AtEmpty DEF Full
  <1>4. Append(<< >>, << >>) = << << >> >>
    OBVIOUS
  <1> QED BY <1>2, <1>3, <1>4

\* The tokens are the pieces that are not empty.
LEMMA TokenizeFull == ASSUME NEW t PROVE Tokenize(t) = Full(Split(t, White))
  BY DEF Tokenize, Full, White

\* The last piece holds something exactly when the last token may grow.
LEMMA LastPiece ==
    ASSUME NEW S, NEW t \in Seq(S)
    PROVE  \E Q \in Seq(Seq(S)), l \in Seq(S) :
              Split(t, White) = Append(Q, l) /\ (l # << >> <=> Open(t))
  <1>1. CASE t = << >>
    <2>1. Split(t, White) = << << >> >> /\ ~Open(t)
      BY <1>1, SplitEmpty DEF Open
    <2>2. << >> \in Seq(Seq(S)) /\ << >> \in Seq(S) /\ Append(<< >>, << >>) = << << >> >>
      BY EmptySeq
    <2> QED BY <2>1, <2>2
  <1>2. CASE t # << >>
    <2>1. PICK r \in Seq(S), d \in S : t = Append(r, d)
      BY <1>2, SequenceEmptyOrAppend
    <2>2. PICK Q \in Seq(Seq(S)), l \in Seq(S) :
              /\ d \in White => Split(t, White) = Append(Append(Q, l), << >>)
              /\ d \notin White => Split(t, White) = Append(Q, Append(l, d))
      <3>1. SplitGrows(S, r, d, White)
        BY SplitAppend
      <3> QED BY <2>1, <3>1 DEF SplitGrows
    <2>3. Open(t) <=> d \notin White
      <3>1. t[Len(t)] = d
        BY <2>1, AppendProperties
      <3> QED BY <1>2, <3>1 DEF Open
    <2>4. /\ Append(Q, l) \in Seq(Seq(S)) /\ << >> \in Seq(S)
          /\ Append(l, d) \in Seq(S) /\ Append(l, d) # << >>
      BY EmptySeq, AppendProperties
    <2>5. CASE d \in White
      BY <2>2, <2>3, <2>4, <2>5
    <2>6. CASE d \notin White
      BY <2>2, <2>3, <2>4, <2>6
    <2> QED BY <2>5, <2>6
  <1> QED BY <1>1, <1>2

\* White space adds nothing to the tokens; any other character begins a token
\* or makes the last one longer.
Lengthened(S, t, c) ==
    \E q \in Seq(Seq(S)), w \in Seq(S) :
        Tokenize(t) = Append(q, w) /\ Tokenize(Append(t, c)) = Append(q, Append(w, c))

\* One character more, by what it is and by how the text ends.
LEMMA TokenizeAppend ==
    ASSUME NEW S, NEW t \in Seq(S), NEW c \in S
    PROVE  /\ Tokenize(t) \in Seq(Seq(S))
           /\ c \in White => Tokenize(Append(t, c)) = Tokenize(t)
           /\ c \notin White /\ ~Open(t) => Tokenize(Append(t, c)) = Append(Tokenize(t), <<c>>)
           /\ c \notin White /\ Open(t) => Lengthened(S, t, c)
  <1>1. PICK Q \in Seq(Seq(S)), l \in Seq(S) :
           /\ Split(t, White) = Append(Q, l)
           /\ c \in White => Split(Append(t, c), White) = Append(Append(Q, l), << >>)
           /\ c \notin White => Split(Append(t, c), White) = Append(Q, Append(l, c))
    <2>1. SplitGrows(S, t, c, White)
      BY SplitAppend
    <2> QED BY <2>1 DEF SplitGrows
  <1>2. l # << >> <=> Open(t)
    <2>1. PICK R \in Seq(Seq(S)), m \in Seq(S) :
             Split(t, White) = Append(R, m) /\ (m # << >> <=> Open(t))
      BY LastPiece
    <2>2. l = m
      <3> DEFINE W == Seq(S)
      <3>1. Q \in Seq(W) /\ R \in Seq(W) /\ l \in W /\ m \in W /\ Append(Q, l) = Append(R, m)
        BY <1>1, <2>1
      <3> HIDE DEF W
      <3> QED BY <3>1, AppendInjective
    <2> QED BY <2>1, <2>2
  <1>3. /\ Append(Q, l) \in Seq(Seq(S)) /\ << >> \in Seq(S)
        /\ Append(l, c) \in Seq(S) /\ Append(l, c) # << >>
    BY EmptySeq, AppendProperties
  <1>4. Full(Q) \in Seq(Seq(S)) /\ Full(Append(Q, l)) = IF l # << >> THEN Append(Full(Q), l) ELSE Full(Q)
    BY FullAppend
  <1>5. /\ Full(Append(Q, l)) \in Seq(Seq(S))
        /\ Full(Append(Append(Q, l), << >>)) = Full(Append(Q, l))
    BY <1>3, FullAppend
  <1>6. Full(Append(Q, Append(l, c))) = Append(Full(Q), Append(l, c))
    BY <1>3, FullAppend
  <1>7. Tokenize(t) = Full(Append(Q, l)) /\ Tokenize(Append(t, c)) = Full(Split(Append(t, c), White))
    BY <1>1, TokenizeFull
  <1>8. c \in White => Tokenize(Append(t, c)) = Tokenize(t)
    BY <1>1, <1>5, <1>7
  <1>9. c \notin White => Tokenize(Append(t, c)) = Append(Full(Q), Append(l, c))
    BY <1>1, <1>6, <1>7
  <1>10. l = << >> => Append(l, c) = <<c>>
    OBVIOUS
  <1>11. c \notin White /\ ~Open(t) => Tokenize(Append(t, c)) = Append(Tokenize(t), <<c>>)
    BY <1>2, <1>4, <1>7, <1>9, <1>10
  <1>12. c \notin White /\ Open(t) =>
             Tokenize(t) = Append(Full(Q), l) /\ Tokenize(Append(t, c)) = Append(Full(Q), Append(l, c))
    BY <1>2, <1>4, <1>7, <1>9
  <1>13. c \notin White /\ Open(t) => Lengthened(S, t, c)
    BY <1>4, <1>12 DEF Lengthened
  <1> QED BY <1>4, <1>5, <1>7, <1>8, <1>11, <1>13

\* The empty text has no tokens.
LEMMA TokenizeNone == Tokenize(<< >>) = << >>
  BY TokenizeFull, SplitEmpty, FullNone

\* Appending to the second of two sequences.
LEMMA AppendToConcat ==
    ASSUME NEW S, NEW x \in Seq(S), NEW y \in Seq(S), NEW e \in S
    PROVE  x \o Append(y, e) = Append(x \o y, e)
  <1>1. Append(y, e) = y \o <<e>> /\ <<e>> \in Seq(S)
    BY AppendIsConcat
  <1>2. x \o y \in Seq(S)
    BY ConcatProperties
  <1>3. Append(x \o y, e) = (x \o y) \o <<e>>
    BY <1>2, AppendIsConcat
  <1>4. (x \o y) \o <<e>> = x \o (y \o <<e>>)
    BY <1>1, ConcatAssociative
  <1> QED BY <1>1, <1>3, <1>4

\* Whether the last token may grow shows at the end of a text.
LEMMA OpenAppend ==
    ASSUME NEW S, NEW t \in Seq(S), NEW c \in S
    PROVE  Open(Append(t, c)) <=> c \notin White
  BY AppendProperties DEF Open

\* The tokens of a text behind one whose tokens are complete.
LEMMA TokenizeConcat ==
    ASSUME NEW S, NEW s \in Seq(S), ~Open(s), NEW u \in Seq(S)
    PROVE  Tokenize(s \o u) = Tokenize(s) \o Tokenize(u)
  <1> DEFINE Holds(v) == /\ Tokenize(s \o v) = Tokenize(s) \o Tokenize(v)
                         /\ Open(s \o v) <=> Open(v)
             T == {v \in Seq(S) : Holds(v)}
  <1>1. << >> \in Seq(S) /\ Holds(<< >>)
    <2>1. S # {} \/ S = {}
      OBVIOUS
    <2>2. Tokenize(s) \in Seq(Seq(S))
      <3>1. CASE S = {}
        <4>1. s = << >>
          BY <3>1, EmptySeq, ElementOfSeq, LenProperties
        <4> QED BY <4>1, TokenizeNone, EmptySeq
      <3>2. CASE S # {}
        <4>1. PICK c \in S : TRUE
          BY <3>2
        <4> QED BY <4>1, TokenizeAppend
      <3> QED BY <3>1, <3>2
    <2>3. s \o << >> = s /\ Tokenize(s) \o << >> = Tokenize(s) /\ << >> \in Seq(S)
      BY <2>2, ConcatEmptySeq, EmptySeq
    <2>4. ~Open(<< >>)
      BY DEF Open
    <2> QED BY <2>3, <2>4, TokenizeNone
  <1>2. ASSUME NEW v \in Seq(S), NEW c \in S, Holds(v)
        PROVE  Append(v, c) \in Seq(S) /\ Holds(Append(v, c))
    <2> DEFINE x == Tokenize(s)
               y == Tokenize(v)
               z == Tokenize(s \o v)
    <2>1. s \o Append(v, c) = Append(s \o v, c) /\ s \o v \in Seq(S)
      BY AppendToConcat, ConcatProperties
    <2>2. /\ x \in Seq(Seq(S)) /\ y \in Seq(Seq(S))
          /\ z = x \o y
      BY <1>2, TokenizeAppend
    <2>3. Open(s \o Append(v, c)) <=> Open(Append(v, c))
      BY <2>1, OpenAppend
    <2>4. <<c>> \in Seq(S) /\ Append(v, c) \in Seq(S)
      BY AppendProperties
    <2> HIDE DEF x, y, z
    <2>5. CASE c \in White
      <3>1. Tokenize(Append(v, c)) = y /\ Tokenize(Append(s \o v, c)) = z
        BY <2>1, <2>5, TokenizeAppend DEF y, z
      <3> QED BY <2>1, <2>2, <2>3, <2>4, <3>1 DEF x
    <2>6. CASE c \notin White /\ ~Open(v)
      <3>1. Tokenize(Append(v, c)) = Append(y, <<c>>)
        BY <2>6, TokenizeAppend DEF y
      <3>2. Tokenize(Append(s \o v, c)) = Append(z, <<c>>)
        BY <1>2, <2>1, <2>6, TokenizeAppend DEF z
      <3>3. x \o Append(y, <<c>>) = Append(x \o y, <<c>>)
        BY <2>2, <2>4, AppendToConcat
      <3> QED BY <2>1, <2>2, <2>3, <2>4, <3>1, <3>2, <3>3 DEF x
    <2>7. CASE c \notin White /\ Open(v)
      <3>1. PICK q \in Seq(Seq(S)), w \in Seq(S) :
               y = Append(q, w) /\ Tokenize(Append(v, c)) = Append(q, Append(w, c))
        <4>1. Lengthened(S, v, c)
          BY <2>7, TokenizeAppend
        <4> QED BY <4>1 DEF Lengthened, y
      <3>2. PICK r \in Seq(Seq(S)), m \in Seq(S) :
               z = Append(r, m) /\ Tokenize(Append(s \o v, c)) = Append(r, Append(m, c))
        <4>1. Lengthened(S, s \o v, c)
          BY <1>2, <2>1, <2>7, TokenizeAppend
        <4> QED BY <4>1 DEF Lengthened, z
      <3>3. w = m /\ x \o Append(q, Append(w, c)) = Append(r, Append(w, c))
        <4> DEFINE W == Seq(S)
                   wc == Append(w, c)
        <4>1. /\ q \in Seq(W) /\ r \in Seq(W) /\ x \in Seq(W)
              /\ w \in W /\ m \in W /\ wc \in W
          BY <2>2, AppendProperties
        <4>2. x \o Append(q, w) = Append(r, m)
          BY <2>2, <3>1, <3>2
        <4> HIDE DEF W, wc
        <4> DEFINE xq == x \o q
        <4>3. xq \in Seq(W)
          BY <4>1, ConcatProperties
        <4>4. x \o Append(q, w) = Append(xq, w)
          BY <4>1, AppendToConcat
        <4>5. x \o Append(q, wc) = Append(xq, wc)
          BY <4>1, AppendToConcat
        <4> HIDE DEF xq
        <4>6. Append(xq, w) = Append(r, m)
          BY <4>2, <4>4
        <4>7. xq = r /\ w = m
          BY <4>1, <4>3, <4>6, AppendInjective
        <4> QED BY <4>5, <4>7 DEF wc
      <3> QED BY <2>1, <2>3, <2>4, <3>1, <3>2, <3>3 DEF x
    <2> QED BY <2>5, <2>6, <2>7
  <1> HIDE DEF Holds
  <1>3. Seq(S) \subseteq T
    BY <1>1, <1>2, SeqInduction
  <1> QED BY <1>3 DEF Holds

-----------------------------------------------------------------------------
(* What normalize_text does to tokens *)

\* The white space is among the characters, and its kinds differ.
LEMMA CharTypes == CR \in Chars /\ LF \in Chars /\ SP \in Chars /\ White \subseteq Chars
                   /\ CR # LF /\ SP # LF /\ CR # SP
  BY DEF Chars, White, CR, LF, SP

\* The tokens on both sides of white space.
LEMMA TokenizeAround ==
    ASSUME NEW S, NEW s \in Seq(S), NEW u \in Seq(S), NEW w \in S, w \in White
    PROVE  Tokenize(s \o (<<w>> \o u)) = Tokenize(s) \o Tokenize(u)
  <1> DEFINE sw == Append(s, w)
  <1>1. <<w>> \in Seq(S) /\ sw = s \o <<w>> /\ sw \in Seq(S)
    BY AppendIsConcat, AppendProperties
  <1>2. s \o (<<w>> \o u) = sw \o u
    <2>1. (s \o <<w>>) \o u = s \o (<<w>> \o u)
      BY <1>1, ConcatAssociative
    <2> QED BY <1>1, <2>1
  <1>3. Tokenize(sw) = Tokenize(s) /\ ~Open(sw)
    BY TokenizeAppend, OpenAppend
  <1> HIDE DEF sw
  <1>4. Tokenize(sw \o u) = Tokenize(sw) \o Tokenize(u)
    BY <1>1, <1>3, TokenizeConcat
  <1> QED BY <1>2, <1>3, <1>4

\* Two texts with the same tokens have the same with one more character.
LEMMA TokenizeStep ==
    ASSUME NEW S, NEW s \in Seq(S), NEW t \in Seq(S), NEW c \in S,
           Tokenize(s) = Tokenize(t), Open(s) <=> Open(t)
    PROVE  Tokenize(Append(s, c)) = Tokenize(Append(t, c))
  <1>1. CASE c \in White
    BY <1>1, TokenizeAppend
  <1>2. CASE c \notin White /\ ~Open(s)
    <2>1. Tokenize(Append(s, c)) = Append(Tokenize(s), <<c>>)
      BY <1>2, TokenizeAppend
    <2>2. Tokenize(Append(t, c)) = Append(Tokenize(t), <<c>>)
      BY <1>2, TokenizeAppend
    <2> QED BY <2>1, <2>2
  <1>3. CASE c \notin White /\ Open(s)
    <2>1. Lengthened(S, s, c) /\ Lengthened(S, t, c)
      BY <1>3, TokenizeAppend
    <2>2. PICK q \in Seq(Seq(S)), w \in Seq(S) :
             Tokenize(s) = Append(q, w) /\ Tokenize(Append(s, c)) = Append(q, Append(w, c))
      BY <2>1 DEF Lengthened
    <2>3. PICK r \in Seq(Seq(S)), m \in Seq(S) :
             Tokenize(t) = Append(r, m) /\ Tokenize(Append(t, c)) = Append(r, Append(m, c))
      BY <2>1 DEF Lengthened
    <2>4. q = r /\ w = m
      <3> DEFINE W == Seq(S)
      <3>1. q \in Seq(W) /\ r \in Seq(W) /\ w \in W /\ m \in W /\ Append(q, w) = Append(r, m)
        BY <2>2, <2>3
      <3> HIDE DEF W
      <3> QED BY <3>1, AppendInjective
    <2> QED BY <2>2, <2>3, <2>4
  <1> QED BY <1>1, <1>2, <1>3

\* Stripping a line keeps its tokens.
LEMMA TokenizeStrip ==
    ASSUME NEW S, NEW l \in Seq(S) PROVE Tokenize(StripRight(l, White)) = Tokenize(l)
  <1> DEFINE T == {v \in Seq(S) : Tokenize(StripRight(v, White)) = Tokenize(v)}
  <1>1. << >> \in T
    BY StripEmpty, EmptySeq
  <1>2. ASSUME NEW v \in Seq(S), NEW c \in S, v \in T PROVE Append(v, c) \in T
    <2>1. Append(v, c) \in Seq(S)
      BY AppendProperties
    <2>2. StripRight(Append(v, c), White) = IF c \in White THEN StripRight(v, White) ELSE Append(v, c)
      BY StripAppend
    <2>3. c \in White => Tokenize(Append(v, c)) = Tokenize(v)
      BY TokenizeAppend
    <2> QED BY <1>2, <2>1, <2>2, <2>3
  <1> HIDE DEF T
  <1>3. Seq(S) \subseteq T
    BY <1>1, <1>2, SeqInduction
  <1> QED BY <1>3 DEF T

\* The lines of a text, each stripped.
Stripped(ls) == [i \in 1..Len(ls) |-> StripRight(ls[i], White)]

\* One line more.
LEMMA StrippedAppend ==
    ASSUME NEW S, NEW ls \in Seq(Seq(S)), NEW l \in Seq(S)
    PROVE  /\ Stripped(ls) \in Seq(Seq(S)) /\ Len(Stripped(ls)) = Len(ls)
           /\ Stripped(Append(ls, l)) = Append(Stripped(ls), StripRight(l, White))
  <1> DEFINE n  == Len(ls)
             us == Append(ls, l)
             W  == Seq(S)
             h  == [i \in 1..(n + 1) |-> StripRight(us[i], White)]
             e  == StripRight(l, White)
  <1>1. /\ n \in Nat /\ Len(us) = n + 1 /\ us[n + 1] = l
        /\ \A i \in 1..n : us[i] = ls[i] /\ ls[i] \in Seq(S)
    BY LenProperties, AppendProperties, ElementOfSeq
  <1>2. \A x \in Seq(S) : StripRight(x, White) \in Seq(S)
    BY StripType
  <1>3. /\ \A i \in 1..n : h[i] \in W /\ h[i] = StripRight(ls[i], White)
        /\ h[n + 1] = e /\ e \in W
    BY <1>1, <1>2
  <1>4. Stripped(ls) = [i \in 1..n |-> h[i]]
    BY <1>3 DEF Stripped
  <1>5. Stripped(us) = [i \in 1..(n + 1) |-> h[i]]
    BY <1>1 DEF Stripped
  <1>6. Len(Stripped(ls)) = n
    BY <1>1 DEF Stripped
  <1> HIDE DEF h, e, W
  <1>7. \A i \in 1..n : h[i] \in W
    BY <1>3
  <1>8. /\ [i \in 1..n |-> h[i]] \in Seq(W)
        /\ [i \in 1..(n + 1) |-> h[i]] = Append([i \in 1..n |-> h[i]], e)
    BY <1>1, <1>3, <1>7, LastAppended
  <1> QED BY <1>4, <1>5, <1>6, <1>8 DEF e, W

\* The tokens of lines joined.
LEMMA TokenizeJoin ==
    ASSUME NEW S, LF \in S, NEW ls \in Seq(Seq(S)), NEW l \in Seq(S)
    PROVE  Tokenize(Join(Append(ls, l))) =
               IF ls = << >> THEN Tokenize(l) ELSE Tokenize(Join(ls)) \o Tokenize(l)
  <1>1. Join(ls) \in Seq(S) /\ Join(Append(ls, l)) = IF ls = << >> THEN l ELSE Join(ls) \o (<<LF>> \o l)
    BY JoinAppend
  <1>2. LF \in White
    BY DEF White
  <1>3. Tokenize(Join(ls) \o (<<LF>> \o l)) = Tokenize(Join(ls)) \o Tokenize(l)
    BY <1>1, <1>2, TokenizeAround
  <1> QED BY <1>1, <1>3

\* Stripping every line keeps the tokens of the whole.
LEMMA StrippedTokens ==
    ASSUME NEW S, LF \in S, NEW ls \in Seq(Seq(S))
    PROVE  Tokenize(Join(Stripped(ls))) = Tokenize(Join(ls))
  <1> DEFINE W == Seq(S)
             Same(v) == Tokenize(Join(Stripped(v))) = Tokenize(Join(v))
             T == {v \in Seq(W) : Same(v)}
  <1>1. << >> \in Seq(W) /\ Same(<< >>)
    <2>1. Len(<< >>) = 0 /\ << >> \in Seq(W)
      BY EmptySeq
    <2>2. [i \in 1..0 |-> StripRight((<< >>)[i], White)] = << >>
      OBVIOUS
    <2> QED BY <2>1, <2>2 DEF Stripped
  <1>2. ASSUME NEW v \in Seq(W), NEW l \in W, Same(v) PROVE Append(v, l) \in Seq(W) /\ Same(Append(v, l))
    <2> DEFINE sv == Stripped(v)
               sl == StripRight(l, White)
    <2>1. Append(v, l) \in Seq(W)
      BY AppendProperties
    <2>2. /\ sv \in Seq(Seq(S)) /\ Len(sv) = Len(v)
          /\ Stripped(Append(v, l)) = Append(sv, sl)
      BY StrippedAppend
    <2>3. sl \in Seq(S) /\ Tokenize(sl) = Tokenize(l)
      BY StripType, TokenizeStrip
    <2>4. sv = << >> <=> v = << >>
      <3>1. \A x \in Seq(Seq(S)) : x = << >> <=> Len(x) = 0
        BY EmptySeq
      <3> QED BY <2>2, <3>1
    <2> HIDE DEF sv, sl
    <2>5. Tokenize(Join(Append(sv, sl))) =
              IF sv = << >> THEN Tokenize(sl) ELSE Tokenize(Join(sv)) \o Tokenize(sl)
      BY <2>2, <2>3, TokenizeJoin
    <2>6. Tokenize(Join(Append(v, l))) =
              IF v = << >> THEN Tokenize(l) ELSE Tokenize(Join(v)) \o Tokenize(l)
      BY TokenizeJoin
    <2>7. Tokenize(Join(sv)) = Tokenize(Join(v))
      BY <1>2 DEF sv
    <2> QED BY <2>1, <2>2, <2>3, <2>4, <2>5, <2>6, <2>7
  <1> HIDE DEF Same, W
  <1>3. Seq(W) \subseteq T
    BY <1>1, <1>2, SeqInduction
  <1> QED BY <1>3 DEF Same, W

\* Empty lines at the end hold no tokens.
LEMMA EmptyLinesTokens ==
    ASSUME NEW S, LF \in S, NEW ls \in Seq(Seq(S))
    PROVE  Tokenize(Join(StripRight(ls, {<< >>}))) = Tokenize(Join(ls))
  <1> DEFINE W == Seq(S)
             Same(v) == Tokenize(Join(StripRight(v, {<< >>}))) = Tokenize(Join(v))
             T == {v \in Seq(W) : Same(v)}
  <1>1. << >> \in Seq(W) /\ Same(<< >>)
    BY StripEmpty, EmptySeq
  <1>2. ASSUME NEW v \in Seq(W), NEW l \in W, Same(v) PROVE Append(v, l) \in Seq(W) /\ Same(Append(v, l))
    <2>1. Append(v, l) \in Seq(W)
      BY AppendProperties
    <2>2. StripRight(Append(v, l), {<< >>}) = IF l \in {<< >>} THEN StripRight(v, {<< >>}) ELSE Append(v, l)
      BY StripAppend
    <2>3. CASE l = << >>
      <3>1. Tokenize(Join(Append(v, l))) =
                IF v = << >> THEN Tokenize(l) ELSE Tokenize(Join(v)) \o Tokenize(l)
        BY TokenizeJoin
      <3>2. Join(v) \in Seq(S)
        BY JoinAppend
      <3>3. Tokenize(Join(v)) \in Seq(Seq(S))
        BY <3>2, TokenizeAppend
      <3>4. Tokenize(Join(v)) \o << >> = Tokenize(Join(v))
        BY <3>3, ConcatEmptySeq
      <3>5. Tokenize(Join(Append(v, l))) = Tokenize(Join(v))
        <4>1. CASE v = << >>
          BY <2>3, <3>1, <4>1, JoinNone
        <4>2. CASE v # << >>
          BY <2>3, <3>1, <3>4, <4>2, TokenizeNone
        <4> QED BY <4>1, <4>2
      <3> QED BY <1>2, <2>1, <2>2, <2>3, <3>5
    <2>4. CASE l # << >>
      BY <2>1, <2>2, <2>4
    <2> QED BY <2>3, <2>4
  <1> HIDE DEF Same, W
  <1>3. Seq(W) \subseteq T
    BY <1>1, <1>2, SeqInduction
  <1> QED BY <1>3 DEF Same, W

\* Lines joined by LF are what split("\n") was applied to.
LEMMA JoinSplit == ASSUME NEW S, LF \in S, NEW u \in Seq(S) PROVE Join(Split(u, {LF})) = u
  <1> DEFINE Same(v) == Join(Split(v, {LF})) = v
             T == {v \in Seq(S) : Same(v)}
  <1>1. << >> \in Seq(S) /\ Same(<< >>)
    <2>1. << >> \in Seq(Seq(S)) /\ << >> \in Seq(S)
      BY EmptySeq
    <2>2. Join(Append(<< >>, << >>)) = << >>
      BY <2>1, JoinAppend
    <2>3. Append(<< >>, << >>) = << << >> >>
      OBVIOUS
    <2> QED BY <2>1, <2>2, <2>3, SplitEmpty
  <1>2. ASSUME NEW v \in Seq(S), NEW c \in S, Same(v) PROVE Append(v, c) \in Seq(S) /\ Same(Append(v, c))
    <2>1. Append(v, c) \in Seq(S)
      BY AppendProperties
    <2>2. SplitGrows(S, v, c, {LF})
      BY SplitAppend
    <2>3. PICK Q \in Seq(Seq(S)), l \in Seq(S) :
             /\ Split(v, {LF}) = Append(Q, l)
             /\ c \in {LF} => Split(Append(v, c), {LF}) = Append(Append(Q, l), << >>)
             /\ c \notin {LF} => Split(Append(v, c), {LF}) = Append(Q, Append(l, c))
      BY <2>2 DEF SplitGrows
    <2>4. /\ Join(Q) \in Seq(S)
          /\ v = IF Q = << >> THEN l ELSE Join(Q) \o (<<LF>> \o l)
      <3>1. Join(Append(Q, l)) = IF Q = << >> THEN l ELSE Join(Q) \o (<<LF>> \o l)
        BY JoinAppend
      <3>2. Join(Q) \in Seq(S)
        BY JoinAppend
      <3> QED BY <1>2, <2>3, <3>1, <3>2
    <2>5. CASE c = LF
      <3>1. /\ Append(Q, l) \in Seq(Seq(S)) /\ Append(Q, l) # << >> /\ << >> \in Seq(S)
        BY AppendProperties, EmptySeq
      <3>2. Join(Append(Append(Q, l), << >>)) = Join(Append(Q, l)) \o (<<LF>> \o << >>)
        BY <3>1, JoinAppend
      <3>3. <<LF>> \o << >> = <<LF>>
        OBVIOUS
      <3>4. v \o <<c>> = Append(v, c)
        BY AppendIsConcat
      <3> QED BY <1>2, <2>1, <2>3, <2>5, <3>2, <3>3, <3>4
    <2>6. CASE c # LF
      <3>1. Append(l, c) \in Seq(S)
        BY AppendProperties
      <3>2. Join(Append(Q, Append(l, c))) =
                IF Q = << >> THEN Append(l, c) ELSE Join(Q) \o (<<LF>> \o Append(l, c))
        BY <3>1, JoinAppend
      <3>3. <<LF>> \in Seq(S)
        OBVIOUS
      <3> DEFINE b  == <<LF>>
                 bl == b \o l
                 q  == Join(Q)
      <3>4. bl \in Seq(S) /\ b \in Seq(S) /\ q \in Seq(S)
        BY <2>4, <3>3, ConcatProperties
      <3> HIDE DEF b, q
      <3>5. b \o Append(l, c) = Append(bl, c)
        BY <3>4, AppendToConcat
      <3> HIDE DEF bl
      <3>6. q \o Append(bl, c) = Append(q \o bl, c)
        BY <3>4, AppendToConcat
      <3>7. Join(Append(Q, Append(l, c))) = Append(v, c)
        BY <2>4, <3>2, <3>5, <3>6 DEF b, q, bl
      <3>8. Split(Append(v, c), {LF}) = Append(Q, Append(l, c))
        BY <2>3, <2>6
      <3> QED BY <2>1, <3>7, <3>8
    <2> QED BY <2>5, <2>6
  <1> HIDE DEF Same
  <1>3. Seq(S) \subseteq T
    BY <1>1, <1>2, SeqInduction
  <1> QED BY <1>3 DEF Same

-----------------------------------------------------------------------------
(* UnifyLineEnds *)

\* The characters left when CR is gone.
Flat == Chars \ {CR}

\* The next LF belongs to a CRLF.
AfterCR(t) == t # << >> /\ t[Len(t)] = CR

\* One more character: the LF of a CRLF adds nothing, and a CR adds an LF.
LEMMA UnifyAppend ==
    ASSUME NEW t \in Seq(Chars), NEW c \in Chars
    PROVE  /\ UnifyLineEnds(t) \in Seq(Flat)
           /\ UnifyLineEnds(Append(t, c)) =
                  IF c = LF /\ AfterCR(t) THEN UnifyLineEnds(t)
                  ELSE Append(UnifyLineEnds(t), IF c = CR THEN LF ELSE c)
  <1> DEFINE n == Len(t)
             u == Append(t, c)
             d == IF c = CR THEN LF ELSE c
             old == [i \in 1..n |-> IF t[i] = CR THEN LF ELSE t[i]]
             new == [i \in 1..(n + 1) |-> IF u[i] = CR THEN LF ELSE u[i]]
             P == {i \in 1..n : ~(t[i] = LF /\ i > 1 /\ t[i - 1] = CR)}
             Q == {i \in 1..(n + 1) : ~(u[i] = LF /\ i > 1 /\ u[i - 1] = CR)}
  <1>1. /\ n \in Nat /\ u \in Seq(Chars) /\ Len(u) = n + 1 /\ u[n + 1] = c
        /\ \A i \in 1..n : u[i] = t[i] /\ t[i] \in Chars
    BY LenProperties, AppendProperties, ElementOfSeq
  <1>2. UnifyLineEnds(t) = At(old, P) /\ UnifyLineEnds(u) = At(new, Q)
    BY <1>1 DEF UnifyLineEnds
  <1>3. old \in Seq(Flat) /\ new = Append(old, d) /\ d \in Flat /\ Len(old) = n
    <2>1. \A x \in Chars : (IF x = CR THEN LF ELSE x) \in Flat
      BY CharTypes DEF Flat
    <2>2. \A i \in 1..n : old[i] \in Flat /\ new[i] = old[i]
      <3>1. \A i \in 1..n : i \in 1..(n + 1)
        BY <1>1
      <3> QED BY <1>1, <2>1, <3>1
    <2>3. new[n + 1] = d /\ d \in Flat
      <3>1. n + 1 \in 1..(n + 1)
        BY <1>1
      <3> HIDE DEF u
      <3> QED BY <1>1, <2>1, <3>1
    <2>4. old = [i \in 1..n |-> old[i]] /\ new = [i \in 1..(n + 1) |-> new[i]]
      OBVIOUS
    <2>5. Len(old) = n
      BY <1>1
    <2> HIDE DEF old, new, d
    <2>6. /\ [i \in 1..n |-> old[i]] \in Seq(Flat)
          /\ [i \in 1..(n + 1) |-> new[i]] = Append([i \in 1..n |-> old[i]], d)
      BY <1>1, <2>2, <2>3, LastAppended
    <2> QED BY <2>3, <2>4, <2>5, <2>6
  <1>4. n + 1 \in Q <=> ~(c = LF /\ AfterCR(t))
    <2>1. n + 1 > 1 <=> t # << >>
      BY <1>1, EmptySeq
    <2>2. t # << >> => u[n + 1 - 1] = t[n]
      <3>1. t # << >> => n \in 1..n /\ n + 1 - 1 = n
        BY <1>1, EmptySeq
      <3> QED BY <1>1, <3>1
    <2>3. n + 1 \in 1..(n + 1)
      BY <1>1
    <2> HIDE DEF u
    <2>4. n + 1 \in Q <=> ~(u[n + 1] = LF /\ n + 1 > 1 /\ u[n + 1 - 1] = CR)
      BY <2>3
    <2> QED BY <1>1, <2>1, <2>2, <2>4 DEF AfterCR
  <1>5. \A i \in 1..n : i \in P <=> i \in Q
    <2>1. \A i \in 1..n : i \in 1..(n + 1) /\ (i > 1 => i - 1 \in 1..n)
      BY <1>1
    <2>2. ASSUME NEW i \in 1..n PROVE i \in P <=> i \in Q
      <3>1. u[i] = t[i] /\ (i > 1 => u[i - 1] = t[i - 1])
        BY <1>1, <2>1
      <3> HIDE DEF u
      <3> QED BY <2>1, <3>1
    <2> QED BY <2>2
  <1> HIDE DEF P, Q, old, new, d
  <1>6. At(old, P) = At(old, Q) /\ At(old, P) \in Seq(Flat)
    BY <1>3, <1>5, AtSame, AtType
  <1>7. At(new, Q) = IF n + 1 \in Q THEN Append(At(old, Q), d) ELSE At(old, Q)
    BY <1>3, AtAppend
  <1> QED BY <1>2, <1>4, <1>6, <1>7 DEF u, d

\* Nothing to unify.
LEMMA UnifyNone == UnifyLineEnds(<< >>) = << >>
  <1>1. Len(<< >>) = 0
    BY EmptySeq
  <1>2. [i \in 1..0 |-> IF (<< >>)[i] = CR THEN LF ELSE (<< >>)[i]] = << >>
    OBVIOUS
  <1> QED BY <1>1, <1>2, AtEmpty DEF UnifyLineEnds

\* Other line ends, the same tokens.
LEMMA TokenizeUnify ==
    ASSUME NEW t \in Seq(Chars) PROVE Tokenize(UnifyLineEnds(t)) = Tokenize(t)
  <1> DEFINE Same(v) == /\ Tokenize(UnifyLineEnds(v)) = Tokenize(v)
                        /\ Open(UnifyLineEnds(v)) <=> Open(v)
             T == {v \in Seq(Chars) : Same(v)}
  <1>1. << >> \in Seq(Chars) /\ Same(<< >>)
    BY UnifyNone, EmptySeq
  <1>2. ASSUME NEW v \in Seq(Chars), NEW c \in Chars, Same(v)
        PROVE  Append(v, c) \in Seq(Chars) /\ Same(Append(v, c))
    <2> DEFINE U == UnifyLineEnds(v)
               d == IF c = CR THEN LF ELSE c
    <2>1. Append(v, c) \in Seq(Chars)
      BY AppendProperties
    <2>2. /\ U \in Seq(Flat)
          /\ UnifyLineEnds(Append(v, c)) = IF c = LF /\ AfterCR(v) THEN U ELSE Append(U, d)
      BY UnifyAppend
    <2>3. U \in Seq(Chars) /\ d \in Chars /\ (d \in White <=> c \in White)
      <3>1. Flat \subseteq Chars
        BY DEF Flat
      <3>2. U \in Seq(Chars)
        BY <2>2, <3>1, SeqMonotonic
      <3> QED BY <3>2, CharTypes DEF White
    <2>4. Open(Append(v, c)) <=> c \notin White
      BY OpenAppend
    <2> HIDE DEF U, d
    <2>5. CASE c = LF /\ AfterCR(v)
      <3>1. c \in White /\ ~Open(v)
        BY <2>5 DEF White, Open, AfterCR
      <3>2. Tokenize(Append(v, c)) = Tokenize(v)
        BY <3>1, TokenizeAppend
      <3> QED BY <1>2, <2>1, <2>2, <2>4, <2>5, <3>1, <3>2 DEF U
    <2>6. CASE ~(c = LF /\ AfterCR(v))
      <3>1. UnifyLineEnds(Append(v, c)) = Append(U, d)
        BY <2>2, <2>6
      <3>2. Open(Append(U, d)) <=> d \notin White
        BY <2>3, OpenAppend
      <3>3. Tokenize(Append(U, d)) = Tokenize(Append(v, c))
        <4>1. CASE c \in White
          <5>1. Tokenize(Append(v, c)) = Tokenize(v)
            BY <4>1, TokenizeAppend
          <5>2. Tokenize(Append(U, d)) = Tokenize(U)
            BY <2>3, <4>1, TokenizeAppend
          <5> QED BY <1>2, <5>1, <5>2 DEF U
        <4>2. CASE c \notin White
          <5>1. d = c
            BY <4>2 DEF d, White
          <5>2. Tokenize(U) = Tokenize(v) /\ (Open(U) <=> Open(v))
            BY <1>2 DEF U
          <5> QED BY <2>3, <5>1, <5>2, TokenizeStep
        <4> QED BY <4>1, <4>2
      <3> QED BY <2>1, <2>3, <2>4, <3>1, <3>2, <3>3
    <2> QED BY <2>5, <2>6
  <1> HIDE DEF Same
  <1>3. Seq(Chars) \subseteq T
    BY <1>1, <1>2, SeqInduction
  <1> QED BY <1>3 DEF Same

\* The pieces of a text are texts, and there is one at least.
LEMMA SplitType ==
    ASSUME NEW S, NEW u \in Seq(S), NEW Sep
    PROVE  Split(u, Sep) \in Seq(Seq(S)) /\ Split(u, Sep) # << >>
  <1>1. CASE u = << >>
    <2>1. << >> \in Seq(S) /\ << >> \in Seq(Seq(S)) /\ Append(<< >>, << >>) = << << >> >>
      BY EmptySeq
    <2>2. Append(<< >>, << >>) \in Seq(Seq(S)) /\ Append(<< >>, << >>) # << >>
      BY <2>1, AppendProperties
    <2> QED BY <1>1, <2>1, <2>2, SplitEmpty
  <1>2. CASE u # << >>
    <2>1. PICK r \in Seq(S), d \in S : u = Append(r, d)
      BY <1>2, SequenceEmptyOrAppend
    <2>2. SplitGrows(S, r, d, Sep)
      BY SplitAppend
    <2>3. PICK Q \in Seq(Seq(S)), l \in Seq(S) :
              /\ d \in Sep => Split(u, Sep) = Append(Append(Q, l), << >>)
              /\ d \notin Sep => Split(u, Sep) = Append(Q, Append(l, d))
      BY <2>1, <2>2 DEF SplitGrows
    <2>4. /\ Append(Q, l) \in Seq(Seq(S)) /\ << >> \in Seq(S) /\ Append(l, d) \in Seq(S)
      BY EmptySeq, AppendProperties
    <2>5. /\ Append(Append(Q, l), << >>) \in Seq(Seq(S)) /\ Append(Append(Q, l), << >>) # << >>
          /\ Append(Q, Append(l, d)) \in Seq(Seq(S)) /\ Append(Q, Append(l, d)) # << >>
      BY <2>4, AppendProperties
    <2> QED BY <2>3, <2>5
  <1> QED BY <1>1, <1>2

\* normalize_text in terms of the lines, and its tokens.
Pieces(t) == Split(UnifyLineEnds(t), {LF})

\* normalize_text, in terms of the pieces.
LEMMA NormalForm ==
    ASSUME NEW t PROVE NormalizeText(t) = Join(StripRight(Stripped(Pieces(t)), {<< >>}))
  <1>1. {SP, LF, CR} = White
    BY DEF White
  <1> QED BY <1>1 DEF NormalizeText, Stripped, Pieces

\* The text with unified line ends is a text.
LEMMA UnifyType == ASSUME NEW t \in Seq(Chars) PROVE UnifyLineEnds(t) \in Seq(Chars)
  <1>1. UnifyLineEnds(t) \in Seq(Flat)
    BY CharTypes, UnifyAppend
  <1>2. Flat \subseteq Chars
    BY DEF Flat
  <1> QED BY <1>1, <1>2, SeqMonotonic

\* A text keeps its tokens when it is normalised: why NORMALIZED implies TOKEN.
LEMMA NormalTokens ==
    ASSUME NEW t \in Seq(Chars) PROVE Tokenize(NormalizeText(t)) = Tokenize(t)
  <1> DEFINE ls == Pieces(t)
             ss == Stripped(ls)
  <1>1. LF \in Chars /\ UnifyLineEnds(t) \in Seq(Chars)
    BY CharTypes, UnifyType
  <1>2. ls \in Seq(Seq(Chars))
    BY <1>1, SplitType DEF Pieces
  <1>3. Join(ls) = UnifyLineEnds(t)
    BY <1>1, JoinSplit DEF Pieces
  <1> HIDE DEF ls
  <1>4. ss \in Seq(Seq(Chars))
    <2>1. << >> \in Seq(Chars)
      BY EmptySeq
    <2> QED BY <1>2, <2>1, StrippedAppend
  <1>5. Tokenize(Join(ss)) = Tokenize(Join(ls))
    BY <1>1, <1>2, StrippedTokens
  <1> HIDE DEF ss
  <1>6. Tokenize(Join(StripRight(ss, {<< >>}))) = Tokenize(Join(ss))
    BY <1>1, <1>4, EmptyLinesTokens
  <1>7. Tokenize(UnifyLineEnds(t)) = Tokenize(t)
    BY TokenizeUnify
  <1> QED BY <1>3, <1>5, <1>6, <1>7, NormalForm DEF ss, ls

-----------------------------------------------------------------------------
(* The modes *)

\* A token of a text of n characters: letters, one at least and n at most.
Tokens(n) == {w \in Seq(Letters) : w # << >> /\ Len(w) <= n}

\* The tokens of a text are of this kind.
LEMMA TokenTypes == ASSUME NEW t \in Seq(Chars) PROVE Tokenize(t) \in Seq(Tokens(Len(t)))
  <1> DEFINE Fits(v) == Tokenize(v) \in Seq(Tokens(Len(v)))
             T == {v \in Seq(Chars) : Fits(v)}
  <1>1. << >> \in Seq(Chars) /\ Fits(<< >>)
    BY TokenizeNone, EmptySeq
  <1>2. ASSUME NEW v \in Seq(Chars), NEW c \in Chars, Fits(v)
        PROVE  Append(v, c) \in Seq(Chars) /\ Fits(Append(v, c))
    <2> DEFINE W == Tokens(Len(v))
               X == Tokens(Len(Append(v, c)))
    <2>1. Append(v, c) \in Seq(Chars) /\ Len(Append(v, c)) = Len(v) + 1 /\ Len(v) \in Nat
      BY AppendProperties, LenProperties
    <2>2. W \subseteq X
      <3>1. \A w \in Seq(Letters) : Len(w) \in Nat
        BY LenProperties
      <3> QED BY <2>1, <3>1 DEF Tokens
    <2>3. Tokenize(v) \in Seq(W)
      BY <1>2
    <2> HIDE DEF W, X
    <2>4. Tokenize(v) \in Seq(X)
      BY <2>2, <2>3, SeqMonotonic
    <2>5. CASE c \in White
      BY <2>1, <2>4, <2>5, TokenizeAppend DEF X
    <2>6. CASE c \notin White /\ ~Open(v)
      <3>1. Tokenize(Append(v, c)) = Append(Tokenize(v), <<c>>)
        BY <2>6, TokenizeAppend
      <3>2. c \in Letters
        BY <2>6 DEF Chars, White
      <3>3. <<c>> \in X
        <4>1. <<c>> \in Seq(Letters) /\ <<c>> # << >> /\ Len(<<c>>) = 1
          BY <3>2
        <4> QED BY <2>1, <4>1 DEF X, Tokens
      <3>4. Append(Tokenize(v), <<c>>) \in Seq(X)
        BY <2>4, <3>3, AppendProperties
      <3> QED BY <2>1, <3>1, <3>4 DEF X
    <2>7. CASE c \notin White /\ Open(v)
      <3>1. Lengthened(Chars, v, c)
        BY <2>7, TokenizeAppend
      <3>2. PICK q \in Seq(Seq(Chars)), w \in Seq(Chars) :
               Tokenize(v) = Append(q, w) /\ Tokenize(Append(v, c)) = Append(q, Append(w, c))
        BY <3>1 DEF Lengthened
      <3>3. Tokenize(v) # << >>
        <4> DEFINE Z == Seq(Chars)
        <4>1. q \in Seq(Z) /\ w \in Z
          OBVIOUS
        <4> HIDE DEF Z
        <4> QED BY <3>2, <4>1, AppendProperties
      <3>4. PICK r \in Seq(W), m \in W : Tokenize(v) = Append(r, m)
        BY <2>3, <3>3, SequenceEmptyOrAppend
      <3>5. q = r /\ w = m
        <4> DEFINE Z == Seq(Chars)
        <4>1. W \subseteq Z
          <5>1. Letters \subseteq Chars
            BY DEF Chars
          <5> QED BY <5>1, SeqMonotonic DEF W, Tokens
        <4>2. q \in Seq(Z) /\ w \in Z
          OBVIOUS
        <4> HIDE DEF Z
        <4>3. r \in Seq(Z) /\ m \in Z
          BY <4>1, SeqMonotonic
        <4>4. Append(q, w) = Append(r, m)
          BY <3>2, <3>4
        <4> HIDE DEF W
        <4> QED BY <4>2, <4>3, <4>4, AppendInjective
      <3>6. Append(m, c) \in X
        <4>1. m \in Seq(Letters) /\ Len(m) <= Len(v)
          BY DEF W, Tokens
        <4>2. c \in Letters
          BY <2>7 DEF Chars, White
        <4>3. /\ Append(m, c) \in Seq(Letters) /\ Append(m, c) # << >>
              /\ Len(Append(m, c)) = Len(m) + 1 /\ Len(m) \in Nat
          <5>1. m \in Seq(Letters)
            BY <4>1
          <5> HIDE DEF W
          <5>2. Len(m) \in Nat
            BY <5>1, LenProperties
          <5> QED BY <4>2, <5>1, <5>2, AppendProperties
        <4> QED BY <2>1, <4>1, <4>3 DEF X, Tokens
      <3>7. r \in Seq(X)
        BY <2>2, SeqMonotonic
      <3>8. Append(r, Append(m, c)) \in Seq(X)
        BY <3>6, <3>7, AppendProperties
      <3> QED BY <2>1, <3>2, <3>5, <3>8 DEF X
    <2> QED BY <2>5, <2>6, <2>7
  <1> HIDE DEF Fits
  <1>3. Seq(Chars) \subseteq T
    BY <1>1, <1>2, SeqInduction
  <1> QED BY <1>3 DEF Fits

\* The texts compared are within the bound.
VerifierInv ==
    /\ actual \in Seq(Chars)
    /\ expected \in Seq(Chars)
    /\ Len(actual) + Len(expected) <= MaxText

\* It holds of every pair of texts that is reached.
LEMMA VerifierInvHolds == VerifierSpec => []VerifierInv
  <1>1. VerifierInit => VerifierInv
    <2>1. << >> \in Seq(Chars) /\ Len(<< >>) = 0
      BY EmptySeq
    <2> QED BY <2>1, VerifierAssumption DEF VerifierInit, VerifierInv
  <1>2. VerifierInv /\ [VerifierNext]_texts => VerifierInv'
    <2>1. SUFFICES ASSUME VerifierInv, [VerifierNext]_texts PROVE VerifierInv'
      OBVIOUS
    <2>2. CASE UNCHANGED texts
      BY <2>1, <2>2 DEF VerifierInv, texts
    <2>3. CASE VerifierNext
      <3>1. /\ \A c \in Chars : /\ Append(actual, c) \in Seq(Chars)
                                /\ Len(Append(actual, c)) = Len(actual) + 1
                                /\ Append(expected, c) \in Seq(Chars)
                                /\ Len(Append(expected, c)) = Len(expected) + 1
            /\ Len(actual) \in Nat /\ Len(expected) \in Nat
        BY <2>1, AppendProperties, LenProperties DEF VerifierInv
      <3>2. PICK c \in Chars : \/ actual' = Append(actual, c) /\ UNCHANGED expected
                               \/ expected' = Append(expected, c) /\ UNCHANGED actual
        BY <2>3 DEF VerifierNext
      <3>3. Len(actual) + Len(expected) + 1 <= MaxText
        BY <2>3, <3>1, VerifierAssumption DEF VerifierNext
      <3>4. CASE actual' = Append(actual, c) /\ UNCHANGED expected
        <4>1. actual' \in Seq(Chars) /\ Len(actual') = Len(actual) + 1
          BY <3>1, <3>4
        <4>2. expected' \in Seq(Chars) /\ Len(expected') = Len(expected)
          BY <2>1, <3>4 DEF VerifierInv
        <4> QED BY <3>1, <3>3, <4>1, <4>2, VerifierAssumption DEF VerifierInv
      <3>5. CASE expected' = Append(expected, c) /\ UNCHANGED actual
        <4>1. expected' \in Seq(Chars) /\ Len(expected') = Len(expected) + 1
          BY <3>1, <3>5
        <4>2. actual' \in Seq(Chars) /\ Len(actual') = Len(actual)
          BY <2>1, <3>5 DEF VerifierInv
        <4> QED BY <3>1, <3>3, <4>1, <4>2, VerifierAssumption DEF VerifierInv
      <3> QED BY <3>2, <3>4, <3>5
    <2> QED BY <2>1, <2>2, <2>3
  <1> QED BY <1>1, <1>2, PTL DEF VerifierSpec

\* What float() makes of the tokens compared.
LEMMA TokenValues ==
    ASSUME VerifierInv
    PROVE  /\ Tokenize(actual) \in Seq(Tokens(MaxText)) /\ Tokenize(expected) \in Seq(Tokens(MaxText))
           /\ \A w \in Tokens(MaxText) : Value(w) \in [kind : {"number", "nonfinite", "word"}, v : Int]
  <1>1. ASSUME NEW t \in Seq(Chars), Len(t) <= MaxText PROVE Tokenize(t) \in Seq(Tokens(MaxText))
    <2>1. Tokenize(t) \in Seq(Tokens(Len(t)))
      BY TokenTypes
    <2>2. Tokens(Len(t)) \subseteq Tokens(MaxText)
      <3>1. \A w \in Seq(Letters) : Len(w) \in Nat
        BY LenProperties
      <3>2. Len(t) \in Nat /\ MaxText \in Nat
        BY LenProperties, VerifierAssumption
      <3> QED BY <1>1, <3>1, <3>2 DEF Tokens
    <2> QED BY <2>1, <2>2, SeqMonotonic
  <1>2. ASSUME NEW w \in Tokens(MaxText)
        PROVE  Value(w) \in [kind : {"number", "nonfinite", "word"}, v : Int]
    <2>1. w \in [1..Len(w) -> Letters] /\ Len(w) \in Nat
      BY LenProperties DEF Tokens
    <2>2. Len(w) # 0
      BY EmptySeq DEF Tokens
    <2>3. Len(w) \in 1..MaxText
      BY <2>1, <2>2, VerifierAssumption DEF Tokens
    <2> QED BY <2>1, <2>3, VerifierAssumption
  <1>3. /\ actual \in Seq(Chars) /\ Len(actual) <= MaxText
        /\ expected \in Seq(Chars) /\ Len(expected) <= MaxText
    <2>1. Len(actual) \in Nat /\ Len(expected) \in Nat
      BY LenProperties DEF VerifierInv
    <2> QED BY <2>1, VerifierAssumption DEF VerifierInv
  <1> QED BY <1>1, <1>2, <1>3

\* The modes, one by one.
LEMMA Modes ==
    /\ Verify(actual, expected, "STRICT") <=> actual = expected
    /\ Verify(actual, expected, "NORMALIZED") <=> NormalizeText(actual) = NormalizeText(expected)
    /\ Verify(actual, expected, "TOKEN") <=> Tokenize(actual) = Tokenize(expected)
    /\ Verify(actual, expected, "EPSILON") <=>
           /\ Len(Tokenize(actual)) = Len(Tokenize(expected))
           /\ \A i \in 1..Len(Tokenize(expected)) :
                 TokenMatches(Tokenize(actual)[i], Tokenize(expected)[i])
  BY DEF Verify

\* Each mode forgives what the stricter one does, and EPSILON accepts the same
\* tokens when every number among them is finite.
LEMMA ModesNested == VerifierInv => ModesAreNested
  <1> SUFFICES ASSUME VerifierInv PROVE ModesAreNested
    OBVIOUS
  <1> DEFINE a == Tokenize(actual)
             e == Tokenize(expected)
  <1>1. NormalizeText(actual) = NormalizeText(expected) => a = e
    <2>1. Tokenize(NormalizeText(actual)) = a
      BY NormalTokens DEF VerifierInv
    <2>2. Tokenize(NormalizeText(expected)) = e
      BY NormalTokens DEF VerifierInv
    <2> QED BY <2>1, <2>2
  <1>2. \A i \in 1..Len(e) : TokenMatches(e[i], e[i]) <=> Value(e[i]).kind # "nonfinite"
    <2>1. SUFFICES ASSUME NEW i \in 1..Len(e)
                   PROVE  TokenMatches(e[i], e[i]) <=> Value(e[i]).kind # "nonfinite"
      OBVIOUS
    <2>2. e[i] \in Tokens(MaxText)
      BY TokenValues, ElementOfSeq
    <2> DEFINE w == e[i]
    <2>3. Value(w) \in [kind : {"number", "nonfinite", "word"}, v : Int]
      BY <2>2, TokenValues
    <2> HIDE DEF w
    <2>4. TokenMatches(w, w) <=> Value(w).kind # "nonfinite"
      <3>1. Close(Value(w).v, Value(w).v)
        BY <2>3 DEF Close, Distance
      <3> QED BY <2>3, <3>1 DEF TokenMatches
    <2> QED BY <2>4 DEF w
  <1> HIDE DEF a, e
  <1>3. a = e => ((Len(a) = Len(e) /\ \A i \in 1..Len(e) : TokenMatches(a[i], e[i])) <=>
                     \A i \in 1..Len(e) : Value(e[i]).kind # "nonfinite")
    BY <1>2
  <1>4. Verify(actual, expected, "STRICT") => Verify(actual, expected, "NORMALIZED")
    BY Modes
  <1>5. Verify(actual, expected, "NORMALIZED") => Verify(actual, expected, "TOKEN")
    BY <1>1, Modes DEF a, e
  <1>6. Verify(actual, expected, "TOKEN") =>
          (Verify(actual, expected, "EPSILON") <=>
              \A i \in 1..Len(Tokenize(expected)) :
                  Value(Tokenize(expected)[i]).kind # "nonfinite")
    BY <1>3, Modes DEF a, e
  <1> QED BY <1>4, <1>5, <1>6 DEF ModesAreNested

\* What is within epsilon absolutely is within it relative to one or more.
LEMMA WithinFormula ==
    ASSUME NEW a \in Int, NEW e \in Int, Close(a, e)
    PROVE  Distance(a, e) * One <= AtLeastOne(e)
  <1>1. Distance(a, e) \in Nat /\ One \in Nat
    BY VerifierAssumption DEF Distance
  <1>2. AtLeastOne(e) \in Int /\ AtLeastOne(e) >= One
    <2> DEFINE T == {One, e, -e}
               Great(x) == \A y \in T : x >= y
    <2>1. \E x \in T : Great(x)
      BY <1>1
    <2>2. AtLeastOne(e) = CHOOSE x \in T : Great(x)
      BY DEF AtLeastOne, Max
    <2>3. T \subseteq Int /\ One \in T
      BY <1>1
    <2> HIDE DEF T
    <2>4. (CHOOSE x \in T : Great(x)) \in T /\ Great(CHOOSE x \in T : Great(x))
      <3> HIDE DEF Great
      <3> QED BY <2>1
    <2> QED BY <2>2, <2>3, <2>4
  <1>3. CASE Distance(a, e) <= 1
    <2> DEFINE d == Distance(a, e)
    <2>1. d = 0 \/ d = 1
      BY <1>1, <1>3
    <2> HIDE DEF d
    <2>2. d * One = 0 \/ d * One = One
      BY <1>1, <2>1
    <2> QED BY <1>1, <1>2, <2>2 DEF d
  <1> QED BY <1>3 DEF Close

\* EPSILON accepts nothing that the documented formula refuses.
LEMMA FormulaMet == VerifierInv => EpsilonMeetsTheFormula
  <1> SUFFICES ASSUME VerifierInv, Verify(actual, expected, "EPSILON") PROVE EpsilonMeetsTheFormula
    BY DEF EpsilonMeetsTheFormula
  <1> DEFINE a == Tokenize(actual)
             e == Tokenize(expected)
             Number(t) == Value(t).kind = "number"
             Near(x, y) == Distance(Value(x).v, Value(y).v) * One <= AtLeastOne(Value(y).v)
  <1>1. Len(a) = Len(e) /\ \A i \in 1..Len(e) : TokenMatches(a[i], e[i])
    BY Modes
  <1>2. ASSUME NEW i \in 1..Len(e)
        PROVE  a[i] = e[i] \/ (Number(a[i]) /\ Number(e[i]) /\ Near(a[i], e[i]))
    <2> DEFINE x == a[i]
               y == e[i]
    <2>1. x \in Tokens(MaxText) /\ y \in Tokens(MaxText)
      BY <1>1, TokenValues, ElementOfSeq
    <2>2. TokenMatches(x, y)
      BY <1>1
    <2> HIDE DEF x, y
    <2>3. /\ Value(x) \in [kind : {"number", "nonfinite", "word"}, v : Int]
          /\ Value(y) \in [kind : {"number", "nonfinite", "word"}, v : Int]
      BY <2>1, TokenValues
    <2>4. x = y \/ (Number(x) /\ Number(y) /\ Close(Value(x).v, Value(y).v))
      BY <2>2, <2>3 DEF TokenMatches
    <2>5. x = y \/ (Number(x) /\ Number(y) /\ Near(x, y))
      BY <2>3, <2>4, WithinFormula
    <2> QED BY <2>5 DEF x, y
  <1> QED BY <1>1, <1>2 DEF EpsilonMeetsTheFormula

\* What STRICT accepts NORMALIZED does, and what NORMALIZED accepts TOKEN does:
\* normalize_text moves no token and splits none.  EPSILON accepts the same
\* tokens unless float() makes an infinity or a NaN of one.
THEOREM Nested == VerifierSpec => []ModesAreNested
  BY VerifierInvHolds, ModesNested, PTL

\* verify's EPSILON mode accepts no number farther from the expected one than
\* |a - e| / max(1, |e|) <= epsilon allows, although it tests two distances.
THEOREM Formula == VerifierSpec => []EpsilonMeetsTheFormula
  BY VerifierInvHolds, FormulaMet, PTL

-----------------------------------------------------------------------------
(* Lists of lines *)

\* No piece holds a separator.
LEMMA SplitClean ==
    ASSUME NEW S, NEW u \in Seq(S), NEW Sep
    PROVE  Split(u, Sep) \in Seq(Seq(S \ Sep))
  <1> DEFINE C == Seq(S \ Sep)
             T == {v \in Seq(S) : Split(v, Sep) \in Seq(C)}
  <1>1. << >> \in Seq(S) /\ Split(<< >>, Sep) \in Seq(C)
    <2>1. << >> \in C /\ << >> \in Seq(S)
      BY EmptySeq
    <2> HIDE DEF C
    <2>2. << << >> >> \in Seq(C)
      BY <2>1
    <2> QED BY <2>1, <2>2, SplitEmpty
  <1>2. ASSUME NEW v \in Seq(S), NEW c \in S, Split(v, Sep) \in Seq(C)
        PROVE  Append(v, c) \in Seq(S) /\ Split(Append(v, c), Sep) \in Seq(C)
    <2>1. Append(v, c) \in Seq(S)
      BY AppendProperties
    <2>2. SplitGrows(S, v, c, Sep)
      BY SplitAppend
    <2>3. PICK Q \in Seq(Seq(S)), l \in Seq(S) :
             /\ Split(v, Sep) = Append(Q, l)
             /\ c \in Sep => Split(Append(v, c), Sep) = Append(Append(Q, l), << >>)
             /\ c \notin Sep => Split(Append(v, c), Sep) = Append(Q, Append(l, c))
      BY <2>2 DEF SplitGrows
    <2>4. C \subseteq Seq(S)
      BY SeqMonotonic
    <2>5. Q \in Seq(C) /\ l \in C
      <3> DEFINE W == Seq(S)
                 X == Split(v, Sep)
      <3>1. Q \in Seq(W) /\ l \in W /\ C \subseteq W /\ X = Append(Q, l) /\ X \in Seq(C)
        BY <1>2, <2>3, <2>4
      <3> HIDE DEF W, C, X
      <3>2. X # << >>
        BY <3>1, AppendProperties
      <3>3. PICK r \in Seq(C), m \in C : X = Append(r, m)
        BY <3>1, <3>2, SequenceEmptyOrAppend
      <3>4. r \in Seq(W) /\ m \in W
        BY <3>1, SeqMonotonic
      <3>5. Append(Q, l) = Append(r, m)
        BY <3>1, <3>3
      <3>6. Q = r /\ l = m
        BY <3>1, <3>4, <3>5, AppendInjective
      <3> QED BY <3>6
    <2>6. << >> \in C /\ (c \notin Sep => Append(l, c) \in C)
      <3>1. c \notin Sep => c \in S \ Sep
        OBVIOUS
      <3> QED BY <2>5, <3>1, EmptySeq, AppendProperties
    <2> HIDE DEF C
    <2>7. Append(Append(Q, l), << >>) \in Seq(C)
      BY <2>5, <2>6, AppendProperties
    <2>8. c \notin Sep => Append(Q, Append(l, c)) \in Seq(C)
      BY <2>5, <2>6, AppendProperties
    <2> QED BY <2>1, <2>3, <2>7, <2>8
  <1> HIDE DEF C
  <1>3. Seq(S) \subseteq T
    BY <1>1, <1>2, SeqInduction
  <1> QED BY <1>3 DEF C

\* Text without a separator joins the last piece.
SplitJoins(S, s, u, Sep) ==
    \E Q \in Seq(Seq(S)), l \in Seq(S) :
        Split(s, Sep) = Append(Q, l) /\ Split(s \o u, Sep) = Append(Q, l \o u)

\* It does.
LEMMA SplitConcat ==
    ASSUME NEW S, NEW s \in Seq(S), NEW Sep, NEW u \in Seq(S \ Sep)
    PROVE  SplitJoins(S, s, u, Sep)
  <1> DEFINE T == {v \in Seq(S \ Sep) : SplitJoins(S, s, v, Sep)}
  <1>1. << >> \in Seq(S \ Sep) /\ SplitJoins(S, s, << >>, Sep)
    <2>1. Split(s, Sep) \in Seq(Seq(S)) /\ Split(s, Sep) # << >>
      BY SplitType
    <2>2. PICK Q \in Seq(Seq(S)), l \in Seq(S) : Split(s, Sep) = Append(Q, l)
      BY <2>1, SequenceEmptyOrAppend
    <2>3. s \o << >> = s /\ l \o << >> = l
      BY ConcatEmptySeq
    <2>4. Split(s \o << >>, Sep) = Append(Q, l \o << >>)
      BY <2>2, <2>3
    <2> QED BY <2>2, <2>4, EmptySeq DEF SplitJoins
  <1>2. ASSUME NEW v \in Seq(S \ Sep), NEW c \in S \ Sep, SplitJoins(S, s, v, Sep)
        PROVE  Append(v, c) \in Seq(S \ Sep) /\ SplitJoins(S, s, Append(v, c), Sep)
    <2>1. Append(v, c) \in Seq(S \ Sep)
      BY AppendProperties
    <2>2. v \in Seq(S) /\ s \o v \in Seq(S)
      BY SeqMonotonic, ConcatProperties
    <2>3. PICK Q \in Seq(Seq(S)), l \in Seq(S) :
             Split(s, Sep) = Append(Q, l) /\ Split(s \o v, Sep) = Append(Q, l \o v)
      BY <1>2 DEF SplitJoins
    <2>4. SplitGrows(S, s \o v, c, Sep)
      BY <2>2, SplitAppend
    <2>5. PICK R \in Seq(Seq(S)), m \in Seq(S) :
             Split(s \o v, Sep) = Append(R, m) /\ Split(Append(s \o v, c), Sep) = Append(R, Append(m, c))
      BY <2>4 DEF SplitGrows
    <2>6. R = Q /\ m = l \o v
      <3> DEFINE W == Seq(S)
                 lv == l \o v
      <3>1. R \in Seq(W) /\ Q \in Seq(W) /\ m \in W /\ lv \in W /\ Append(Q, lv) = Append(R, m)
        BY <2>2, <2>3, <2>5, ConcatProperties
      <3> HIDE DEF W, lv
      <3>2. R = Q /\ m = lv
        BY <3>1, AppendInjective
      <3> QED BY <3>2 DEF lv
    <2>7. s \o Append(v, c) = Append(s \o v, c) /\ l \o Append(v, c) = Append(l \o v, c)
      <3>1. c \in S /\ v \in Seq(S)
        BY <2>2
      <3>2. s \o Append(v, c) = Append(s \o v, c)
        BY <3>1, AppendToConcat
      <3>3. l \o Append(v, c) = Append(l \o v, c)
        BY <3>1, AppendToConcat
      <3> QED BY <3>2, <3>3
    <2>8. Split(s \o Append(v, c), Sep) = Append(Q, l \o Append(v, c))
      BY <2>5, <2>6, <2>7
    <2> QED BY <2>1, <2>3, <2>8 DEF SplitJoins
  <1>3. Seq(S \ Sep) \subseteq T
    BY <1>1, <1>2, SeqInduction
  <1> QED BY <1>3

\* What was joined can be split again.
LEMMA SplitJoin ==
    ASSUME NEW S, LF \in S, NEW ls \in Seq(Seq(S \ {LF})), ls # << >>
    PROVE  Split(Join(ls), {LF}) = ls
  <1> DEFINE C == Seq(S \ {LF})
             Back(v) == v # << >> => Split(Join(v), {LF}) = v
             T == {v \in Seq(C) : Back(v)}
  <1>0. \A j, b, l \in Seq(S) : (j \o b) \o l = j \o (b \o l)
    BY ConcatAssociative
  <1>1. << >> \in Seq(C) /\ Back(<< >>)
    BY EmptySeq
  <1>2. ASSUME NEW v \in Seq(C), NEW l \in C, Back(v)
        PROVE  Append(v, l) \in Seq(C) /\ Back(Append(v, l))
    <2>1. Append(v, l) \in Seq(C)
      BY AppendProperties
    <2>2. C \subseteq Seq(S)
      BY SeqMonotonic
    <2>3. v \in Seq(Seq(S)) /\ l \in Seq(S)
      <3> HIDE DEF C
      <3> QED BY <2>2, SeqMonotonic
    <2>4. Join(v) \in Seq(S) /\ Join(Append(v, l)) = IF v = << >> THEN l ELSE Join(v) \o (<<LF>> \o l)
      BY <2>3, JoinAppend
    <2>5. CASE v = << >>
      <3>1. SplitJoins(S, << >>, l, {LF})
        BY SplitConcat, EmptySeq
      <3>2. PICK Q \in Seq(Seq(S)), m \in Seq(S) :
               Split(<< >>, {LF}) = Append(Q, m) /\ Split(<< >> \o l, {LF}) = Append(Q, m \o l)
        BY <3>1 DEF SplitJoins
      <3>3. Q = << >> /\ m = << >>
        <4> DEFINE W == Seq(S)
                   e == << >>
        <4>1. << >> \in Seq(W) /\ e \in W /\ Q \in Seq(W) /\ m \in W
          BY EmptySeq
        <4>2. Append(<< >>, e) = Append(Q, m)
          <5>1. Append(<< >>, e) = <<e>>
            OBVIOUS
          <5> QED BY <3>2, <5>1, SplitEmpty
        <4> HIDE DEF W, e
        <4>3. Q = << >> /\ m = e
          BY <4>1, <4>2, AppendInjective
        <4> QED BY <4>3 DEF e
      <3>4. << >> \o l = l
        BY <2>3, ConcatEmptySeq
      <3>5. Split(l, {LF}) = Append(<< >>, l)
        BY <3>2, <3>3, <3>4
      <3> QED BY <2>1, <2>4, <2>5, <3>5
    <2>6. CASE v # << >>
      <3> DEFINE J == Join(v)
                 K == Append(J, LF)
      <3>1. SplitGrows(S, J, LF, {LF})
        BY <2>4, SplitAppend
      <3>2. PICK Q \in Seq(Seq(S)), m \in Seq(S) :
               Split(J, {LF}) = Append(Q, m) /\ Split(K, {LF}) = Append(Append(Q, m), << >>)
        BY <3>1 DEF SplitGrows
      <3>3. Split(K, {LF}) = Append(v, << >>)
        BY <1>2, <2>6, <3>2
      <3>4. K \in Seq(S) /\ K = J \o <<LF>>
        BY <2>4, AppendProperties, AppendIsConcat
      <3>5. J \o (<<LF>> \o l) = K \o l
        <4>1. (J \o <<LF>>) \o l = J \o (<<LF>> \o l)
          <5> DEFINE b == <<LF>>
          <5>1. b \in Seq(S) /\ J \in Seq(S) /\ l \in Seq(S)
            BY <2>3, <2>4
          <5> HIDE DEF b, J
          <5>2. (J \o b) \o l = J \o (b \o l)
            BY <1>0, <5>1
          <5> QED BY <5>2 DEF b
        <4> QED BY <3>4, <4>1
      <3> HIDE DEF J, K
      <3>6. SplitJoins(S, K, l, {LF})
        BY <3>4, SplitConcat
      <3>7. PICK R \in Seq(Seq(S)), r \in Seq(S) :
               Split(K, {LF}) = Append(R, r) /\ Split(K \o l, {LF}) = Append(R, r \o l)
        BY <3>6 DEF SplitJoins
      <3>8. R = v /\ r = << >>
        <4> DEFINE W == Seq(S)
                   e == << >>
        <4>1. e \in W /\ R \in Seq(W) /\ r \in W /\ v \in Seq(W) /\ Append(R, r) = Append(v, e)
          BY <2>3, <3>3, <3>7, EmptySeq
        <4> HIDE DEF W, e
        <4>2. R = v /\ r = e
          BY <4>1, AppendInjective
        <4> QED BY <4>2 DEF e
      <3>9. << >> \o l = l
        BY <2>3, ConcatEmptySeq
      <3> QED BY <2>1, <2>4, <2>6, <3>5, <3>7, <3>8, <3>9 DEF J
    <2> QED BY <2>5, <2>6
  <1> HIDE DEF Back, C
  <1>3. Seq(C) \subseteq T
    BY <1>1, <1>2, SeqInduction
  <1> QED BY <1>3 DEF Back, C

\* Lines without an empty one at their end.
Trim(ls) == StripRight(ls, {<< >>})

\* Two such lists make the same text only when they are the same.
LEMMA JoinTrimmed ==
    ASSUME NEW S, LF \in S, NEW x \in Seq(Seq(S \ {LF})), NEW y \in Seq(Seq(S \ {LF})),
           Join(Trim(x)) = Join(Trim(y))
    PROVE  Trim(x) = Trim(y)
  <1> DEFINE C == Seq(S \ {LF})
  <1>1. ASSUME NEW z \in Seq(C)
        PROVE  Trim(z) \in Seq(C) /\ (Trim(z) # << >> => Join(Trim(z)) # << >>)
    <2> DEFINE w == Trim(z)
    <2> HIDE DEF C
    <2>1. /\ w \in Seq(C)
          /\ w # << >> => w[Len(w)] \notin {<< >>}
      BY StripType DEF Trim
    <2> HIDE DEF w
    <2>2. SUFFICES ASSUME w # << >> PROVE Join(w) # << >>
      BY <2>1 DEF w
    <2>3. PICK q \in Seq(C), l \in C : w = Append(q, l)
      BY <2>1, <2>2, SequenceEmptyOrAppend
    <2>4. l # << >>
      <3>1. w[Len(w)] = l
        BY <2>3, AppendProperties
      <3> QED BY <2>1, <2>2, <3>1
    <2>5. q \in Seq(Seq(S)) /\ l \in Seq(S)
      <3>1. C \subseteq Seq(S)
        BY SeqMonotonic DEF C
      <3> QED BY <3>1, SeqMonotonic
    <2>6. Join(q) \in Seq(S) /\ Join(w) = IF q = << >> THEN l ELSE Join(q) \o (<<LF>> \o l)
      BY <2>3, <2>5, JoinAppend
    <2>7. <<LF>> \in Seq(S) /\ <<LF>> # << >>
      OBVIOUS
    <2>8. <<LF>> \o l \in Seq(S) /\ <<LF>> \o l # << >>
      BY <2>5, <2>7, ConcatProperties, ConcatEqualIffEmpty
    <2>9. Join(q) \o (<<LF>> \o l) # << >>
      BY <2>6, <2>8, ConcatEqualIffEmpty
    <2> QED BY <2>4, <2>6, <2>9
  <1>2. /\ Trim(x) \in Seq(C) /\ (Trim(x) # << >> => Join(Trim(x)) # << >>)
        /\ Trim(y) \in Seq(C) /\ (Trim(y) # << >> => Join(Trim(y)) # << >>)
    BY <1>1
  <1>3. Trim(x) # << >> => Split(Join(Trim(x)), {LF}) = Trim(x)
    BY <1>2, SplitJoin
  <1>4. Trim(y) # << >> => Split(Join(Trim(y)), {LF}) = Trim(y)
    BY <1>2, SplitJoin
  <1> QED BY <1>2, <1>3, <1>4, JoinNone

\* The nth of some lines, and an empty line beyond the last.
Padded(ls, n) == IF n \in 1..Len(ls) THEN ls[n] ELSE << >>

\* Two lists are the same up to empty lines at their ends exactly when they are
\* the same line by line.
LEMMA TrimPadded ==
    ASSUME NEW W, NEW x \in Seq(W), NEW y \in Seq(W), NEW m \in Nat, Len(x) <= m, Len(y) <= m
    PROVE  Trim(x) = Trim(y) <=> \A n \in 1..m : Padded(x, n) = Padded(y, n)
  <1>1. ASSUME NEW z \in Seq(W), Len(z) <= m
        PROVE  /\ Trim(z) \in Seq(W) /\ Len(Trim(z)) \in 0..m
               /\ \A n \in 1..m : Padded(z, n) = Padded(Trim(z), n)
               /\ Trim(z) # << >> => Padded(Trim(z), Len(Trim(z))) # << >>
    <2> DEFINE w == Trim(z)
    <2>1. /\ w \in Seq(W)
          /\ Len(w) <= Len(z)
          /\ \A i \in 1..Len(w) : w[i] = z[i]
          /\ w # << >> => w[Len(w)] \notin {<< >>}
          /\ \A i \in 1..Len(z) : Len(w) < i => z[i] \in {<< >>}
      BY StripType DEF Trim
    <2> HIDE DEF w
    <2>2. Len(w) \in Nat /\ Len(z) \in Nat
      BY <2>1, LenProperties
    <2>3. Len(w) \in 0..m
      BY <1>1, <2>1, <2>2
    <2>4. ASSUME NEW n \in 1..m PROVE Padded(z, n) = Padded(w, n)
      <3>1. CASE n <= Len(w)
        <4>1. n \in 1..Len(w) /\ n \in 1..Len(z)
          BY <2>1, <2>2, <3>1
        <4> QED BY <2>1, <4>1 DEF Padded
      <3>2. CASE ~(n <= Len(w)) /\ n <= Len(z)
        <4>1. n \notin 1..Len(w) /\ n \in 1..Len(z) /\ Len(w) < n
          BY <2>1, <2>2, <3>2
        <4> QED BY <2>1, <4>1 DEF Padded
      <3>3. CASE ~(n <= Len(w)) /\ ~(n <= Len(z))
        BY <3>3 DEF Padded
      <3> QED BY <3>1, <3>2, <3>3
    <2>5. w # << >> => Padded(w, Len(w)) # << >>
      <3>1. w # << >> => Len(w) \in 1..Len(w)
        BY <2>1, <2>2, EmptySeq
      <3> QED BY <2>1, <3>1 DEF Padded
    <2> QED BY <2>1, <2>3, <2>4, <2>5 DEF w
  <1> DEFINE p == Trim(x)
             q == Trim(y)
  <1>2. /\ p \in Seq(W) /\ Len(p) \in 0..m
        /\ \A n \in 1..m : Padded(x, n) = Padded(p, n)
        /\ p # << >> => Padded(p, Len(p)) # << >>
    BY <1>1
  <1>3. /\ q \in Seq(W) /\ Len(q) \in 0..m
        /\ \A n \in 1..m : Padded(y, n) = Padded(q, n)
        /\ q # << >> => Padded(q, Len(q)) # << >>
    BY <1>1
  <1> HIDE DEF p, q
  <1>4. ASSUME \A n \in 1..m : Padded(x, n) = Padded(y, n) PROVE p = q
    <2>1. \A n \in 1..m : Padded(p, n) = Padded(q, n)
      BY <1>2, <1>3, <1>4
    <2>2. ~(Len(p) < Len(q))
      <3>1. SUFFICES ASSUME Len(p) < Len(q) PROVE FALSE
        OBVIOUS
      <3>2. Len(q) \in 1..m /\ Len(q) \notin 1..Len(p)
        BY <1>2, <1>3, <3>1
      <3>3. Padded(p, Len(q)) = << >>
        BY <3>2 DEF Padded
      <3>4. q # << >>
        BY <3>2, EmptySeq
      <3> QED BY <1>3, <2>1, <3>2, <3>3, <3>4
    <2>3. ~(Len(q) < Len(p))
      <3>1. SUFFICES ASSUME Len(q) < Len(p) PROVE FALSE
        OBVIOUS
      <3>2. Len(p) \in 1..m /\ Len(p) \notin 1..Len(q)
        BY <1>2, <1>3, <3>1
      <3>3. Padded(q, Len(p)) = << >>
        BY <3>2 DEF Padded
      <3>4. p # << >>
        BY <3>2, EmptySeq
      <3> QED BY <1>2, <2>1, <3>2, <3>3, <3>4
    <2>4. Len(p) = Len(q)
      BY <1>2, <1>3, <2>2, <2>3
    <2>5. \A n \in 1..Len(p) : n \in 1..m /\ p[n] = Padded(p, n) /\ q[n] = Padded(q, n)
      BY <1>2, <2>4 DEF Padded
    <2>6. \A n \in 1..Len(p) : p[n] = q[n]
      BY <2>1, <2>5
    <2> QED BY <1>2, <1>3, <2>4, <2>6, SeqEqual
  <1>5. p = q => \A n \in 1..m : Padded(x, n) = Padded(y, n)
    BY <1>2, <1>3
  <1> QED BY <1>4, <1>5 DEF p, q

-----------------------------------------------------------------------------
(* Lines found by their ends *)

\* The line ends before a character, and the letters of a line.
Ahead(t, i) == {j \in LineEnds(t) : j < i}
Here(t, n)  == {i \in 1..Len(t) : Cardinality(Ahead(t, i)) = n - 1 /\ t[i] \in Letters}

\* Line, in these terms.
LEMMA LineForm ==
    ASSUME NEW t, NEW n
    PROVE  Line(t, n) = IF Here(t, n) = {} THEN << >>
                        ELSE SubSeq(t, 1 + Max({0} \cup Ahead(t, Max(Here(t, n)))), Max(Here(t, n)))
  BY DEF Line, Here, Ahead

\* What one more character does to the line ends: CR and LF add one, and the LF
\* of a CRLF takes the one of its CR away.
LEMMA EndsAppend ==
    ASSUME NEW t \in Seq(Chars), NEW c \in Chars
    PROVE  /\ LineEnds(t) \subseteq 1..Len(t)
           /\ AfterCR(t) => Len(t) \in LineEnds(t)
           /\ LineEnds(Append(t, c)) =
                  (IF c = LF /\ AfterCR(t) THEN LineEnds(t) \ {Len(t)} ELSE LineEnds(t))
                      \cup (IF c \in {CR, LF} THEN {Len(t) + 1} ELSE {})
  <1> DEFINE n == Len(t)
             u == Append(t, c)
  <1>1. /\ n \in Nat /\ u \in Seq(Chars) /\ Len(u) = n + 1 /\ u[n + 1] = c
        /\ \A i \in 1..n : u[i] = t[i]
    BY LenProperties, AppendProperties
  <1> HIDE DEF u
  <1>2. LineEnds(t) \subseteq 1..n /\ LineEnds(u) \subseteq 1..(n + 1)
    BY <1>1 DEF LineEnds
  <1>3. AfterCR(t) <=> n # 0 /\ t[n] = CR
    BY <1>1, EmptySeq DEF AfterCR
  <1>4. AfterCR(t) => n \in LineEnds(t)
    BY <1>1, <1>3 DEF LineEnds
  <1>5. n + 1 \in LineEnds(u) <=> c \in {CR, LF}
    <2>1. n + 1 \in 1..(n + 1)
      BY <1>1
    <2> QED BY <1>1, <2>1 DEF LineEnds
  <1>6. ASSUME NEW i \in 1..n, i # n PROVE i \in LineEnds(u) <=> i \in LineEnds(t)
    <2>1. i \in 1..(n + 1) /\ i + 1 \in 1..n /\ i # n + 1
      BY <1>1, <1>6
    <2>2. u[i] = t[i] /\ u[i + 1] = t[i + 1]
      BY <1>1, <2>1
    <2> QED BY <1>1, <1>6, <2>1, <2>2 DEF LineEnds
  <1>7. ASSUME n # 0 PROVE n \in LineEnds(u) <=> n \in LineEnds(t) /\ ~(c = LF /\ AfterCR(t))
    <2>1. n \in 1..n /\ n \in 1..(n + 1) /\ n # n + 1
      BY <1>1, <1>7
    <2>2. u[n] = t[n] /\ u[n + 1] = c
      BY <1>1, <2>1
    <2>3. n \in LineEnds(t) <=> t[n] = LF \/ t[n] = CR
      BY <2>1 DEF LineEnds
    <2>4. n \in LineEnds(u) <=> t[n] = LF \/ (t[n] = CR /\ c # LF)
      BY <1>1, <2>1, <2>2 DEF LineEnds
    <2> QED BY <1>3, <1>7, <2>3, <2>4, CharTypes
  <1> DEFINE R == (IF c = LF /\ AfterCR(t) THEN LineEnds(t) \ {n} ELSE LineEnds(t))
                      \cup (IF c \in {CR, LF} THEN {n + 1} ELSE {})
  <1>8. ASSUME NEW i \in 1..(n + 1) PROVE i \in LineEnds(u) <=> i \in R
    <2>1. CASE i = n + 1
      <3>1. i \notin LineEnds(t)
        BY <1>1, <1>2, <2>1
      <3> QED BY <1>5, <2>1, <3>1
    <2>2. CASE i # n + 1 /\ i # n
      <3>1. i \in 1..n
        BY <1>1, <2>2
      <3> QED BY <1>6, <2>2, <3>1
    <2>3. CASE i # n + 1 /\ i = n
      <3>1. n # 0
        BY <2>3
      <3> QED BY <1>7, <2>3, <3>1
    <2> QED BY <2>1, <2>2, <2>3
  <1>9. R \subseteq 1..(n + 1)
    <2>1. 1..n \subseteq 1..(n + 1) /\ n + 1 \in 1..(n + 1)
      BY <1>1
    <2> QED BY <1>2, <2>1
  <1>10. LineEnds(u) = R
    BY <1>2, <1>8, <1>9
  <1> QED BY <1>2, <1>4, <1>10 DEF u

\* It does nothing to the line ends before an earlier character.
LEMMA AheadAppend ==
    ASSUME NEW t \in Seq(Chars), NEW c \in Chars
    PROVE  /\ \A i \in 1..Len(t) : Ahead(Append(t, c), i) = Ahead(t, i)
           /\ c \in Letters => Ahead(Append(t, c), Len(t) + 1) = LineEnds(t)
  <1> DEFINE n == Len(t)
             E == LineEnds(t)
             F == LineEnds(Append(t, c))
  <1>1. n \in Nat
    BY LenProperties
  <1>2. /\ E \subseteq 1..n
        /\ F = (IF c = LF /\ AfterCR(t) THEN E \ {n} ELSE E) \cup (IF c \in {CR, LF} THEN {n + 1} ELSE {})
    BY EndsAppend
  <1>3. c \in Letters => c \notin {CR, LF}
    BY VerifierAssumption
  <1> HIDE DEF E, F
  <1>4. \A j \in F : j = n + 1 \/ j \in E
    BY <1>2
  <1>5. \A j \in E : j \in F \/ j = n
    BY <1>2
  <1>6. ASSUME NEW i \in 1..n PROVE {j \in F : j < i} = {j \in E : j < i}
    <2>1. \A j \in F : j < i => j \in E
      BY <1>1, <1>4
    <2>2. \A j \in E : j < i => j \in F
      BY <1>1, <1>5
    <2> QED BY <2>1, <2>2
  <1>7. ASSUME c \in Letters PROVE {j \in F : j < n + 1} = E
    <2>1. F = E
      BY <1>2, <1>3, <1>7
    <2>2. \A j \in E : j < n + 1
      BY <1>1, <1>2
    <2> QED BY <2>1, <2>2
  <1> QED BY <1>6, <1>7 DEF Ahead, E, F

\* A letter joins the line behind the last line end; nothing else adds a letter.
LEMMA HereAppend ==
    ASSUME NEW t \in Seq(Chars), NEW c \in Chars, NEW m \in Nat
    PROVE  /\ Here(t, m) \subseteq 1..Len(t)
           /\ Here(Append(t, c), m) =
                  Here(t, m) \cup (IF c \in Letters /\ Cardinality(LineEnds(t)) = m - 1
                                   THEN {Len(t) + 1} ELSE {})
  <1> DEFINE n == Len(t)
             u == Append(t, c)
             R == Here(t, m) \cup (IF c \in Letters /\ Cardinality(LineEnds(t)) = m - 1 THEN {n + 1} ELSE {})
  <1>1. /\ n \in Nat /\ u \in Seq(Chars) /\ Len(u) = n + 1 /\ u[n + 1] = c
        /\ \A i \in 1..n : u[i] = t[i]
    BY LenProperties, AppendProperties
  <1>2. /\ \A i \in 1..n : Ahead(u, i) = Ahead(t, i)
        /\ c \in Letters => Ahead(u, n + 1) = LineEnds(t)
    BY AheadAppend
  <1> HIDE DEF u
  <1>3. Here(t, m) \subseteq 1..n /\ Here(u, m) \subseteq 1..(n + 1)
    BY <1>1 DEF Here
  <1>4. \A i \in 1..n : i \in Here(u, m) <=> i \in Here(t, m)
    <2>1. \A i \in 1..n : i \in 1..(n + 1)
      BY <1>1
    <2> QED BY <1>1, <1>2, <2>1 DEF Here
  <1>5. n + 1 \in Here(u, m) <=> c \in Letters /\ Cardinality(LineEnds(t)) = m - 1
    <2>1. n + 1 \in 1..(n + 1)
      BY <1>1
    <2> QED BY <1>1, <1>2, <2>1 DEF Here
  <1>6. \A i \in 1..(n + 1) : i \in 1..n \/ i = n + 1
    BY <1>1
  <1>7. n + 1 \notin 1..n
    BY <1>1
  <1>8. R \subseteq 1..(n + 1)
    <2>1. 1..n \subseteq 1..(n + 1) /\ n + 1 \in 1..(n + 1)
      BY <1>1
    <2> QED BY <1>3, <2>1
  <1>9. \A i \in 1..(n + 1) : i \in Here(u, m) <=> i \in R
    BY <1>3, <1>4, <1>5, <1>6, <1>7
  <1>10. Here(u, m) = R
    BY <1>3, <1>8, <1>9
  <1> QED BY <1>3, <1>10 DEF u

\* Where the last line begins.
Begin(T) == Max({0} \cup T)

\* A place in the text, and none of the line ends is behind it.
LEMMA BeginType ==
    ASSUME NEW n \in Nat, NEW T \in SUBSET (0..n)
    PROVE  Begin(T) \in 0..n /\ Begin(T) \in {0} \cup T /\ \A i \in T : i <= Begin(T)
  <1> DEFINE K == {0} \cup T
  <1>1. K \in SUBSET (0..n) /\ K # {} /\ T \subseteq K
    OBVIOUS
  <1> HIDE DEF K
  <1>2. Max(K) \in K /\ \A i \in K : i <= Max(K)
    BY <1>1, MaxOf
  <1> QED BY <1>1, <1>2 DEF Begin, K

\* The lines of a text with one more character.
LEMMA LineAppend ==
    ASSUME NEW t \in Seq(Chars), NEW c \in Chars, NEW m \in Nat
    PROVE  Line(Append(t, c), m) =
               IF c \in Letters /\ Cardinality(LineEnds(t)) = m - 1
               THEN Append(SubSeq(t, 1 + Begin(LineEnds(t)), Len(t)), c)
               ELSE Line(t, m)
  <1> DEFINE n == Len(t)
             u == Append(t, c)
             H == Here(t, m)
  <1>1. n \in Nat /\ Len(u) = n + 1
    BY LenProperties, AppendProperties
  <1>2. /\ H \subseteq 1..n
        /\ Here(u, m) = H \cup (IF c \in Letters /\ Cardinality(LineEnds(t)) = m - 1
                                THEN {n + 1} ELSE {})
    BY HereAppend
  <1>3. /\ LineEnds(t) \subseteq 1..n
        /\ \A i \in 1..n : Ahead(u, i) = Ahead(t, i)
        /\ c \in Letters => Ahead(u, n + 1) = LineEnds(t)
    BY EndsAppend, AheadAppend
  <1>4. \A a \in 0..n : 1 + a = a + 1
    BY <1>1
  <1>5. /\ Line(u, m) = IF Here(u, m) = {} THEN << >>
                        ELSE SubSeq(u, 1 + Begin(Ahead(u, Max(Here(u, m)))), Max(Here(u, m)))
        /\ Line(t, m) = IF H = {} THEN << >> ELSE SubSeq(t, 1 + Begin(Ahead(t, Max(H))), Max(H))
    BY LineForm DEF Begin
  <1> HIDE DEF H
  <1>6. CASE c \in Letters /\ Cardinality(LineEnds(t)) = m - 1
    <2> DEFINE G == Here(u, m)
               b == Begin(LineEnds(t))
    <2>1. n + 1 \in G /\ G \subseteq 0..(n + 1) /\ n + 1 \in Nat
      <3>1. G = H \cup {n + 1}
        BY <1>2, <1>6
      <3>2. n + 1 \in Nat /\ n + 1 \in 0..(n + 1) /\ 1..n \subseteq 0..(n + 1)
        BY <1>1
      <3> HIDE DEF G, u
      <3> QED BY <1>2, <3>1, <3>2
    <2> HIDE DEF G
    <2>2. Max(G) = n + 1
      <3> DEFINE k == n + 1
      <3>1. G \in SUBSET (0..k) /\ G # {} /\ k \in Nat /\ k \in G
        BY <2>1
      <3> HIDE DEF k
      <3>2. Max(G) \in G /\ \A i \in G : i <= Max(G)
        BY <3>1, MaxOf
      <3>3. Max(G) \in 0..k /\ k <= Max(G)
        BY <3>1, <3>2
      <3>4. Max(G) = k
        BY <3>1, <3>3
      <3> QED BY <3>4 DEF k
    <2>3. Line(u, m) = SubSeq(u, 1 + b, n + 1)
      BY <1>3, <1>5, <1>6, <2>1, <2>2 DEF G
    <2>4. b \in 0..n
      BY <1>1, <1>3, BeginType
    <2> HIDE DEF b
    <2>5. SubSeq(u, b + 1, n + 1) = Append(SubSeq(t, b + 1, n), c)
      <3>1. PartGrows(Chars, t, c, b)
        BY <2>4, PartAppend
      <3> QED BY <3>1 DEF PartGrows, u
    <2> QED BY <1>4, <1>6, <2>3, <2>4, <2>5 DEF b
  <1>7. CASE ~(c \in Letters /\ Cardinality(LineEnds(t)) = m - 1)
    <2>1. Here(u, m) = H
      BY <1>2, <1>7
    <2>2. CASE H = {}
      BY <1>5, <1>7, <2>1, <2>2
    <2>3. CASE H # {}
      <3> DEFINE k == Max(H)
                 b == Begin(Ahead(t, k))
      <3>1. k \in H /\ k \in 1..n
        <4>1. H \in SUBSET (0..n)
          BY <1>1, <1>2
        <4> QED BY <1>1, <1>2, <2>3, <4>1, MaxOf
      <3>2. b \in 0..n
        <4>1. Ahead(t, k) \in SUBSET (0..n)
          BY <1>1, <1>3 DEF Ahead
        <4> QED BY <1>1, <4>1, BeginType
      <3>3. Line(u, m) = SubSeq(u, 1 + b, k) /\ Line(t, m) = SubSeq(t, 1 + b, k)
        BY <1>3, <1>5, <2>1, <2>3, <3>1
      <3> HIDE DEF b, k
      <3>4. SubSeq(u, b + 1, k) = SubSeq(t, b + 1, k)
        <4>1. k \in 0..n
          BY <1>1, <3>1
        <4>2. PartGrows(Chars, t, c, b)
          BY <3>2, PartAppend
        <4> QED BY <4>1, <4>2 DEF PartGrows, u
      <3> QED BY <1>4, <1>7, <3>2, <3>3, <3>4
    <2> QED BY <2>2, <2>3
  <1> QED BY <1>6, <1>7 DEF u

\* The pieces between line ends are the lines: there are as many, the last one
\* begins behind the last line end, and stripped they are the same.
LinesMatch(t) ==
    LET ls == Pieces(t)
    IN  /\ Len(ls) = Cardinality(LineEnds(t)) + 1
        /\ ls[Len(ls)] = SubSeq(t, 1 + Begin(LineEnds(t)), Len(t))
        /\ \A n \in 1..Len(ls) : Line(t, n) = StripRight(ls[n], White)
        /\ \A n \in Nat : n > Len(ls) => Line(t, n) = << >>

\* The line ends of a text, counted.
LEMMA EndsCounted ==
    ASSUME NEW t \in Seq(Chars)
    PROVE  /\ IsFiniteSet(LineEnds(t))
           /\ Cardinality(LineEnds(t)) \in 0..Len(t)
           /\ Begin(LineEnds(t)) \in 0..Len(t)
  <1>1. Len(t) \in Nat
    BY LenProperties
  <1>2. LineEnds(t) \subseteq 1..Len(t)
    BY DEF LineEnds
  <1>3. IsFiniteSet(1..Len(t)) /\ Cardinality(1..Len(t)) <= Len(t)
    BY <1>1, FS_Interval
  <1>4. /\ IsFiniteSet(LineEnds(t)) /\ Cardinality(LineEnds(t)) <= Cardinality(1..Len(t))
        /\ Cardinality(LineEnds(t)) \in Nat /\ Cardinality(1..Len(t)) \in Nat
    BY <1>2, <1>3, FS_Subset, FS_CardinalityType
  <1>5. Begin(LineEnds(t)) \in 0..Len(t)
    <2>1. LineEnds(t) \in SUBSET (0..Len(t))
      BY <1>1, <1>2
    <2> QED BY <1>1, <2>1, BeginType
  <1> QED BY <1>1, <1>3, <1>4, <1>5

\* They match in the empty text.
LEMMA LinesMatchNone == LinesMatch(<< >>)
  <1> DEFINE e == << >>
             ls == <<e>>
  <1>1. Len(e) = 0 /\ e \in Seq(Chars)
    BY EmptySeq
  <1>2. Pieces(e) = ls
    BY UnifyNone, SplitEmpty DEF Pieces
  <1>3. Len(ls) = 1 /\ ls[1] = e
    OBVIOUS
  <1>4. LineEnds(e) = {}
    BY <1>1 DEF LineEnds
  <1>5. Cardinality(LineEnds(e)) = 0
    BY <1>4, FS_EmptySet
  <1>6. Begin(LineEnds(e)) \in 0..0
    BY <1>1, EndsCounted
  <1>7. SubSeq(e, 1 + Begin(LineEnds(e)), Len(e)) = e
    <2>1. 1 + Begin(LineEnds(e)) = 1
      BY <1>6
    <2> QED BY <1>1, <2>1, SubSeqEmpty
  <1>8. \A n : Line(e, n) = e
    <2>1. \A n : Here(e, n) = {}
      BY <1>1 DEF Here
    <2> QED BY <2>1, LineForm
  <1>9. StripRight(e, White) = e
    BY StripEmpty
  <1>10. \A n \in 1..1 : n = 1
    OBVIOUS
  <1> HIDE DEF e, ls
  <1>11. Len(ls) = Cardinality(LineEnds(e)) + 1
    BY <1>3, <1>5
  <1>12. ls[Len(ls)] = SubSeq(e, 1 + Begin(LineEnds(e)), Len(e))
    BY <1>3, <1>7
  <1>13. \A n \in 1..Len(ls) : Line(e, n) = StripRight(ls[n], White)
    <2>1. \A n \in 1..Len(ls) : ls[n] = e
      BY <1>3, <1>10
    <2> QED BY <1>8, <1>9, <2>1
  <1>14. \A n \in Nat : n > Len(ls) => Line(e, n) = << >>
    BY <1>8 DEF e
  <1>15. LinesMatch(e)
    BY <1>2, <1>11, <1>12, <1>13, <1>14, Zenon DEF LinesMatch
  <1> QED BY <1>15 DEF e

\* What one more character does to the pieces.
PiecesGrow(t, c) ==
    \E Q \in Seq(Seq(Chars)), l \in Seq(Chars) :
        /\ Pieces(t) = Append(Q, l)
        /\ Pieces(Append(t, c)) = IF c = LF /\ AfterCR(t) THEN Append(Q, l)
                                  ELSE IF c \in {CR, LF} THEN Append(Append(Q, l), << >>)
                                  ELSE Append(Q, Append(l, c))

\* It does this, because the line ends are unified before they are counted.
LEMMA PiecesAppend == ASSUME NEW t \in Seq(Chars), NEW c \in Chars PROVE PiecesGrow(t, c)
  <1> DEFINE U == UnifyLineEnds(t)
             d == IF c = CR THEN LF ELSE c
  <1>1. U \in Seq(Chars) /\ d \in Chars
    BY UnifyType, CharTypes
  <1>2. UnifyLineEnds(Append(t, c)) = IF c = LF /\ AfterCR(t) THEN U ELSE Append(U, d)
    BY UnifyAppend
  <1> HIDE DEF U, d
  <1>3. SplitGrows(Chars, U, d, {LF})
    BY <1>1, SplitAppend
  <1>4. PICK Q \in Seq(Seq(Chars)), l \in Seq(Chars) :
           /\ Split(U, {LF}) = Append(Q, l)
           /\ d \in {LF} => Split(Append(U, d), {LF}) = Append(Append(Q, l), << >>)
           /\ d \notin {LF} => Split(Append(U, d), {LF}) = Append(Q, Append(l, d))
    BY <1>3 DEF SplitGrows
  <1>5. d = LF <=> c \in {CR, LF}
    BY DEF d
  <1>6. d # LF => d = c
    BY DEF d
  <1>7. /\ Pieces(t) = Append(Q, l)
        /\ Pieces(Append(t, c)) = IF c = LF /\ AfterCR(t) THEN Append(Q, l)
                                  ELSE IF c \in {CR, LF} THEN Append(Append(Q, l), << >>)
                                  ELSE Append(Q, Append(l, c))
    <2>1. Pieces(t) = Append(Q, l)
      BY <1>4 DEF Pieces, U
    <2>2. CASE c = LF /\ AfterCR(t)
      BY <1>2, <1>4, <2>1, <2>2 DEF Pieces
    <2>3. CASE ~(c = LF /\ AfterCR(t)) /\ c \in {CR, LF}
      <3>1. Pieces(Append(t, c)) = Split(Append(U, d), {LF})
        BY <1>2, <2>3 DEF Pieces
      <3> QED BY <1>4, <1>5, <2>1, <2>3, <3>1
    <2>4. CASE c \notin {CR, LF}
      <3>1. Pieces(Append(t, c)) = Split(Append(U, d), {LF})
        BY <1>2, <2>4 DEF Pieces
      <3> QED BY <1>4, <1>5, <1>6, <2>1, <2>4, <3>1
    <2> QED BY <2>2, <2>3, <2>4
  <1> QED BY <1>7 DEF PiecesGrow

\* The last line begins behind a line end at the end of the text.
LEMMA BeginBehind ==
    ASSUME NEW n \in Nat, NEW T \in SUBSET (0..n), n \in T
    PROVE  Begin(T) = n
  <1>1. Begin(T) \in 0..n /\ n <= Begin(T)
    BY BeginType
  <1> QED BY <1>1

\* They still match with one more character, whichever it is.
LEMMA LinesMatchAppend ==
    ASSUME NEW t \in Seq(Chars), NEW c \in Chars, LinesMatch(t)
    PROVE  LinesMatch(Append(t, c))
  <1> DEFINE n == Len(t)
             u == Append(t, c)
             E == LineEnds(t)
             F == LineEnds(u)
             b == Begin(E)
             W == Seq(Chars)
  <1>1. n \in Nat /\ u \in Seq(Chars) /\ Len(u) = n + 1
    BY LenProperties, AppendProperties
  <1>2. PICK Q \in Seq(Seq(Chars)), l \in Seq(Chars) :
           /\ Pieces(t) = Append(Q, l)
           /\ Pieces(u) = IF c = LF /\ AfterCR(t) THEN Append(Q, l)
                          ELSE IF c \in {CR, LF} THEN Append(Append(Q, l), << >>)
                          ELSE Append(Q, Append(l, c))
    <2>1. PiecesGrow(t, c)
      BY PiecesAppend
    <2> QED BY <2>1 DEF PiecesGrow
  <1> DEFINE k == Len(Q)
             X == Append(Q, l)
  <1>3. /\ Q \in Seq(W) /\ l \in W /\ k \in Nat /\ X \in Seq(W) /\ Len(X) = k + 1
        /\ X[k + 1] = l /\ \A i \in 1..k : X[i] = Q[i]
    <2>1. Q \in Seq(W) /\ l \in W
      OBVIOUS
    <2> HIDE DEF W
    <2> QED BY <2>1, LenProperties, AppendProperties
  <1>4. /\ IsFiniteSet(E) /\ Cardinality(E) \in Nat /\ b \in 0..n
        /\ E \subseteq 1..n /\ (AfterCR(t) => n \in E)
        /\ F = (IF c = LF /\ AfterCR(t) THEN E \ {n} ELSE E) \cup (IF c \in {CR, LF} THEN {n + 1} ELSE {})
    <2>1. Cardinality(E) \in 0..n /\ IsFiniteSet(E) /\ b \in 0..n
      BY EndsCounted
    <2>2. Cardinality(E) \in Nat
      BY <1>1, <2>1
    <2> QED BY <2>1, <2>2, EndsAppend
  <1>5. /\ Len(X) = Cardinality(E) + 1
        /\ X[Len(X)] = SubSeq(t, 1 + b, n)
        /\ \A i \in 1..Len(X) : Line(t, i) = StripRight(X[i], White)
        /\ \A i \in Nat : i > Len(X) => Line(t, i) = << >>
    <2> HIDE DEF X, E, n, u
    <2>1. Pieces(t) = X
      BY <1>2 DEF X
    <2> QED BY <2>1 DEF LinesMatch, E, n, b
  <1> HIDE DEF X
  <1>6. Cardinality(E) = k
    BY <1>3, <1>4, <1>5
  <1>7. \A m \in Nat : Line(u, m) = IF c \in Letters /\ Cardinality(E) = m - 1
                                     THEN Append(SubSeq(t, 1 + b, n), c) ELSE Line(t, m)
    BY LineAppend
  <1>8. l = SubSeq(t, 1 + b, n)
    BY <1>3, <1>5
  <1>9. SubSeq(u, 1 + (n + 1), n + 1) = << >>
    <2>1. 1 + (n + 1) \in Int /\ n + 1 \in Int /\ n + 1 < 1 + (n + 1)
      BY <1>1
    <2> HIDE DEF u
    <2> QED BY <2>1, SubSeqEmpty
  <1>10. c \in Letters <=> c \notin White
    BY VerifierAssumption DEF Chars, White
  <1> HIDE DEF E, F, b, u
  <1>11. n + 1 \in F => Begin(F) = n + 1
    <2> DEFINE m == n + 1
    <2>1. m \in Nat /\ 1..n \subseteq 0..m /\ m \in 0..m
      BY <1>1
    <2> HIDE DEF m
    <2>2. F \subseteq 0..m
      BY <1>4, <2>1 DEF m
    <2>3. m \in F => Begin(F) = m
      BY <2>1, <2>2, BeginBehind
    <2> QED BY <2>3 DEF m
  <1>12. n + 1 \notin E
    BY <1>1, <1>4
  <1> DEFINE Y == Pieces(u)
  \* The LF of a CRLF.
  <1>13. ASSUME c = LF, AfterCR(t) PROVE LinesMatch(u)
    <2>1. Y = X /\ c \notin Letters
      BY <1>2, <1>10, <1>13 DEF X, White
    <2>2. F = (E \ {n}) \cup {n + 1} /\ n \in E /\ n + 1 \in F
      BY <1>4, <1>13
    <2>3. Cardinality(F) = Cardinality(E)
      <3> DEFINE G == E \ {n}
      <3>1. IsFiniteSet(G) /\ Cardinality(G) = Cardinality(E) - 1
        BY <1>4, <2>2, FS_RemoveElement
      <3>2. n + 1 \notin G
        BY <1>12
      <3> HIDE DEF G
      <3>3. Cardinality(G \cup {n + 1}) = Cardinality(G) + 1
        BY <3>1, <3>2, FS_AddElement
      <3>4. F = G \cup {n + 1}
        BY <2>2 DEF G
      <3>5. Cardinality(F) = Cardinality(E) - 1 + 1 /\ Cardinality(E) \in Nat
        BY <1>4, <3>1, <3>3, <3>4
      <3> QED BY <3>5
    <2>4. \A m \in Nat : Line(u, m) = Line(t, m)
      BY <1>7, <2>1
    <2>5. l = << >>
      <3>1. b = n
        <4>1. E \in SUBSET (0..n)
          BY <1>1, <1>4
        <4> QED BY <1>1, <2>2, <4>1, BeginBehind DEF b
      <3>2. 1 + n \in Int /\ n \in Int /\ n < 1 + n
        BY <1>1
      <3> QED BY <1>8, <3>1, <3>2, SubSeqEmpty
    <2>6. Y[Len(Y)] = SubSeq(u, 1 + Begin(F), Len(u))
      BY <1>1, <1>3, <1>9, <1>11, <2>1, <2>2, <2>5
    <2>7. Len(Y) = Cardinality(F) + 1
      BY <1>5, <2>1, <2>3
    <2>8. \A m \in 1..Len(Y) : Line(u, m) = StripRight(Y[m], White)
      <3>1. \A m \in 1..Len(Y) : m \in Nat
        BY <1>3, <2>1
      <3> QED BY <1>5, <2>1, <2>4, <3>1
    <2>9. \A m \in Nat : m > Len(Y) => Line(u, m) = << >>
      BY <1>5, <2>1, <2>4
    <2> HIDE DEF Y
    <2> QED BY <2>6, <2>7, <2>8, <2>9 DEF LinesMatch, Y, F
  \* Any other line end.
  <1>14. ASSUME c \in {CR, LF}, ~(c = LF /\ AfterCR(t)) PROVE LinesMatch(u)
    <2> DEFINE e == << >>
    <2>1. Y = Append(X, e) /\ c \notin Letters
      BY <1>2, <1>10, <1>14 DEF X, White
    <2>2. F = E \cup {n + 1} /\ n + 1 \in F
      BY <1>4, <1>14
    <2>3. Cardinality(F) = k + 1
      <3>1. IsFiniteSet(E) /\ n + 1 \notin E
        BY <1>4, <1>12
      <3>2. Cardinality(E \cup {n + 1}) = Cardinality(E) + 1
        BY <3>1, FS_AddElement
      <3> QED BY <1>6, <2>2, <3>2
    <2>4. \A m \in Nat : Line(u, m) = Line(t, m)
      BY <1>7, <2>1
    <2>5. Len(Y) = k + 2 /\ Y[k + 2] = e /\ \A i \in 1..(k + 1) : Y[i] = X[i]
      <3>1. e \in W
        BY EmptySeq
      <3> HIDE DEF e, W, Y
      <3>2. Len(Append(X, e)) = Len(X) + 1 /\ Append(X, e)[Len(X) + 1] = e
            /\ \A i \in 1..Len(X) : Append(X, e)[i] = X[i]
        BY <1>3, <3>1, AppendProperties
      <3>3. Len(X) = k + 1 /\ Len(X) + 1 = k + 2
        BY <1>3
      <3> QED BY <2>1, <3>2, <3>3
    <2>6. Y[Len(Y)] = SubSeq(u, 1 + Begin(F), Len(u))
      BY <1>1, <1>9, <1>11, <2>2, <2>5
    <2>7. Len(Y) = Cardinality(F) + 1
      BY <1>3, <2>3, <2>5
    <2>8. ASSUME NEW m \in 1..Len(Y) PROVE Line(u, m) = StripRight(Y[m], White)
      <3>1. m \in Nat /\ (m = k + 2 \/ m \in 1..(k + 1))
        BY <1>3, <2>5
      <3>2. CASE m = k + 2
        <4>1. m > Len(X)
          BY <1>3, <3>2
        <4>2. Line(t, m) = e
          BY <1>5, <3>1, <4>1
        <4>3. StripRight(Y[m], White) = e
          BY <2>5, <3>2, StripEmpty
        <4> QED BY <2>4, <3>1, <4>2, <4>3
      <3>3. CASE m \in 1..(k + 1)
        <4>1. m \in 1..Len(X)
          BY <1>3, <3>3
        <4> QED BY <1>5, <2>4, <2>5, <3>1, <3>3, <4>1
      <3> QED BY <3>1, <3>2, <3>3
    <2>9. \A m \in Nat : m > Len(Y) => Line(u, m) = << >>
      <3>1. \A m \in Nat : m > Len(Y) => m > Len(X)
        BY <1>3, <2>5
      <3> QED BY <1>5, <2>4, <3>1
    <2> HIDE DEF Y, e
    <2> QED BY <2>6, <2>7, <2>8, <2>9 DEF LinesMatch, Y, F
  \* A letter, or white space within the line.
  <1>15. ASSUME c \notin {CR, LF} PROVE LinesMatch(u)
    <2> DEFINE lc == Append(l, c)
    <2>1. Y = Append(Q, lc) /\ F = E
      <3>1. c # LF
        BY <1>15
      <3> QED BY <1>2, <1>4, <1>15, <3>1
    <2>2. SubSeq(u, 1 + b, n + 1) = lc
      <3>1. SubSeq(Append(t, c), b + 1, n + 1) = Append(SubSeq(t, b + 1, n), c)
        <4>1. PartGrows(Chars, t, c, b)
          BY <1>4, PartAppend
        <4> QED BY <4>1 DEF PartGrows
      <3>2. b + 1 = 1 + b
        BY <1>1, <1>4
      <3> QED BY <1>8, <3>1, <3>2 DEF u
    <2>3. Len(Y) = k + 1 /\ Y[k + 1] = lc /\ \A i \in 1..k : Y[i] = X[i]
      <3>1. lc \in W
        BY AppendProperties
      <3> HIDE DEF lc, W, Y
      <3>2. Len(Append(Q, lc)) = k + 1 /\ Append(Q, lc)[k + 1] = lc
            /\ \A i \in 1..k : Append(Q, lc)[i] = Q[i]
        BY <1>3, <3>1, AppendProperties
      <3> QED BY <1>3, <2>1, <3>2
    <2>4. Y[Len(Y)] = SubSeq(u, 1 + Begin(F), Len(u))
      BY <1>1, <2>1, <2>2, <2>3 DEF b
    <2>5. Len(Y) = Cardinality(F) + 1
      BY <1>6, <2>1, <2>3
    <2>6. ASSUME NEW m \in 1..Len(Y) PROVE Line(u, m) = StripRight(Y[m], White)
      <3>1. m \in Nat /\ (m = k + 1 \/ m \in 1..k) /\ m \in 1..Len(X)
        BY <1>3, <2>3
      <3>2. CASE m = k + 1
        <4>1. Cardinality(E) = m - 1
          BY <1>3, <1>6, <3>2
        <4>2. StripRight(lc, White) = IF c \in White THEN StripRight(l, White) ELSE lc
          BY StripAppend
        <4>3. Line(t, m) = StripRight(l, White)
          BY <1>3, <1>5, <3>1, <3>2
        <4>4. Line(u, m) = IF c \in Letters THEN lc ELSE Line(t, m)
          BY <1>7, <1>8, <3>1, <4>1
        <4> HIDE DEF lc
        <4> QED BY <1>10, <2>3, <3>2, <4>2, <4>3, <4>4
      <3>3. CASE m \in 1..k
        <4>1. Cardinality(E) # m - 1
          BY <1>3, <1>6, <3>3
        <4>2. Line(u, m) = Line(t, m)
          BY <1>7, <3>1, <4>1
        <4> QED BY <1>5, <2>3, <3>1, <3>3, <4>2
      <3> QED BY <3>1, <3>2, <3>3
    <2>7. ASSUME NEW m \in Nat, m > Len(Y) PROVE Line(u, m) = << >>
      <3>1. m > Len(X) /\ Cardinality(E) # m - 1
        BY <1>3, <1>6, <2>3, <2>7
      <3> QED BY <1>5, <1>7, <3>1
    <2> HIDE DEF Y, lc
    <2> QED BY <2>4, <2>5, <2>6, <2>7 DEF LinesMatch, Y, F
  <1> QED BY <1>13, <1>14, <1>15 DEF u

\* So they match in every text.
LEMMA LinesMatchAll == ASSUME NEW t \in Seq(Chars) PROVE LinesMatch(t)
  <1> DEFINE T == {v \in Seq(Chars) : LinesMatch(v)}
  <1>1. << >> \in T
    BY LinesMatchNone, EmptySeq
  <1>2. ASSUME NEW v \in Seq(Chars), NEW c \in Chars, v \in T PROVE Append(v, c) \in T
    BY <1>2, LinesMatchAppend, AppendProperties
  <1> HIDE DEF T
  <1>3. Seq(Chars) \subseteq T
    BY <1>1, <1>2, SeqInduction
  <1> QED BY <1>3 DEF T

\* Line by line, a text reads as its stripped pieces do.
LEMMA LinesOfPieces ==
    ASSUME NEW t \in Seq(Chars)
    PROVE  /\ Stripped(Pieces(t)) \in Seq(Seq(Chars \ {LF}))
           /\ Len(Stripped(Pieces(t))) <= Len(t) + 1
           /\ \A n \in Nat \ {0} : Line(t, n) = Padded(Stripped(Pieces(t)), n)
  <1> DEFINE ls == Pieces(t)
             ss == Stripped(ls)
             C  == Chars \ {LF}
  <1>1. ls \in Seq(Seq(C))
    BY UnifyType, SplitClean DEF Pieces
  <1>2. /\ Len(ls) = Cardinality(LineEnds(t)) + 1
        /\ \A n \in 1..Len(ls) : Line(t, n) = StripRight(ls[n], White)
        /\ \A n \in Nat : n > Len(ls) => Line(t, n) = << >>
    BY LinesMatchAll DEF LinesMatch
  <1> HIDE DEF ls, C
  <1>3. ss \in Seq(Seq(C)) /\ Len(ss) = Len(ls)
    <2>1. << >> \in Seq(C)
      BY EmptySeq
    <2> QED BY <1>1, <2>1, StrippedAppend
  <1>4. Len(ss) <= Len(t) + 1
    <2>1. Cardinality(LineEnds(t)) \in 0..Len(t) /\ Len(t) \in Nat
      BY EndsCounted, LenProperties
    <2> HIDE DEF ss
    <2> QED BY <1>2, <1>3, <2>1
  <1>5. Len(ls) \in Nat
    BY <1>1, LenProperties
  <1>6. ASSUME NEW n \in Nat \ {0} PROVE Line(t, n) = Padded(ss, n)
    <2>1. CASE n \in 1..Len(ls)
      <3>1. ss[n] = StripRight(ls[n], White)
        BY <2>1 DEF Stripped
      <3> HIDE DEF ss
      <3> QED BY <1>2, <1>3, <2>1, <3>1 DEF Padded
    <2>2. CASE n \notin 1..Len(ls)
      <3>1. n > Len(ls)
        BY <1>5, <2>2
      <3> HIDE DEF ss
      <3> QED BY <1>2, <1>3, <2>2, <3>1 DEF Padded
    <2> QED BY <2>1, <2>2
  <1> QED BY <1>3, <1>4, <1>6 DEF ls, C

\* Normalising two texts and comparing them is comparing their lines.
LEMMA LinewiseNormal == VerifierInv => NormalizedIsLinewise
  <1> SUFFICES ASSUME VerifierInv PROVE NormalizedIsLinewise
    OBVIOUS
  <1> DEFINE C == Seq(Chars \ {LF})
             m == MaxText + 1
             x == Stripped(Pieces(actual))
             y == Stripped(Pieces(expected))
  <1>1. /\ actual \in Seq(Chars) /\ expected \in Seq(Chars) /\ m \in Nat
        /\ Len(actual) + 1 <= m /\ Len(expected) + 1 <= m
        /\ Len(actual) \in Nat /\ Len(expected) \in Nat
    <2>1. Len(actual) \in Nat /\ Len(expected) \in Nat
      BY LenProperties DEF VerifierInv
    <2> QED BY <2>1, VerifierAssumption DEF VerifierInv
  <1>2. /\ x \in Seq(C) /\ Len(x) <= Len(actual) + 1
        /\ \A n \in Nat \ {0} : Line(actual, n) = Padded(x, n)
    BY <1>1, LinesOfPieces
  <1>3. /\ y \in Seq(C) /\ Len(y) <= Len(expected) + 1
        /\ \A n \in Nat \ {0} : Line(expected, n) = Padded(y, n)
    BY <1>1, LinesOfPieces
  <1>4. /\ NormalizeText(actual) = Join(Trim(x))
        /\ NormalizeText(expected) = Join(Trim(y))
    BY NormalForm DEF Trim
  <1> HIDE DEF x, y
  <1>5. Join(Trim(x)) = Join(Trim(y)) <=> Trim(x) = Trim(y)
    BY <1>2, <1>3, CharTypes, JoinTrimmed
  <1>6. Len(x) <= m /\ Len(y) <= m
    <2>1. Len(x) \in Nat /\ Len(y) \in Nat
      <3> HIDE DEF C
      <3> QED BY <1>2, <1>3, LenProperties
    <2> QED BY <1>1, <1>2, <1>3, <2>1
  <1> HIDE DEF m, C
  <1>7. Trim(x) = Trim(y) <=> \A n \in 1..m : Padded(x, n) = Padded(y, n)
    BY <1>1, <1>2, <1>3, <1>6, TrimPadded
  <1>8. \A n \in 1..m : n \in Nat \ {0}
    BY <1>1
  <1>9. (\A n \in 1..m : Padded(x, n) = Padded(y, n)) <=>
           \A n \in 1..m : Line(actual, n) = Line(expected, n)
    BY <1>2, <1>3, <1>8
  <1>10. Verify(actual, expected, "NORMALIZED") <=>
            \A n \in 1..m : Line(actual, n) = Line(expected, n)
    BY <1>4, <1>5, <1>7, <1>9, Modes
  <1> QED BY <1>10 DEF NormalizedIsLinewise, m

\* normalize_text makes two texts equal exactly when they are equal line by line,
\* lines being found by CR, LF and CRLF in the text as it stands: nothing that
\* the rewriting does, in its order, joins or divides a line.
THEOREM Linewise == VerifierSpec => []NormalizedIsLinewise
  BY VerifierInvHolds, LinewiseNormal, PTL
=============================================================================
