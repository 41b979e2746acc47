------------------------------ MODULE MCGrading ------------------------------
EXTENDS Grading

\* Suites of two and of three tests, with unlike weights, a blank expectation,
\* and weights of zero and below.
T(w, e)  == [weight |-> w, expected |-> e]
MCSuites == {<<T(1, "text"), T(2, "blank")>>, <<T(2, "text"), T(1, "text"), T(1, "text")>>,
             <<T(0, "text"), T(2, "blank")>>, <<T(-1, "text"), T(1, "text")>>}
=============================================================================
