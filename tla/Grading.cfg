SPECIFICATION Spec
CONSTANT
    Suites <- MCSuites
INVARIANT ScoreIsEarned
INVARIANT PassIsEarned
INVARIANT GradeMatchesScore
INVARIANT AnswersAreStored
CHECK_DEADLOCK FALSE
