SPECIFICATION LateSpec
CONSTANT N = 2
INVARIANTS AnswersAreTrue
PROPERTIES MulticastReturns
CHECK_DEADLOCK FALSE
