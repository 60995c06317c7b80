SPECIFICATION FairSpec
CONSTANTS
    Inputs <- AllInputs
    WordSize = 2
INVARIANT AnswerIsRight
INVARIANT ListIsRest
INVARIANT LongestIsLongest
PROPERTY CheckEnds
\* A check ends, or waits for a result that does not come.
CHECK_DEADLOCK FALSE
