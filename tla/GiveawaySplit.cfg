SPECIFICATION SplitSpec
CONSTANT Plans <- SmallPlans
INVARIANT SplitOK
PROPERTY Terminates
\* The loop ends.
CHECK_DEADLOCK FALSE
