CONSTANT Case5Rounds <- MCCase5Rounds
SPECIFICATION Spec
INVARIANT TypeOK
INVARIANT OneConnOpen
CHECK_DEADLOCK FALSE
