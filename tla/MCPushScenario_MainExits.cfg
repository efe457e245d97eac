CONSTANT Case5Rounds <- MCCase5Rounds
SPECIFICATION Spec
PROPERTY MainExits
CHECK_DEADLOCK FALSE
