CONSTANTS
    Files <- MCFiles
SPECIFICATION Spec
INVARIANT ResultIsAFunction
INVARIANT ConnectivityKept
INVARIANT RolloutFollowsSeed
INVARIANT StackServes
CHECK_DEADLOCK FALSE
