CONSTANTS
    r2 = r2
    r1 = r1
    Rollouts = {r1, r2}
    Rollbacks = {}
    Replicas = 1
    MaxContainers = 5
    Faults = {"recreate"}
SPECIFICATION Spec
INVARIANT OnlyNewServes
CHECK_DEADLOCK FALSE
