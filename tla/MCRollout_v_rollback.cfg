CONSTANTS
    b1 = b1
    r2 = r2
    r1 = r1
    Rollouts = {r1, r2}
    Rollbacks = {b1}
    Replicas = 1
    MaxContainers = 3
    Faults = {"signal"}
SPECIFICATION Spec
INVARIANT RollbackRestores
CHECK_DEADLOCK FALSE
