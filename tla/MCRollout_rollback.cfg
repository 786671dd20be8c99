CONSTANTS
    b2 = b2
    b1 = b1
    r2 = r2
    r1 = r1
    Rollouts = {r1, r2}
    Rollbacks = {b1, b2}
    Replicas = 1
    MaxContainers = 6
    Faults = {"recreate", "inspect", "rm", "disk", "signal", "kill"}
SPECIFICATION Spec
SYMMETRY Symmetry
INVARIANT RollbackSwaps
INVARIANT CompletedServesNew
INVARIANT CapacityKept
CHECK_DEADLOCK FALSE
