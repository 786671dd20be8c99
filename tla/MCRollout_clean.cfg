CONSTANTS
    r3 = r3
    r2 = r2
    r1 = r1
    Rollouts = {r1, r2, r3}
    Rollbacks = {}
    Replicas = 2
    MaxContainers = 5
    Faults = {"pull", "inspect", "disk"}
SPECIFICATION Spec
SYMMETRY Symmetry
INVARIANT TypeOK
INVARIANT OnlyNewServes
INVARIANT ReplicasRestored
CHECK_DEADLOCK FALSE
