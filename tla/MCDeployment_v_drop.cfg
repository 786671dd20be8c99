CONSTANTS
    r1 = r1
    k1 = k1
    Rollouts = {r1}
    Rollbacks = {}
    Replicas = 1
    MaxContainers = 2
    Conns = {k1}
    Faults = {}
SPECIFICATION DeploySpec
INVARIANT CompletedDropsNone
CHECK_DEADLOCK FALSE
