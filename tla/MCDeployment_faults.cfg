CONSTANTS
    r3 = r3
    r2 = r2
    r1 = r1
    k1 = k1
    Rollouts = {r1, r2, r3}
    Rollbacks = {}
    Replicas = 1
    MaxContainers = 4
    Conns = {k1}
    Faults = {"scale", "rm", "http", "signal", "kill"}
SPECIFICATION DeploySpec
SYMMETRY Symmetry
INVARIANT OneRolloutAtATime
INVARIANT NeverDark
INVARIANT NoDeadRoute
INVARIANT CompletedServesNew
INVARIANT StateCoversCutover
INVARIANT OwnRouteServed
INVARIANT CapacityKept
CHECK_DEADLOCK FALSE
