CONSTANTS
    c2 = c2
    c1 = c1
    Conns = {c1, c2}
    Ports = {80}
    TargetPort <- MCTargetPort
    Ids = {1, 2}
    Seeds = {1}
    SeedPort = 8080
    MaxAdds = 2
    Ops = {"add", "drain", "remove"}
    Faults = {"bind", "accept", "dial", "sigterm", "unbind"}
SPECIFICATION Spec
SYMMETRY Symmetry
INVARIANT TypeOK
INVARIANT WgCounts
INVARIANT DrainedNeverChosen
INVARIANT MetricsExact
INVARIANT RoundRobinEven
CHECK_DEADLOCK FALSE
