CONSTANTS
    c1 = c1
    Conns = {c1}
    Ports = {80}
    TargetPort <- MCTargetPort
    Ids = {1}
    Seeds = {1}
    SeedPort = 8080
    MaxAdds = 1
    Ops = {}
    Faults = {"sigterm"}
SPECIFICATION Spec
INVARIANT DrainSeesAccepted
CHECK_DEADLOCK FALSE
