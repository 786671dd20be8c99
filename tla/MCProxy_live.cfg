CONSTANTS
    c2 = c2
    c1 = c1
    Conns = {c1, c2}
    Ports = {80}
    TargetPort <- MCTargetPort
    Ids = {1}
    Seeds = {1}
    SeedPort = 8080
    MaxAdds = 1
    Ops = {"drain"}
    Faults = {"bind", "accept", "dial", "sigterm", "unbind"}
SPECIFICATION FairSpec
PROPERTY SigtermExits
PROPERTY ConnectionsAnswered
INVARIANT RequestsExact
CHECK_DEADLOCK FALSE
