CONSTANTS
    c2 = c2
    c1 = c1
    Callers = {c1, c2}
    Ids = {1, 2}
    Addrs = {1}
    TokenSet = TRUE
    MaxAdds = 3
SPECIFICATION Spec
SYMMETRY Symmetry
INVARIANT TypeOK
INVARIANT AckedStaysOut
PROPERTY ImplementsService
