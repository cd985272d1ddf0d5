SPECIFICATION Spec
CONSTANTS
    Clients = {c1, c2}
    Owners = {o1, o2}
    NoOwner = NoOwner
    Links = {k1}
    NoLink = NoLink
    MaxWrites = 3
SYMMETRY MCSymmetry
INVARIANT TypeOK
PROPERTY ImplementsLease
