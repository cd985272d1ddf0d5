SPECIFICATION Spec
CONSTANTS
    Jobs = {j1}
    Workers = {w1, w2}
    MaxDelivery = 1
    MaxChanges = 2
    MaxRuns = 1
    Seeders = {s1, s2}
    NoLink = NoLink
    NoOwner = NoOwner
    NoRange = NoRange
SYMMETRY MCSymmetry
INVARIANT NoChangeSkipped
CHECK_DEADLOCK FALSE
