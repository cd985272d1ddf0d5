SPECIFICATION Spec
CONSTANTS
    Jobs = {j1, j2}
    Workers = {w1, w2}
    MaxDelivery = 2
    MaxRuns = 2
    Seeders = {s1, s2}
    MaxChanges = 1
    NoLink = NoLink
    NoOwner = NoOwner
    NoRange = NoRange
SYMMETRY MCSymmetry
VIEW MCView
INVARIANTS TypeOK OnlySeedingSkips CommitIsPublished ResultsAgree
PROPERTY OnlySeedingGoesBack
CHECK_DEADLOCK FALSE
