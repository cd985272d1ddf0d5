SPECIFICATION Spec
CONSTANTS
    Callers = {c1, c2, c3}
    Deliveries = {d1, d2, d3}
    Limit = 2
    MaxRetries = 2
SYMMETRY MCSymmetry
INVARIANTS TypeOK CounterAgrees
PROPERTY ImplementsQuota
