SPECIFICATION FairSpec
CONSTANTS
    Ids = {s1, s2}
    Urls = {u1, u2}
    Maintenance = maintenance
    Bootstraps = {bootstrap}
    MaxFaults = 2
    None = None
    Gone = Gone
INVARIANTS TypeOK SubscribedIsSeeded TrustedAnswers
CHECK_DEADLOCK FALSE
PROPERTIES ChangesAreListed Repaired
