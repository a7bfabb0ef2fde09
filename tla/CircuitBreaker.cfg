CONSTANTS
    Leases = {l1, l2}
    Services = {svc}
    Endpoints = {ep1}
    ServiceOf <- MCServiceOf
    PolicyLists <- TimeAndCount
    EnableActive = FALSE
    DefaultRecovery = 2
    MaxClock = 1
    MaxStarts = 3
    MaxResets = 1
    svc = svc
SPECIFICATION HistorySpec
SYMMETRY LeaseSymmetry
INVARIANTS TypeOK OneProbe NoPermitLeak FailuresTrip
PROPERTIES ProbeSamplesOnly
