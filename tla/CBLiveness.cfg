CONSTANTS
    Leases = {l1, l2}
    Services = {svc}
    Endpoints = {ep1}
    ServiceOf <- MCServiceOf
    PolicyLists <- PerLayer
    EnableActive = FALSE
    DefaultRecovery = 2
    MaxClock = 1
    MaxStarts = 2
    MaxResets = 1
    svc = svc
SPECIFICATION FairSpec
PROPERTY ProbeSlotFreed
