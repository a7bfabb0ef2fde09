CONSTANTS
    Endpoint <- MCEndpoint
    Attr <- MCAttr
    Score <- MCScore
    Fleet <- MCFleet
    Static <- MCStatic
    Scenarios <- MCScenarios
    FailureMax = 4
SPECIFICATION Spec
INVARIANTS
    FirstByteIsFinal
    RetryIsBounded
    FallbackNeedsExhaustion
    OutlierLeavesOne
    FairShare
    SmartNeverDowngrades
PROPERTIES
    Answered
