CONSTANTS
    Requests = {r1, r2, r3}
    Scenes <- FallenBack
    InputEstimate = 1
    DefaultOutput = 2
    PrechargePrice <- Price2
    SettlePrice <- Price1
SPECIFICATION Spec
SYMMETRY RequestSymmetry
INVARIANT SettlesSameCounters
