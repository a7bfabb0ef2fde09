\* Two turns, a delta, and one other frame or event outside the protocol.
SPECIFICATION Spec
CONSTANTS
    Endpoints = {e1, e2}
    MaxRetries = 1
    MaxTurns = 2
    MaxDeltas = 1
    MaxStrays = 1
INVARIANTS SettledOnce BoundInOrder
PROPERTY SessionSettles
