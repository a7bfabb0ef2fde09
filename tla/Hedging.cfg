\* Two hedged calls of up to two writes each, streamed, buffered and sensitive.
SPECIFICATION Spec
CONSTANTS
    A = A
    B = B
    MaxChunks = 2
INVARIANTS OneVoice QuietAfterReturn ServedMeansServed TotalFailureIsTotal
PROPERTY EverythingSettles
