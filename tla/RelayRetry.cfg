SPECIFICATION Spec
CONSTANTS
    Paths = {"chat_to_messages", "chat_to_responses", "messages_to_responses"}
    MaxFrames <- FrameBounds
    MaxAttempts = 2
    MaxUnlawful = 0
INVARIANTS TranslatesClientBody
CHECK_DEADLOCK FALSE
