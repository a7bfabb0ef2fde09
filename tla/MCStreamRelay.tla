--------------------------- MODULE MCStreamRelay ---------------------------
EXTENDS StreamRelay

AllPaths == {"openai_chat", "openai_responses", "anthropic", "gemini", "probe",
             "chat_to_messages", "chat_to_responses", "messages_to_chat",
             "messages_to_responses"}

\* A lawful Messages stream with two blocks has eight frames, six without its
\* deltas; a Chat stream with text, a call, a finish reason and usage has five.
FrameBounds == [p \in AllPaths |->
    CASE p \in {"chat_to_messages", "chat_to_responses"} -> 5
      [] p \in {"messages_to_chat", "messages_to_responses"} -> 7
      [] p \in {"openai_responses", "openai_chat", "anthropic"} -> 3
      [] OTHER -> 2]
=============================================================================
