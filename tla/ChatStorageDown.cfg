CONSTANTS
    Kinds <- ChatOnly
    MaxDetours = 1
    MaxTokens = 1
    MaxFaults = 1
SPECIFICATION Spec
INVARIANTS
    AnswerIsStreamed
CHECK_DEADLOCK FALSE
