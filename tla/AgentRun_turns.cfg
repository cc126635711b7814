SPECIFICATION AgentFairSpec
CONSTANTS
    MaxIds = 3
    Limit = 2
    Capacity = 1
    Keep = 2
    MaxToolCalls = 3
    MaxToolRounds = 2
    MaxCalls = 4
    MaxTurns = 2
INVARIANTS
    TranscriptPaired
    ToolsKeepApart
PROPERTIES
    ResultsAnswerCalls
    ToolsEnd
CHECK_DEADLOCK FALSE
