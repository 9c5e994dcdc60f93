SPECIFICATION Spec
CONSTANTS
    Budgets = {0, 1}
    UseHistory = {TRUE, FALSE}
    Passthrough = {TRUE, FALSE}
    Deferred = {TRUE, FALSE}
    Replies = {"TOOL_USE", "NO_CALLS", "CONTINUE", "END_TURN", "CANCELLED"}
    MaxTurns = 2
    MaxRestarts = 1
    MaxCalls = 6
    Interruptible = {"beforeTool", "runTools", "afterTool", "passHook", "beforeLlm", "llm", "checkpoint", "afterTurn"}
    Failing = {"passHook", "beforeLlm", "llm", "afterTurn", "save"}
INVARIANTS
    TypeOK
    RequestsPaired
PROPERTIES
    KeepsConversation
